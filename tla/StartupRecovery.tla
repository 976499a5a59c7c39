--------------------------- MODULE StartupRecovery --------------------------
(***************************************************************************)
(* What keeps a restarted worker from dispatching over interrupted work:   *)
(* the recovery singleton (persistence/repositories/recovery.py), the      *)
(* startup sequence that owns it (worker/startup.py, the reconcile of      *)
(* worker/main.py), the drain and the quarantine of                        *)
(* worker/startup_intervention.py, and the two questions claim_next asks:  *)
(* is recovery required, is this run held (persistence/queries/            *)
(* recovery.py).                                                           *)
(*                                                                         *)
(* The barrier is compared on the database clock, so its lease is live or  *)
(* over.  Several worker processes start, poll, stall, stop and crash.  A  *)
(* handler whose command lease lapsed keeps running and may still begin    *)
(* work.  Unresolved work of a run is one flag: an intent that is PENDING  *)
(* or NEEDS_RECONCILIATION, or a RUNNING execution, step or tool call.     *)
(***************************************************************************)
EXTENDS Naturals, FiniteSets

CONSTANTS
    Procs,      \* worker processes
    Runs,
    Refusing,   \* runs whose state the intervention does not support
    MaxGeneration, \* bound: acquisitions of the singleton
    MaxFaults   \* bound: crashes, stops and lapses of the barrier

ASSUME StartupAssumption ==
    /\ Refusing \subseteq Runs
    /\ MaxGeneration \in Nat /\ MaxFaults \in Nat
    /\ "none" \notin Procs /\ "none" \notin Runs

VARIABLES
    required, holder, generation, alive,    \* the recovery singleton
    pc,         \* [Procs -> where the process is]
    gen,        \* [Procs -> the generation of its RecoveryLease]
    swept,      \* [Procs -> the runs its open quarantine has locked and marked]
    handling,   \* [Procs -> the run its command handler works on]
    leased,     \* [Runs -> a live command lease exists]
    effect,     \* [Runs -> an intent with a live execution lease exists]
    unresolved, \* runs with unresolved work
    marked,     \* runs with a run.recovery_intervention event that no owner
                \* recovery followed
    interrupted, \* history: runs whose work nobody executed when the singleton
                \* was last acquired and that is still unresolved
    faults

barrier == <<required, holder, generation, alive>>
procs == <<pc, gen, swept>>
vars == <<barrier, procs, handling, leased, effect, unresolved, marked, interrupted, faults>>

\* The stages of run_startup_recovery under the lease, in order.
Sweeping == {"sweeping", "committing"}
Drained == {"recovering", "finishing"} \cup Sweeping
Owning == {"draining"} \cup Drained

TypeOK ==
    /\ required \in BOOLEAN /\ holder \in Procs \cup {"none"}
    /\ generation \in 0..MaxGeneration /\ alive \in BOOLEAN
    /\ pc \in [Procs -> {"down", "waiting", "polling"} \cup Owning]
    /\ gen \in [Procs -> 0..MaxGeneration]
    /\ swept \in [Procs -> SUBSET Runs]
    /\ handling \in [Procs -> Runs \cup {"none"}]
    /\ leased \in [Runs -> BOOLEAN] /\ effect \in [Runs -> BOOLEAN]
    /\ unresolved \subseteq Runs
    /\ marked \subseteq Runs
    /\ interrupted \subseteq Runs
    /\ faults \in 0..MaxFaults

\* A database that has seen workers before: open for dispatch.
Init ==
    /\ required = FALSE /\ holder = "none" /\ generation = 0 /\ alive = FALSE
    /\ pc = [p \in Procs |-> "down"]
    /\ gen = [p \in Procs |-> 0]
    /\ swept = [p \in Procs |-> {}]
    /\ handling = [p \in Procs |-> "none"]
    /\ leased = [r \in Runs |-> FALSE]
    /\ effect = [r \in Runs |-> FALSE]
    /\ unresolved = {}
    /\ marked = {}
    /\ interrupted = {}
    /\ faults = 0

Fault == faults < MaxFaults /\ faults' = faults + 1

\* Runs some open quarantine holds FOR UPDATE.
Locked(r) == \E p \in Procs : pc[p] \in Sweeping /\ r \in swept[p]

Executed == {r \in Runs : \E p \in Procs : handling[p] = r}

----------------------------------------------------------------------------
(* The singleton.                                                          *)

\* Mutant: required, owner and expiry are compared, the generation is not.
ValidAnyGeneration(p) == required /\ alive

\* The row still carries this lease: required, owner, generation, not expired.
Valid(p) == required /\ holder = p /\ generation = gen[p] /\ alive

\* acquire: nobody holds a live lease.  It closes admission at once.
Acquire(p) ==
    /\ pc[p] = "waiting"
    /\ holder = "none" \/ ~ alive
    /\ generation < MaxGeneration
    /\ required' = TRUE /\ holder' = p /\ alive' = TRUE
    /\ generation' = generation + 1
    /\ gen' = [gen EXCEPT ![p] = generation + 1]
    /\ pc' = [pc EXCEPT ![p] = "draining"]
    /\ interrupted' = unresolved \ Executed
    /\ UNCHANGED <<swept, handling, leased, effect, unresolved, marked, faults>>

\* abandon: gives the singleton up, if still this lease, and leaves it required.
Abandon(p) ==
    IF holder = p /\ generation = gen[p]
    THEN required' = TRUE /\ holder' = "none" /\ alive' = FALSE
    ELSE UNCHANGED <<required, holder, alive>>

\* finish: reopens admission, if still this lease.
Finish(p) ==
    /\ pc[p] = "finishing" /\ Valid(p)
    /\ required' = FALSE /\ holder' = "none" /\ alive' = FALSE
    /\ pc' = [pc EXCEPT ![p] = "polling"]
    /\ UNCHANGED <<generation, gen, swept, handling, leased, effect, unresolved, marked,
                   interrupted, faults>>

\* No renewal reached the database in time.
BarrierLapses ==
    /\ alive /\ Fault
    /\ alive' = FALSE
    /\ UNCHANGED <<required, holder, generation, procs, handling, leased, effect, unresolved,
                   marked, interrupted>>

----------------------------------------------------------------------------
(* The startup sequence.                                                   *)

Start(p) ==
    /\ pc[p] = "down"
    /\ pc' = [pc EXCEPT ![p] = "waiting"]
    /\ UNCHANGED <<barrier, gen, swept, handling, leased, effect, unresolved, marked,
                   interrupted, faults>>

\* _active: a live command lease or a live execution lease.
Active == \E r \in Runs : leased[r] \/ effect[r]

\* Mutant: startup does not wait for the owners it finds.
DrainAtOnce(p) ==
    /\ pc[p] = "draining" /\ Valid(p)
    /\ pc' = [pc EXCEPT ![p] = "recovering"]
    /\ UNCHANGED <<barrier, gen, swept, handling, leased, effect, unresolved, marked,
                   interrupted, faults>>

\* wait_for_owners returns.
WaitForOwners(p) ==
    /\ pc[p] = "draining" /\ Valid(p)
    /\ ~ Active
    /\ pc' = [pc EXCEPT ![p] = "recovering"]
    /\ UNCHANGED <<barrier, gen, swept, handling, leased, effect, unresolved, marked,
                   interrupted, faults>>

\* The work of a run is settled; a marker it has stays.
Resolve(r) ==
    /\ unresolved' = unresolved \ {r}
    /\ interrupted' = interrupted \ {r}
    /\ UNCHANGED marked

\* reconcile_all and the recoveries after it settle what they can observe; an
\* intent under a live lease is not claimed.
ReconcileWork(p, r) ==
    /\ pc[p] = "recovering"
    /\ r \in unresolved /\ ~ effect[r] /\ ~ Locked(r)
    /\ Resolve(r)
    /\ UNCHANGED <<barrier, procs, handling, leased, effect, faults>>

\* quarantine opens its unit of work, locks and marks every unresolved run.
Sweep(p) ==
    /\ pc[p] = "recovering" /\ Valid(p) /\ ~ Active
    /\ unresolved \cap Refusing = {}
    /\ \A r \in unresolved : ~ Locked(r)
    /\ swept' = [swept EXCEPT ![p] = unresolved]
    /\ pc' = [pc EXCEPT ![p] = "sweeping"]
    /\ UNCHANGED <<barrier, gen, handling, leased, effect, unresolved, marked, interrupted, faults>>

\* The checks before the commit: still this lease, nobody active, and the same
\* runs with the same evidence.
SweepStillCurrent(p) ==
    /\ pc[p] = "sweeping" /\ Valid(p) /\ ~ Active
    /\ unresolved = swept[p]

Recheck(p) ==
    /\ SweepStillCurrent(p)
    /\ pc' = [pc EXCEPT ![p] = "committing"]
    /\ UNCHANGED <<barrier, gen, swept, handling, leased, effect, unresolved, marked,
                   interrupted, faults>>

\* Its commit makes the markers visible.
CommitSweep(p) ==
    /\ pc[p] = "committing"
    /\ marked' = marked \cup swept[p]
    /\ swept' = [swept EXCEPT ![p] = {}]
    /\ pc' = [pc EXCEPT ![p] = "finishing"]
    /\ UNCHANGED <<barrier, gen, handling, leased, effect, unresolved, interrupted, faults>>

\* A stage raises (the lease is gone, an owner appeared, a run refuses) or the
\* renewal did: the sequence ends, and with it the process.
GivesUp(p) ==
    \/ pc[p] \in Owning \ {"committing"} /\ ~ Valid(p)
    \/ pc[p] = "recovering" /\ (Active \/ unresolved \cap Refusing # {})
    \/ pc[p] = "sweeping" /\ (Active \/ unresolved # swept[p])

GiveUp(p) ==
    /\ GivesUp(p)
    /\ Abandon(p)
    /\ pc' = [pc EXCEPT ![p] = "down"]
    /\ swept' = [swept EXCEPT ![p] = {}]
    /\ UNCHANGED <<generation, gen, handling, leased, effect, unresolved, marked, interrupted, faults>>

\* The operator stops a starting process.
Stop(p) ==
    /\ pc[p] \in Owning /\ Fault
    /\ Abandon(p)
    /\ pc' = [pc EXCEPT ![p] = "down"]
    /\ swept' = [swept EXCEPT ![p] = {}]
    /\ UNCHANGED <<generation, gen, handling, leased, effect, unresolved, marked, interrupted>>

\* The process dies; rows and leases stay.
Crash(p) ==
    /\ pc[p] # "down" /\ Fault
    /\ pc' = [pc EXCEPT ![p] = "down"]
    /\ swept' = [swept EXCEPT ![p] = {}]
    /\ handling' = [handling EXCEPT ![p] = "none"]
    /\ UNCHANGED <<barrier, gen, leased, effect, unresolved, marked, interrupted>>

----------------------------------------------------------------------------
(* Ordinary work.                                                          *)

\* Mutant: unresolved work without an intent holds nothing.
HeldByIntent(r) == effect[r] /\ r \in unresolved /\ r \in marked

\* startup_intervention_hold: unresolved work and a recovery marker that no
\* owner recovery has answered.
Hold(r) == r \in unresolved /\ r \in marked

\* claim_next on the NORMAL lane, under a share lock of the singleton.
Claim(p, r) ==
    /\ pc[p] = "polling" /\ handling[p] = "none"
    /\ ~ required
    /\ ~ leased[r] /\ ~ Hold(r) /\ ~ Locked(r)
    /\ leased' = [leased EXCEPT ![r] = TRUE]
    /\ handling' = [handling EXCEPT ![p] = r]
    /\ UNCHANGED <<barrier, procs, effect, unresolved, marked, interrupted, faults>>

\* The handler starts a step or an intent; begin does not ask for the command
\* lease, so a stalled handler can.
BeginWork(p, r) ==
    /\ handling[p] = r /\ ~ Locked(r)
    /\ unresolved' = unresolved \cup {r}
    /\ effect' \in {effect, [effect EXCEPT ![r] = TRUE]}
    /\ UNCHANGED <<barrier, procs, handling, leased, marked, interrupted, faults>>

\* The handler settles its work under its lease; or, without it, leaves what it
\* began to a redelivery.
EndWork(p, r) ==
    /\ handling[p] = r /\ ~ Locked(r)
    /\ handling' = [handling EXCEPT ![p] = "none"]
    /\ \/ /\ leased[r]
          /\ Resolve(r)
          /\ leased' = [leased EXCEPT ![r] = FALSE]
          /\ effect' = [effect EXCEPT ![r] = FALSE]
       \/ ~ leased[r] /\ UNCHANGED <<leased, effect, unresolved, marked, interrupted>>
    /\ UNCHANGED <<barrier, procs, faults>>

\* Leases run out when nobody renews them; a stall is one such reason.
LeaseLapses(r) ==
    /\ \/ leased[r] /\ leased' = [leased EXCEPT ![r] = FALSE] /\ UNCHANGED effect
       \/ effect[r] /\ effect' = [effect EXCEPT ![r] = FALSE] /\ UNCHANGED leased
    /\ UNCHANGED <<barrier, procs, handling, unresolved, marked, interrupted, faults>>

\* Owner recovery of an interrupted check or Git preparation settles the whole
\* interruption and answers its marker.
OwnerRecovers(r) ==
    /\ r \in unresolved /\ r \in marked /\ r \notin Executed /\ ~ Locked(r)
    /\ unresolved' = unresolved \ {r}
    /\ interrupted' = interrupted \ {r}
    /\ marked' = marked \ {r}
    /\ UNCHANGED <<barrier, procs, handling, leased, effect, faults>>

----------------------------------------------------------------------------
Startup(p) ==
    \/ Acquire(p) \/ WaitForOwners(p) \/ Sweep(p) \/ Recheck(p) \/ CommitSweep(p)
    \/ Finish(p) \/ GiveUp(p)

Next ==
    \/ \E p \in Procs : Start(p) \/ Startup(p) \/ Stop(p) \/ Crash(p)
    \/ \E p \in Procs, r \in Runs :
        ReconcileWork(p, r) \/ Claim(p, r) \/ BeginWork(p, r) \/ EndWork(p, r)
    \/ \E r \in Runs : LeaseLapses(r) \/ OwnerRecovers(r)
    \/ BarrierLapses

Spec == Init /\ [][Next]_vars

\* The event loop runs the startup sequence, handlers return, and leases that
\* nobody renews run out.
Fairness ==
    /\ \A p \in Procs : WF_vars(Startup(p))
    /\ \A p \in Procs : WF_vars(\E r \in Runs : EndWork(p, r))
    /\ \A r \in Runs : WF_vars(LeaseLapses(r))

FairSpec == Spec /\ Fairness

----------------------------------------------------------------------------
(* Properties.                                                             *)

\* When admission is open, every run interrupted before the last startup and
\* not settled since carries a recovery marker, whichever process finished,
\* lapsed or was overtaken (startup.py 11, startup_intervention.py quarantine).
ReopensHeld == ~ required => interrupted \subseteq marked

\* A current recovery that has drained finds no live command lease for as long
\* as it owns the singleton: startup never steals a live effect
\* (startup_intervention.py wait_for_owners, claim_next's share lock).
DrainHolds ==
    \A p \in Procs : pc[p] \in Drained /\ Valid(p) => \A r \in Runs : ~ leased[r]

\* No command is delivered for a run whose interrupted work is unsettled
\* (queries/recovery.py startup_intervention_hold).
InterruptedNotDispatched ==
    [][\A p \in Procs : handling'[p] # handling[p] => handling'[p] \notin interrupted]_vars

\* A starting process reaches its polls or goes down; it does not wait for ever
\* for leases or for the singleton (startup.py, wait_for_owners).
StartupEnds ==
    []<>(\A p \in Procs : pc[p] \notin Owning)

=============================================================================
