------------------------ MODULE WorktreeProvisioning ------------------------
(***************************************************************************)
(* Preparing and releasing one run's resources: the worktree, its          *)
(* database, the staged environment files and one setup command            *)
(* (tools/worktree.py, tools/database.py, the preparation handler          *)
(* application/services/delivery_preparation.py, its resumption in         *)
(* preparation_resume.py and application/handlers/teardown.py).            *)
(*                                                                         *)
(* A process is one call: a prepare delivery, one reconciliation of an     *)
(* intent at startup, or one teardown delivery.  A process that stalls     *)
(* loses its command's lease and its operations' leases, and may go on     *)
(* later all the same.  Every record of the run row is a compare-and-swap  *)
(* on the version its context was loaded with; pausing, resuming and       *)
(* cancelling the run change that version too.                             *)
(*                                                                         *)
(* Removing the worktree directory is one step here: module                *)
(* WorktreeRemoval has it in detail.                                       *)
(***************************************************************************)
EXTENDS Naturals, FiniteSets

CONSTANTS
    Prepares,   \* deliveries of prepare_worktree, each one call of prepare
    Recoveries, \* startup reconciliations, each inspecting one intent at a time
    Teardowns,  \* deliveries of teardown_run_resources
    Database,   \* policy.database.enabled
    MaxPauses,  \* pauses an operator asks for
    MaxCrashes, \* processes that die
    MaxStalls   \* processes that lose their leases while they run

ProvisioningAssumption ==
    /\ Database \in BOOLEAN
    /\ {MaxPauses, MaxCrashes, MaxStalls} \subseteq Nat
    /\ IsFiniteSet(Prepares \cup Recoveries \cup Teardowns)
    /\ Prepares \cap (Recoveries \cup Teardowns) = {}
    /\ Recoveries \cap Teardowns = {}
    /\ "none" \notin Prepares \cup Recoveries \cup Teardowns

Procs == Prepares \cup Recoveries \cup Teardowns
Intents == {"tree", "database", "files", "command", "removal"}
Checkpoints == {"partial", "created", "active", "staged", "step", "prepared"}

VARIABLES
    run,        \* the run's state
    version,    \* its optimistic version
    path,       \* worktree_path is recorded
    dbstate,    \* database_state; names are recorded unless DISABLED or REMOVED
    events,     \* [Checkpoints -> how many such resource events there are]
    lastRes,    \* run_version of the last resource event before "prepared"
    preparedAt, \* run_version of the "prepared" event
    pauses,     \* pauses so far
    status,     \* [Intents -> OperationStatus, "none" before begin]
    owner,      \* [Intents -> execution_owner]
    pc, on, ctx,\* [Procs -> where, about which intent, loaded run version]
    stalled,    \* processes that have lost their leases
    tree,       \* the git worktree exists
    db,         \* which of secret, role and database exist
    files,      \* the staged environment files
    commands,   \* times the setup command ran
    exit,       \* how it ended
    creates     \* times git created the worktree

row == <<run, version, path, dbstate, events, lastRes, preparedAt>>
table == <<status, owner>>
procs == <<pc, on, ctx, stalled>>
world == <<tree, db, files, commands, exit, creates>>
vars == <<row, pauses, table, procs, world>>

Whole == {"secret", "role", "base"}
Unresolved == {"PENDING", "NEEDS_RECONCILIATION"}
Ended == {"raised", "done", "dead"}

TypeOK ==
    /\ run \in {"PREPARING", "PAUSED", "CANCELLED", "INTERVENTION", "IMPLEMENTING"}
    /\ {version, lastRes, preparedAt, pauses, commands, creates} \subseteq Nat
    /\ {path, tree} \subseteq BOOLEAN
    /\ exit \in {"none", "zero", "nonzero", "lost"}
    /\ dbstate \in {"DISABLED", "PROVISIONING", "FAILED", "ACTIVE", "REMOVED"}
    /\ events \in [Checkpoints -> Nat]
    /\ status \in [Intents -> Unresolved \cup {"none", "SUCCEEDED"}]
    /\ owner \in [Intents -> Procs \cup {"none"}]
    /\ pc \in [Procs -> Ended \cup
         {"idle", "invoke", "reserve", "reload", "effect", "broken", "record",
          "recorded", "observed", "settle", "refused", "observe", "reconcile", "adopt", "after", "retry",
          "provision", "failure", "activated", "setup",
          "final", "publish", "unready", "remove", "release"}]
    /\ on \in [Procs -> Intents]
    /\ ctx \in [Procs -> Nat]
    /\ stalled \subseteq Procs
    /\ db \subseteq Whole
    /\ files \in {"none", "part", "exact"}

Init ==
    /\ run = "PREPARING" /\ version = 1 /\ path = FALSE /\ dbstate = "DISABLED"
    /\ events = [e \in Checkpoints |-> 0]
    /\ lastRes = 0 /\ preparedAt = 0 /\ pauses = 0
    /\ status = [i \in Intents |-> "none"]
    /\ owner = [i \in Intents |-> "none"]
    /\ pc = [p \in Procs |-> "idle"]
    /\ on = [p \in Procs |-> "tree"]
    /\ ctx = [p \in Procs |-> 0]
    /\ stalled = {}
    /\ tree = FALSE /\ db = {} /\ files = "none"
    /\ commands = 0 /\ exit = "none" /\ creates = 0

----------------------------------------------------------------------------
(* Moves and the run row.                                                  *)

Goto(p, place) == pc' = [pc EXCEPT ![p] = place]
Load(p) == ctx' = [ctx EXCEPT ![p] = version]
At(p, place) == pc[p] = place

\* A process that cannot come back for its leases.
Gone(p) == pc[p] \in Ended \cup {"idle"} \/ p \in stalled

\* _validate_run_and_policy, without and with paused_inspection.
Preparing == run = "PREPARING"
Inspectable == run \in {"PREPARING", "PAUSED"}

\* current.version == context.run.version, under the row lock.
Current(p) == ctx[p] = version

\* update_resource: the values, the event and the version in one commit.
Resource(e, place, state) ==
    /\ version' = version + 1
    /\ path' = place
    /\ dbstate' = state
    /\ events' = IF e \in Checkpoints THEN [events EXCEPT ![e] = @ + 1] ELSE events
    /\ lastRes' = IF e = "prepared" THEN lastRes ELSE version + 1
    /\ preparedAt' = IF e = "prepared" THEN version + 1 ELSE preparedAt
    /\ UNCHANGED run

Partial == IF Database THEN "PROVISIONING" ELSE "DISABLED"

\* _record_failure: its own failure to record is suppressed.
RecordFailure(p) ==
    IF Current(p)
    THEN Resource("failed", path, IF Database THEN "FAILED" ELSE "DISABLED")
    ELSE UNCHANGED row

----------------------------------------------------------------------------
(* OperationExecutor.                                                      *)

\* execute: begin makes the intent, or meets one.
Begin(p, i) ==
    /\ on' = [on EXCEPT ![p] = i]
    /\ \/ /\ status[i] = "none"
          /\ status' = [status EXCEPT ![i] = "PENDING"]
          /\ owner' = [owner EXCEPT ![i] = p]
          /\ Goto(p, "invoke")
       \/ /\ status[i] = "SUCCEEDED" /\ Goto(p, "after")
          /\ UNCHANGED table
       \/ /\ status[i] \in Unresolved /\ Goto(p, "observe")
          /\ UNCHANGED table
    /\ UNCHANGED <<row, world>>

\* claim_for_recovery: unresolved, and no live lease.
Claimable(i) ==
    /\ status[i] \in Unresolved
    /\ owner[i] \in {"none"} \cup {p \in Procs : Gone(p)}

\* _observe_or_reconcile: wait for the owner, then reconcile in its place.
Observe(p) ==
    /\ At(p, "observe")
    /\ \/ status[on[p]] = "SUCCEEDED" /\ Goto(p, "after") /\ UNCHANGED owner
       \/ /\ Claimable(on[p])
          /\ owner' = [owner EXCEPT ![on[p]] = p]
          /\ Goto(p, "reconcile")
    /\ UNCHANGED <<row, pauses, status, on, ctx, stalled, world>>

Owns(p) == owner[on[p]] = p /\ p \notin stalled

Close(p, verdict) ==
    /\ status' = [status EXCEPT ![on[p]] = verdict]
    /\ owner' = [owner EXCEPT ![on[p]] = "none"]

\* Where a call goes on from a settled intent, and from one it could not
\* settle: a database failure is recorded, everything else is raised.
Onward(p) == IF p \in Recoveries THEN "idle" ELSE "after"
Backward(p) ==
    CASE p \in Recoveries -> "idle"
      [] p \in Prepares /\ on[p] = "database" -> "failure"
      [] OTHER -> "raised"

\* _store_outcome with a success, if the lease still is this owner's.
Settle(p) ==
    /\ At(p, "settle")
    /\ \/ Owns(p) /\ Close(p, "SUCCEEDED") /\ Goto(p, Onward(p))
       \/ ~Owns(p) /\ Goto(p, Backward(p)) /\ UNCHANGED table
    /\ UNCHANGED <<row, pauses, on, ctx, stalled, world>>

\* The adapter raised, or answered that it needs reconciliation.
Refused(p) ==
    /\ At(p, "refused")
    /\ \/ Owns(p) /\ Close(p, "NEEDS_RECONCILIATION")
       \/ ~Owns(p) /\ UNCHANGED table
    /\ Goto(p, Backward(p))
    /\ UNCHANGED <<row, pauses, on, ctx, stalled, world>>

----------------------------------------------------------------------------
(* WorktreeProvisioner.prepare: the worktree.                              *)

\* The handler calls prepare; a second delivery starts when the first one's
\* lease is over.
Start(p) ==
    /\ p \in Prepares /\ At(p, "idle") /\ Preparing
    /\ \A q \in Prepares : Gone(q)
    /\ Begin(p, "tree")
    /\ UNCHANGED <<pauses, ctx, stalled>>

\* _WorktreeAdapter.invoke: load the context of an untouched intent.
LoadTree(p) ==
    /\ At(p, "invoke") /\ on[p] = "tree"
    /\ IF Preparing /\ owner["tree"] = p /\ events["partial"] = 0
       THEN Load(p) /\ Goto(p, "reserve")
       ELSE Goto(p, "refused") /\ UNCHANGED ctx
    /\ UNCHANGED <<row, pauses, table, on, stalled, world>>

\* Mutant: git is called first and the path recorded when it is done.
ReserveLater(p) ==
    /\ At(p, "reserve")
    /\ Goto(p, "reload")
    /\ UNCHANGED <<row, pauses, table, on, ctx, stalled, world>>

\* The path and the names are recorded before git is called.
Reserve(p) ==
    /\ At(p, "reserve")
    /\ IF Current(p)
       THEN Resource("partial", TRUE, Partial) /\ Goto(p, "reload")
       ELSE Goto(p, "refused") /\ UNCHANGED row
    /\ UNCHANGED <<pauses, table, on, ctx, stalled, world>>

Reload(p) ==
    /\ At(p, "reload")
    /\ IF Preparing THEN Load(p) /\ Goto(p, "effect")
                    ELSE Goto(p, "refused") /\ UNCHANGED ctx
    /\ UNCHANGED <<row, pauses, table, on, stalled, world>>

\* _create_worktree: git answers, or fails before or after it made the tree.
CreateTree(p) ==
    /\ At(p, "effect") /\ on[p] = "tree"
    /\ \/ tree' = TRUE /\ creates' = creates + 1 /\ Goto(p, "record")
       \/ tree' = TRUE /\ creates' = creates + 1 /\ Goto(p, "broken")
       \/ Goto(p, "broken") /\ UNCHANGED <<tree, creates>>
    /\ UNCHANGED <<row, pauses, table, on, ctx, stalled, db, files, commands, exit>>

\* After an error of git: what is there is recorded, and reconciliation asked.
Broken(p) ==
    /\ At(p, "broken")
    /\ IF tree /\ Current(p) THEN Resource("created", TRUE, Partial) ELSE RecordFailure(p)
    /\ Goto(p, "refused")
    /\ UNCHANGED <<pauses, table, on, ctx, stalled, world>>

\* The event an adapter records when its effect is over.
Done(i) == CASE i = "tree" -> "created" [] i = "files" -> "staged" [] i = "command" -> "step"
\* The database state each of them writes.
Kept(i) == IF i = "tree" THEN Partial ELSE dbstate

\* _record_created and _record_setup_event after the effect; the same after
\* a reconciliation that found the effect and no record of it.
Record(p) ==
    /\ pc[p] \in {"record", "adopt"}
    /\ IF Current(p)
       THEN /\ Resource(Done(on[p]), TRUE, Kept(on[p]))
            /\ Goto(p, IF Preparing THEN "recorded" ELSE "observed")
       ELSE Goto(p, "refused") /\ UNCHANGED row
    /\ UNCHANGED <<pauses, table, on, ctx, stalled, world>>

\* _record_resource ends by loading the run again, a paused one if it was.
Recorded(p) ==
    /\ pc[p] \in {"recorded", "observed"}
    /\ Goto(p, IF Preparing \/ (At(p, "observed") /\ Inspectable) THEN "settle" ELSE "refused")
    /\ UNCHANGED <<row, pauses, table, on, ctx, stalled, world>>

\* _WorktreeAdapter.reconcile: inspection only.
ReconcileTree(p) ==
    /\ At(p, "reconcile") /\ on[p] = "tree"
    /\ IF Inspectable /\ events["partial"] > 0 /\ tree
       THEN Load(p) /\ Goto(p, IF events["created"] > 0 THEN "settle" ELSE "adopt")
       ELSE Goto(p, "refused") /\ UNCHANGED ctx
    /\ UNCHANGED <<row, pauses, table, on, stalled, world>>

\* prepare, once the worktree's intent has succeeded.
AfterTree(p) ==
    /\ p \in Prepares /\ At(p, "after") /\ on[p] = "tree"
    /\ Load(p)
    /\ IF Preparing /\ events["created"] = 1 /\ tree
       THEN Goto(p, CASE dbstate = "PROVISIONING" -> "provision"
                      [] dbstate = "FAILED" -> "retry"
                      [] OTHER -> "setup")
       ELSE Goto(p, "raised")
    /\ UNCHANGED <<row, pauses, table, on, stalled, world>>

----------------------------------------------------------------------------
(* _prepare_database and DatabaseProvisioner.                              *)

\* A failed database is tried again.
Retry(p) ==
    /\ At(p, "retry")
    /\ IF Current(p)
       THEN /\ Resource("retry", path, "PROVISIONING")
            /\ ctx' = [ctx EXCEPT ![p] = version + 1]
            /\ Goto(p, "provision")
       ELSE Goto(p, "raised") /\ UNCHANGED <<row, ctx>>
    /\ UNCHANGED <<pauses, table, on, stalled, world>>

Provision(p) ==
    /\ At(p, "provision")
    /\ Begin(p, "database")
    /\ UNCHANGED <<pauses, ctx, stalled>>

\* _ProvisionAdapter.invoke: an untouched identity only.
LoadDatabase(p) ==
    /\ At(p, "invoke") /\ on[p] = "database"
    /\ Goto(p, IF db = {} THEN "effect" ELSE "refused")
    /\ UNCHANGED <<row, pauses, table, on, ctx, stalled, world>>

\* The secret, the role, the database; the server may refuse any of them.
Missing == IF "secret" \notin db THEN "secret" ELSE IF "role" \notin db THEN "role" ELSE "base"
CreateDatabase(p) ==
    /\ At(p, "effect") /\ on[p] = "database"
    /\ \/ /\ db' = db \cup {Missing}
          /\ IF db' = Whole THEN Goto(p, "settle") ELSE UNCHANGED pc
       \/ Goto(p, "refused") /\ UNCHANGED db
    /\ UNCHANGED <<row, pauses, table, on, ctx, stalled, tree, files, commands, exit, creates>>

\* The same adapter's reconcile: complete, or needs reconciliation.
ReconcileDatabase(p) ==
    /\ At(p, "reconcile") /\ on[p] = "database"
    /\ Goto(p, IF db = Whole THEN "settle" ELSE "refused")
    /\ UNCHANGED <<row, pauses, table, on, ctx, stalled, world>>

\* The failure is recorded, and the delivery raises.
Failure(p) ==
    /\ At(p, "failure")
    /\ RecordFailure(p)
    /\ Goto(p, "raised")
    /\ UNCHANGED <<pauses, table, on, ctx, stalled, world>>

\* verify_active, then the ACTIVE record; on a conflict _converge_active.
AfterDatabase(p) ==
    /\ p \in Prepares /\ At(p, "after") /\ on[p] = "database"
    /\ IF db # Whole
       THEN Goto(p, "failure") /\ UNCHANGED row
       ELSE IF Current(p)
            THEN Resource("active", path, "ACTIVE") /\ Goto(p, "activated")
            ELSE /\ Goto(p, IF Preparing /\ dbstate = "ACTIVE" THEN "activated" ELSE "raised")
                 /\ UNCHANGED row
    /\ UNCHANGED <<pauses, table, on, ctx, stalled, world>>

Activated(p) ==
    /\ At(p, "activated")
    /\ Goto(p, IF Preparing /\ db = Whole THEN "setup" ELSE "raised")
    /\ UNCHANGED <<row, pauses, table, on, ctx, stalled, world>>

----------------------------------------------------------------------------
(* _run_setup.                                                             *)

Stage(p) ==
    /\ At(p, "setup")
    /\ Begin(p, "files")
    /\ UNCHANGED <<pauses, ctx, stalled>>

\* _EnvironmentStageAdapter and _SetupCommandAdapter load the run first.
LoadSetup(p) ==
    /\ At(p, "invoke") /\ on[p] \in {"files", "command"}
    /\ IF Preparing /\ status["tree"] = "SUCCEEDED" /\ tree
       THEN Load(p) /\ Goto(p, "effect")
       ELSE Goto(p, "refused") /\ UNCHANGED ctx
    /\ UNCHANGED <<row, pauses, table, on, stalled, world>>

\* publish writes the files one after the other.
Publish(p) ==
    /\ At(p, "effect") /\ on[p] = "files"
    /\ \/ files # "exact" /\ files' = (IF files = "none" THEN "part" ELSE "exact") /\ UNCHANGED pc
       \/ files = "exact" /\ Goto(p, "record") /\ UNCHANGED files
       \/ Goto(p, "refused") /\ UNCHANGED files
    /\ UNCHANGED <<row, pauses, table, on, ctx, stalled, tree, db, commands, exit, creates>>

\* run_terminal: the command ends with some exit code, or the runner fails.
RunSetupCommand(p) ==
    /\ At(p, "effect") /\ on[p] = "command"
    /\ commands' = commands + 1
    /\ \/ exit' \in {"zero", "nonzero"} /\ Goto(p, "record")
       \/ exit' = "lost" /\ Goto(p, "refused")
    /\ UNCHANGED <<row, pauses, table, on, ctx, stalled, tree, db, files, creates>>

\* A recovery reads a paused run too, a delivery does not.
SetupVisible(p) ==
    /\ IF p \in Recoveries THEN Inspectable ELSE Preparing
    /\ status["tree"] = "SUCCEEDED" /\ tree

ReconcileFiles(p) ==
    /\ At(p, "reconcile") /\ on[p] = "files"
    /\ IF SetupVisible(p) /\ files = "exact"
       THEN Load(p) /\ Goto(p, IF events["staged"] > 0 THEN "settle" ELSE "adopt")
       ELSE Goto(p, "refused") /\ UNCHANGED ctx
    /\ UNCHANGED <<row, pauses, table, on, stalled, world>>

\* Without its checkpoint a command is never taken for done.
ReconcileCommand(p) ==
    /\ At(p, "reconcile") /\ on[p] = "command"
    /\ Goto(p, IF SetupVisible(p) /\ events["step"] > 0 THEN "settle" ELSE "refused")
    /\ UNCHANGED <<row, pauses, table, on, ctx, stalled, world>>

\* _require_completed_effect, then the one setup command.
AfterFiles(p) ==
    /\ p \in Prepares /\ At(p, "after") /\ on[p] = "files"
    /\ Begin(p, "command")
    /\ UNCHANGED <<pauses, ctx, stalled>>

\* A command that failed raises WorktreeSetupFailed; else the run is loaded
\* once more and everything inspected again.
AfterCommand(p) ==
    /\ p \in Prepares /\ At(p, "after") /\ on[p] = "command"
    /\ Load(p)
    /\ Goto(p, IF exit # "zero" THEN "unready"
               ELSE IF /\ Preparing /\ tree /\ files = "exact"
                       /\ dbstate = "ACTIVE" => db = Whole
                    THEN "final" ELSE "raised")
    /\ UNCHANGED <<row, pauses, table, on, stalled, world>>

\* The check _record_prepared_once makes of the event it finds.
PreparedExact == preparedAt = lastRes + 1

\* _record_prepared_once, and the load that ends prepare.
RecordPrepared(p) ==
    /\ At(p, "final")
    /\ \/ events["prepared"] > 0 /\ UNCHANGED row
          /\ Goto(p, IF PreparedExact THEN "publish" ELSE "raised")
       \/ /\ events["prepared"] = 0 /\ Current(p)
          /\ Resource("prepared", path, dbstate)
          /\ Goto(p, "publish")
       \/ events["prepared"] = 0 /\ ~Current(p) /\ UNCHANGED row /\ Goto(p, "raised")
    /\ UNCHANGED <<pauses, table, on, ctx, stalled, world>>

\* The handler again: its own lease, the run in its state, and the transition.
Transition(p, place, state) ==
    /\ At(p, place)
    /\ IF p \notin stalled /\ Preparing
       THEN /\ run' = state /\ version' = version + 1 /\ Goto(p, "done")
       ELSE Goto(p, "raised") /\ UNCHANGED <<run, version>>
    /\ UNCHANGED <<path, dbstate, events, lastRes, preparedAt, pauses, table, on, ctx,
                   stalled, world>>

Prepared(p) == Transition(p, "publish", "IMPLEMENTING")
SetupFailed(p) == Transition(p, "unready", "INTERVENTION")

----------------------------------------------------------------------------
(* Startup recovery, the operator, and teardown.                           *)

\* RecoveryService.reconcile of one unresolved intent.
Recover(r, i) ==
    /\ At(r, "idle")
    /\ Claimable(i)
    /\ owner' = [owner EXCEPT ![i] = r]
    /\ on' = [on EXCEPT ![r] = i]
    /\ Goto(r, "reconcile")
    /\ UNCHANGED <<row, pauses, status, ctx, stalled, world>>

\* prove_quiescent: no delivery holds a lease and no intent is unresolved.
Quiescent ==
    /\ \A q \in Prepares : Gone(q)
    /\ \A i \in Intents : status[i] \notin Unresolved

\* inspect_prepared.
InspectPrepared ==
    /\ status["tree"] = "SUCCEEDED" /\ events["created"] = 1 /\ tree
    /\ IF Database THEN dbstate = "ACTIVE" /\ db = Whole ELSE dbstate = "DISABLED"

Control(state) ==
    /\ run' = state /\ version' = version + 1
    /\ UNCHANGED <<path, dbstate, events, lastRes, preparedAt, table, procs, world>>

PauseRun ==
    /\ Preparing /\ pauses < MaxPauses
    /\ pauses' = pauses + 1
    /\ Control("PAUSED")

\* PreparationResumeService.settle_and_enqueue, and the resume.
Effects == path \/ \E e \in Checkpoints : events[e] > 0
ResumeRun ==
    /\ run = "PAUSED"
    /\ Quiescent
    /\ Effects => InspectPrepared
    /\ Control("PREPARING")
    /\ UNCHANGED pauses

CancelRun ==
    /\ Teardowns # {}
    /\ run \in {"PREPARING", "PAUSED"}
    /\ Control("CANCELLED")
    /\ UNCHANGED pauses

\* TeardownRunResourcesHandler: the run at rest, with something to remove.
StartTeardown(t) ==
    /\ t \in Teardowns /\ At(t, "idle")
    /\ run \in {"CANCELLED", "INTERVENTION"}
    /\ path \/ dbstate \notin {"DISABLED", "REMOVED"}
    /\ Quiescent
    /\ \A q \in Teardowns : Gone(q)
    /\ Goto(t, "remove")
    /\ UNCHANGED <<row, pauses, table, on, ctx, stalled, world>>

\* The worktree first, and its record (external: module WorktreeRemoval).
RemoveTree(t) ==
    /\ At(t, "remove")
    /\ tree' = FALSE
    /\ IF path THEN Resource("removed", FALSE, dbstate) ELSE UNCHANGED row
    /\ ctx' = [ctx EXCEPT ![t] = version']
    /\ Goto(t, IF dbstate \in {"DISABLED", "REMOVED"} THEN "done" ELSE "release")
    /\ UNCHANGED <<pauses, table, on, stalled, db, files, commands, exit, creates>>

ReleaseDatabase(t) ==
    /\ At(t, "release")
    /\ Begin(t, "removal")
    /\ UNCHANGED <<pauses, ctx, stalled>>

\* _TeardownAdapter.invoke: the database, the role, the secret, in that order.
LoadRemoval(t) ==
    /\ At(t, "invoke") /\ on[t] = "removal"
    /\ Goto(t, IF db = {} THEN "settle" ELSE "effect")
    /\ UNCHANGED <<row, pauses, table, on, ctx, stalled, world>>

Newest == IF "base" \in db THEN "base" ELSE IF "role" \in db THEN "role" ELSE "secret"
DropDatabase(t) ==
    /\ At(t, "effect") /\ on[t] = "removal"
    /\ \/ /\ db' = db \ {Newest}
          /\ IF db' = {} THEN Goto(t, "settle") ELSE UNCHANGED pc
       \/ Goto(t, "refused") /\ UNCHANGED db
    /\ UNCHANGED <<row, pauses, table, on, ctx, stalled, tree, files, commands, exit, creates>>

ReconcileRemoval(p) ==
    /\ At(p, "reconcile") /\ on[p] = "removal"
    /\ Goto(p, IF db = {} THEN "settle" ELSE "refused")
    /\ UNCHANGED <<row, pauses, table, on, ctx, stalled, world>>

\* _record_database_removed.
Forget(t) ==
    /\ t \in Teardowns /\ At(t, "after")
    /\ IF Current(t)
       THEN Resource("forgotten", path, "REMOVED") /\ Goto(t, "done")
       ELSE Goto(t, "raised") /\ UNCHANGED row
    /\ UNCHANGED <<pauses, table, on, ctx, stalled, world>>

Crash(p) ==
    /\ pc[p] \notin Ended \cup {"idle"}
    /\ Cardinality({q \in Procs : pc[q] = "dead"}) < MaxCrashes
    /\ Goto(p, "dead")
    /\ UNCHANGED <<row, pauses, table, on, ctx, stalled, world>>

Stall(p) ==
    /\ p \notin Recoveries /\ pc[p] \notin Ended \cup {"idle"} /\ p \notin stalled
    /\ Cardinality(stalled) < MaxStalls
    /\ stalled' = stalled \cup {p}
    /\ UNCHANGED <<row, pauses, table, pc, on, ctx, world>>

----------------------------------------------------------------------------
Executor(p) == Observe(p) \/ Settle(p) \/ Refused(p)
Tree(p) ==
    \/ Start(p) \/ LoadTree(p) \/ Reserve(p) \/ Reload(p) \/ CreateTree(p)
    \/ Broken(p) \/ Record(p) \/ Recorded(p) \/ ReconcileTree(p) \/ AfterTree(p)
Provisioning(p) ==
    \/ Retry(p) \/ Provision(p) \/ LoadDatabase(p) \/ CreateDatabase(p)
    \/ ReconcileDatabase(p) \/ Failure(p) \/ AfterDatabase(p) \/ Activated(p)
Setup(p) ==
    \/ Stage(p) \/ LoadSetup(p) \/ Publish(p) \/ RunSetupCommand(p)
    \/ ReconcileFiles(p) \/ ReconcileCommand(p) \/ AfterFiles(p) \/ AfterCommand(p)
    \/ RecordPrepared(p) \/ Prepared(p) \/ SetupFailed(p)
Teardown(p) ==
    \/ StartTeardown(p) \/ RemoveTree(p) \/ ReleaseDatabase(p) \/ LoadRemoval(p)
    \/ DropDatabase(p) \/ ReconcileRemoval(p) \/ Forget(p)
Work(p) == Executor(p) \/ Tree(p) \/ Provisioning(p) \/ Setup(p) \/ Teardown(p)
Operator == PauseRun \/ ResumeRun \/ CancelRun

Next ==
    \/ \E p \in Procs : Work(p) \/ Crash(p) \/ Stall(p)
    \/ \E r \in Recoveries, i \in Intents : Recover(r, i)
    \/ Operator

Spec == Init /\ [][Next]_vars

\* A process that runs goes on, and every worker start goes through all that
\* is unresolved; crashes, stalls and the operator owe nothing.
Fairness ==
    /\ \A p \in Procs : WF_vars(Work(p))
    /\ \A r \in Recoveries, i \in Intents : SF_vars(Recover(r, i))

FairSpec == Spec /\ Fairness

----------------------------------------------------------------------------
(* Properties.                                                             *)

\* However deliveries overlap, die and are repeated, git creates the
\* worktree once and the setup command runs once.
EffectsOnce == creates <= 1 /\ commands <= 1

\* Nothing exists that the run row does not name: the path is recorded
\* before git is called, the database's names before the secret is made, and
\* they are forgotten only when they are gone.
NothingUnnamed ==
    /\ tree => path
    /\ db # {} => dbstate \in {"PROVISIONING", "FAILED", "ACTIVE"}

\* No checkpoint is recorded twice (every later load would refuse the run),
\* and a checkpoint that stands tells the truth about the world.
CheckpointsTrue ==
    /\ \A e \in Checkpoints : events[e] <= 1
    /\ events["created"] > 0 /\ path => tree \/ run \in {"CANCELLED", "INTERVENTION"}
    /\ dbstate = "ACTIVE" => db = Whole \/ status["removal"] # "none"
    /\ events["step"] > 0 => commands = 1

\* A run that goes on to its implementation has everything: the tree, the
\* exact files, one successful setup command and a whole database.
ReadyToImplement ==
    run = "IMPLEMENTING" =>
        /\ tree /\ files = "exact" /\ commands = 1 /\ exit = "zero"
        /\ Database => dbstate = "ACTIVE" /\ db = Whole

\* A teardown that reported its end left nothing behind.
TornDown == (\E t \in Teardowns : pc[t] = "done") => ~tree /\ db = {} /\ dbstate # "ACTIVE"

=============================================================================
