--------------------------- MODULE WorktreeRemoval ---------------------------
(***************************************************************************)
(* The managed worktrees of one repository on disk (tools/git.py on top of *)
(* the pinned directory capabilities of tools/paths.py, POSIX side): how   *)
(* one is created, inspected, and taken away through two quarantines, and  *)
(* the teardown code that does so (tools/worktree.py for runs,             *)
(* tools/developer_worktree.py for the command line).                      *)
(*                                                                         *)
(* A directory being emptied is "whole" (content and proof file), then     *)
(* "proof" (only .git or gitdir left), then "empty", then "none".  Creating*)
(* and removing take .git/forge-worktree.lock without waiting; inspection  *)
(* and git worktree prune take no lock.  A call is one creation or one     *)
(* teardown attempt; it may fail at any file operation, and its process    *)
(* may die between any two (MaxFaults times in all).                       *)
(***************************************************************************)
EXTENDS Naturals, FiniteSets

CONSTANTS
    Trees,      \* the worktree identities of the repository
    Calls,      \* creation and teardown attempts
    Mode,       \* [Calls -> which entry point]
    tree,       \* [Calls -> the identity the call is about]
    Ready,      \* the trees that exist already
    MaxFaults   \* bound: file operations that fail and processes that die

Modes == {"create", "invoke", "reconcile", "cli"}

RemovalAssumption ==
    /\ Mode \in [Calls -> Modes]
    /\ tree \in [Calls -> Trees]
    /\ Ready \subseteq Trees
    /\ MaxFaults \in Nat
    /\ "free" \notin Calls

VARIABLES
    target,     \* [Trees -> .worktrees/<name>]
    tq,         \* [Trees -> .worktrees/.forge-quarantine/<name>]
    reg,        \* [Trees -> .git/worktrees/<name> is there]
    rq,         \* [Trees -> .git/.forge-worktree-quarantine/<name>]
    branch,     \* [Trees -> the branch exists]
    lock,       \* holder of .git/forge-worktree.lock
    pc,         \* [Calls -> where the call is]
    recorded,   \* trees whose removal is checkpointed (worktree_path is None,
                \* "worktree.removed")
    faults      \* faults so far

disk == <<target, tq, reg, rq, branch>>
vars == <<disk, lock, pc, recorded, faults>>

Shrinking == {"whole", "proof", "empty", "none"}
\* Steps taken with the lock held.
Locked == {"add", "validate", "bound", "moved", "cleared", "unregister",
           "registrationMoved", "removed"}
Ended == {"created", "done", "needs", "raised", "dead"}

TypeOK ==
    /\ target \in [Trees -> {"absent", "bare", "live"}]
    /\ tq \in [Trees -> Shrinking]
    /\ reg \in [Trees -> BOOLEAN]
    /\ rq \in [Trees -> Shrinking]
    /\ branch \in [Trees -> BOOLEAN]
    /\ lock \in Calls \cup {"free"}
    /\ pc \in [Calls -> {"idle", "make", "remove", "live", "stale", "gone", "verify",
                         "prove", "look", "prune", "record"} \cup Locked \cup Ended]
    /\ recorded \subseteq Trees
    /\ faults \in 0..MaxFaults

Init ==
    /\ target = [t \in Trees |-> IF t \in Ready THEN "live" ELSE "absent"]
    /\ tq = [t \in Trees |-> "none"]
    /\ reg = [t \in Trees |-> t \in Ready]
    /\ rq = [t \in Trees |-> "none"]
    /\ branch = [t \in Trees |-> t \in Ready]
    /\ lock = "free"
    /\ pc = [c \in Calls |-> "idle"]
    /\ recorded = {}
    /\ faults = 0

Goto(c, place) == pc' = [pc EXCEPT ![c] = place]
\* _open_posix_mutation_lock: LOCK_EX | LOCK_NB.
Acquire(c) == lock = "free" /\ lock' = c

\* Closing the access closes the lock's descriptor.
Release(c) == lock' = IF lock = c THEN "free" ELSE lock

----------------------------------------------------------------------------
(* What a caller can read off the disk.                                    *)

\* _registration_quarantine_metadata scans every entry, and one whose gitdir
\* file is gone fails the scan, whichever tree it belonged to.
QuarantineReadable == \A u \in Trees : rq[u] # "empty"
QuarantineMatch(t) == rq[t] \in {"whole", "proof"}

\* The live target passes _validate_handle: marker, registration, branch.
HandleValid(t) == target[t] = "live" /\ reg[t] /\ branch[t]

\* inspect_worktree, which neither locks nor repairs.
InspectPresent(t) ==
    /\ QuarantineReadable /\ tq[t] = "none" /\ ~QuarantineMatch(t)
    /\ HandleValid(t)

InspectAbsent(t) ==
    /\ QuarantineReadable /\ tq[t] = "none" /\ ~QuarantineMatch(t)
    /\ target[t] = "absent" /\ ~reg[t] /\ ~branch[t]

----------------------------------------------------------------------------
(* Creating a worktree.                                                    *)

\* create_worktree up to the directory: the branch must not exist and nothing
\* may be registered.
CreateCheck(c) ==
    /\ pc[c] = "idle" /\ Mode[c] = "create"
    /\ IF InspectAbsent(tree[c]) THEN Goto(c, "make") ELSE Goto(c, "raised")
    /\ UNCHANGED <<disk, lock, recorded, faults>>

\* _create_posix_directory: the lock and a new leaf.
CreateDirectory(c) ==
    /\ pc[c] = "make"
    /\ \/ /\ ~branch[tree[c]] /\ ~reg[tree[c]] /\ target[tree[c]] = "absent"
          /\ Acquire(c)
          /\ target' = [target EXCEPT ![tree[c]] = "bare"]
          /\ Goto(c, "add")
       \/ /\ branch[tree[c]] \/ reg[tree[c]] \/ target[tree[c]] # "absent" \/ lock # "free"
          /\ Goto(c, "raised")
          /\ UNCHANGED <<lock, target>>
    /\ UNCHANGED <<tq, reg, rq, branch, recorded, faults>>

\* git worktree add -b: the branch, then the registration and the marker.
GitAddBranch(c) ==
    /\ pc[c] = "add" /\ ~branch[tree[c]]
    /\ branch' = [branch EXCEPT ![tree[c]] = TRUE]
    /\ UNCHANGED <<target, tq, reg, rq, lock, pc, recorded, faults>>

GitAddWorktree(c) ==
    /\ pc[c] = "add" /\ branch[tree[c]]
    /\ target' = [target EXCEPT ![tree[c]] = "live"]
    /\ reg' = [reg EXCEPT ![tree[c]] = TRUE]
    /\ Goto(c, "validate")
    /\ UNCHANGED <<tq, rq, branch, lock, recorded, faults>>

CreateValidate(c) ==
    /\ pc[c] = "validate"
    /\ Release(c)
    /\ IF HandleValid(tree[c]) THEN Goto(c, "created") ELSE Goto(c, "raised")
    /\ UNCHANGED <<disk, recorded, faults>>

----------------------------------------------------------------------------
(* The teardown callers.                                                   *)

\* _WorktreeTeardownAdapter.invoke: only a worktree inspection finds is removed.
InvokeStart(c) ==
    /\ pc[c] = "idle" /\ Mode[c] = "invoke"
    /\ IF tree[c] \notin recorded /\ InspectPresent(tree[c])
       THEN Goto(c, "remove") ELSE Goto(c, "raised")
    /\ UNCHANGED <<disk, lock, recorded, faults>>

\* _WorktreeTeardownAdapter.reconcile starts with the proof of absence; it
\* follows an invoke, which may still be running.
ReconcileStart(c) ==
    /\ pc[c] = "idle" /\ Mode[c] = "reconcile"
    /\ \E i \in Calls : Mode[i] = "invoke" /\ tree[i] = tree[c] /\ pc[i] # "idle"
    /\ Goto(c, "prove")
    /\ UNCHANGED <<disk, lock, recorded, faults>>

\* DeveloperWorktreeService.teardown: inspect, else prove absence.
CliStart(c) ==
    /\ pc[c] = "idle" /\ Mode[c] = "cli"
    /\ Goto(c, IF InspectPresent(tree[c]) /\ tree[c] \notin recorded THEN "remove" ELSE "verify")
    /\ UNCHANGED <<disk, lock, recorded, faults>>

\* remove_worktree picks its path from an unlocked look at target and registry.
RemoveDispatch(c) ==
    /\ pc[c] = "remove"
    /\ \/ target[tree[c]] # "absent" /\ reg[tree[c]] /\ Goto(c, "live")
       \/ target[tree[c]] = "absent" /\ reg[tree[c]] /\ Goto(c, "stale")
       \/ target[tree[c]] = "absent" /\ ~reg[tree[c]] /\ Goto(c, "gone")
       \/ target[tree[c]] # "absent" /\ ~reg[tree[c]]
          /\ Goto(c, IF Mode[c] = "invoke" THEN "verify" ELSE "raised")
    /\ UNCHANGED <<disk, lock, recorded, faults>>

\* What a raised ControlledGitError does: the adapter swallows it and asks for
\* the proof of absence, the command line stops.
Refused(c) == Goto(c, IF Mode[c] = "invoke" THEN "verify" ELSE "raised")

\* _reject_posix_destination: neither quarantine may hold the name already.
DestinationsFree(t) == tq[t] = "none" /\ rq[t] = "none"

\* _open_posix_worktree_removal pins target and registration.
LiveOpens(t) == target[t] # "absent" /\ reg[t] /\ DestinationsFree(t)

\* _verify_posix_registration_state: the gitdir proof still reads the same.
RegistrationStands(t) == reg[t]

\* _bind_worktree_quarantine: both still there, no collision.
Binds(t) == target[t] = "live" /\ RegistrationStands(t) /\ DestinationsFree(t)

\* _remove_live_worktree up to the mutation: open, check, bind, lock held.
OpenLive(c) ==
    LET t == tree[c]
        Fits == LiveOpens(t) /\ HandleValid(t) /\ QuarantineReadable /\ Binds(t)
    IN /\ pc[c] = "live"
       /\ \/ Fits /\ Acquire(c) /\ Goto(c, "bound")
          \/ (~Fits \/ lock # "free") /\ Refused(c) /\ UNCHANGED lock
       /\ UNCHANGED <<disk, recorded, faults>>

\* _open_posix_worktree_removal(STALE_REGISTRATION): the target stays absent.
OpenStale(c) ==
    LET t == tree[c]
        Fits == target[t] = "absent" /\ reg[t] /\ DestinationsFree(t)
                /\ QuarantineReadable /\ branch[t]
    IN /\ pc[c] = "stale"
       /\ \/ Fits /\ Acquire(c) /\ Goto(c, "unregister")
          \/ (~Fits \/ lock # "free") /\ Refused(c) /\ UNCHANGED lock
       /\ UNCHANGED <<disk, recorded, faults>>

\* _remove_absent_worktree under the lock: nothing of the tree is left but its
\* branch.  (A pruned .git/worktrees is put back first, so its absence is no
\* obstacle.)
ProvenAbsent(t) ==
    /\ target[t] = "absent" /\ tq[t] = "none" /\ ~reg[t]
    /\ QuarantineReadable /\ ~QuarantineMatch(t) /\ branch[t]

\* remove_worktree on a tree that is gone already is that proof, no more.
RemoveGone(c) ==
    /\ pc[c] = "gone"
    /\ \/ ProvenAbsent(tree[c]) /\ lock = "free" /\ Goto(c, "verify")
       \/ (~ProvenAbsent(tree[c]) \/ lock # "free") /\ Refused(c)
    /\ UNCHANGED <<target, tq, reg, rq, branch, lock, recorded, faults>>

----------------------------------------------------------------------------
(* Taking a tree away, lock held.                                          *)

\* Mutant: the registration is moved with the target.
QuarantineBoth(c) ==
    /\ pc[c] = "bound"
    /\ target' = [target EXCEPT ![tree[c]] = "absent"]
    /\ tq' = [tq EXCEPT ![tree[c]] = "whole"]
    /\ reg' = [reg EXCEPT ![tree[c]] = FALSE]
    /\ rq' = [rq EXCEPT ![tree[c]] = "whole"]
    /\ Goto(c, "moved")
    /\ UNCHANGED <<branch, lock, recorded, faults>>

\* _quarantine_target: one rename.
QuarantineTarget(c) ==
    /\ pc[c] = "bound"
    /\ target' = [target EXCEPT ![tree[c]] = "absent"]
    /\ tq' = [tq EXCEPT ![tree[c]] = "whole"]
    /\ Goto(c, "moved")
    /\ UNCHANGED <<reg, rq, branch, lock, recorded, faults>>

Shrink(size) == CASE size = "whole" -> "proof"
                  [] size = "proof" -> "empty"
                  [] OTHER -> "none"

\* _delete_target_quarantine: the content, the proof, the directory.
DeleteTargetQuarantine(c) ==
    /\ pc[c] = "moved"
    /\ tq' = [tq EXCEPT ![tree[c]] = Shrink(@)]
    /\ Goto(c, IF tq[tree[c]] = "empty" THEN "unregister" ELSE "moved")
    /\ UNCHANGED <<target, reg, rq, branch, lock, recorded, faults>>

\* _quarantine_registration: only once the target is gone; a prune may have
\* taken the registration meanwhile.
QuarantineRegistration(c) ==
    /\ pc[c] = "unregister"
    /\ \/ /\ RegistrationStands(tree[c])
          /\ target[tree[c]] = "absent" /\ tq[tree[c]] = "none"
          /\ reg' = [reg EXCEPT ![tree[c]] = FALSE]
          /\ rq' = [rq EXCEPT ![tree[c]] = "whole"]
          /\ Goto(c, "registrationMoved")
          /\ UNCHANGED lock
       \/ /\ ~RegistrationStands(tree[c])
          /\ Release(c) /\ Refused(c)
          /\ UNCHANGED <<reg, rq>>
    /\ UNCHANGED <<target, tq, branch, recorded, faults>>

\* _delete_registration_quarantine: content, gitdir, directory.
DeleteRegistrationQuarantine(c) ==
    /\ pc[c] = "registrationMoved"
    /\ rq' = [rq EXCEPT ![tree[c]] = Shrink(@)]
    /\ Goto(c, IF rq[tree[c]] = "empty" THEN "removed" ELSE "registrationMoved")
    /\ UNCHANGED <<target, tq, reg, branch, lock, recorded, faults>>

\* _verify_removal_absent, then the lock goes.
FinishRemoval(c) ==
    /\ pc[c] = "removed"
    /\ Release(c)
    /\ IF ProvenAbsent(tree[c]) THEN Goto(c, "verify") ELSE Refused(c)
    /\ UNCHANGED <<disk, recorded, faults>>

----------------------------------------------------------------------------
(* Proving it, and recording it.                                           *)

\* verify_worktree_absent: locks and proves.
VerifyAbsent(c) ==
    /\ pc[c] \in {"verify", "prove"}
    /\ \/ /\ ProvenAbsent(tree[c]) /\ lock = "free"
          /\ Goto(c, "prune")
       \/ /\ ~ProvenAbsent(tree[c]) \/ lock # "free"
          /\ Goto(c, IF pc[c] = "prove" THEN "look" ELSE "raised")
         
    /\ UNCHANGED <<target, tq, reg, rq, branch, lock, recorded, faults>>

\* The reconciling adapter, absence not proved: a present worktree needs
\* reconciliation, anything else raises.
ReconcileLook(c) ==
    /\ pc[c] = "look"
    /\ Goto(c, IF InspectPresent(tree[c]) THEN "needs" ELSE "raised")
    /\ UNCHANGED <<disk, lock, recorded, faults>>

\* git worktree prune --expire=now, without the lock: every registration whose
\* target is gone goes.
Prune(c) ==
    /\ pc[c] = "prune"
    /\ reg' = [t \in Trees |-> reg[t] /\ target[t] # "absent"]
    /\ Goto(c, "record")
    /\ UNCHANGED <<target, tq, rq, branch, lock, recorded, faults>>

\* _record_worktree_removed, or the manifest checkpoint.
RecordRemoved(c) ==
    /\ pc[c] = "record"
    /\ recorded' = recorded \cup {tree[c]}
    /\ Goto(c, "done")
    /\ UNCHANGED <<disk, lock, faults>>

----------------------------------------------------------------------------
(* Faults.                                                                 *)

\* A file operation fails while the lock is held; what was done stays done.
OperationFails(c) ==
    /\ pc[c] \in Locked /\ faults < MaxFaults
    /\ faults' = faults + 1
    /\ Release(c)
    /\ IF pc[c] \in {"add", "validate"} THEN Goto(c, "raised") ELSE Refused(c)
    /\ UNCHANGED <<disk, recorded>>

\* The process dies; flock goes with it.
Crash(c) ==
    /\ pc[c] \notin Ended \cup {"idle"} /\ faults < MaxFaults
    /\ faults' = faults + 1
    /\ Release(c)
    /\ Goto(c, "dead")
    /\ UNCHANGED <<disk, recorded>>

Creating(c) == CreateDirectory(c) \/ GitAddBranch(c) \/ GitAddWorktree(c) \/ CreateValidate(c)
Removing(c) ==
    \/ RemoveDispatch(c) \/ OpenLive(c) \/ OpenStale(c) \/ RemoveGone(c)
    \/ QuarantineTarget(c) \/ DeleteTargetQuarantine(c)
    \/ QuarantineRegistration(c) \/ DeleteRegistrationQuarantine(c) \/ FinishRemoval(c)
Proving(c) == VerifyAbsent(c) \/ ReconcileLook(c) \/ Prune(c) \/ RecordRemoved(c)

\* Every call has ended.
Finished == (\A c \in Calls : pc[c] \in Ended) /\ UNCHANGED vars

Next ==
    \/ \E c \in Calls :
          \/ CreateCheck(c) \/ InvokeStart(c) \/ ReconcileStart(c) \/ CliStart(c)
          \/ Creating(c) \/ Removing(c) \/ Proving(c)
          \/ OperationFails(c) \/ Crash(c)
    \/ Finished

Spec == Init /\ [][Next]_vars

\* A process that runs takes its next step; calls need not start.
Attend(c) == Creating(c) \/ Removing(c) \/ Proving(c)

Fairness == \A c \in Calls : WF_vars(Attend(c))

FairSpec == Spec /\ Fairness

----------------------------------------------------------------------------
(* Properties.                                                             *)

\* A recorded removal is a fact: nothing of the worktree is left in any of the
\* four places, and its branch is.  Between the proof, an unlocked prune and
\* the record lie other calls' steps, and nothing after the record undoes it.
RecordedMeansGone ==
    \A t \in recorded :
        /\ target[t] = "absent" /\ tq[t] = "none" /\ ~reg[t] /\ rq[t] = "none"
        /\ branch[t]

\* Whatever fails or dies, content is accounted for: a worktree directory or
\* its quarantined rest is there only while the branch that holds its commits
\* is, and the two places never hold it at once (a second removal would have
\* renamed onto the rest of the first).
ContentAccounted ==
    \A t \in Trees :
        /\ target[t] = "live" => branch[t] /\ reg[t] /\ rq[t] = "none" /\ tq[t] = "none"
        /\ tq[t] # "none" => target[t] = "absent" /\ branch[t] /\ rq[t] = "none"
        /\ rq[t] # "none" => target[t] = "absent" /\ tq[t] = "none" /\ ~reg[t]

\* A prune run by one teardown never unregisters a worktree that is still on
\* disk, and a quarantine only empties, ends or begins with a rename: nothing
\* is put back or renamed over.
OnlyForward ==
    [][\A t \in Trees :
        /\ reg[t] /\ ~reg'[t] => target'[t] # "live"
        /\ tq[t] # "none" => tq'[t] \in {tq[t], Shrink(tq[t])}
        /\ rq[t] # "none" => rq'[t] \in {rq[t], Shrink(rq[t])}
        /\ target[t] = "live" /\ target'[t] # "live" => tq[t] = "none"
      ]_vars

\* A removal nothing breaks goes through: when no file operation fails and no
\* process dies, a worktree whose removal was bound ends provably absent, also
\* when another teardown's prune takes its registration half way.
RemovalCompletes ==
    \A c \in Calls :
        (pc[c] = "bound") ~> (faults > 0 \/ ProvenAbsent(tree[c]))

\* Every call comes to an end.
CallsEnd == []<>(\A c \in Calls : pc[c] \in {"idle"} \cup Ended)

=============================================================================
