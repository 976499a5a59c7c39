----------------------- MODULE StartupRecovery_proofs -----------------------
(***************************************************************************)
(* Proofs about StartupRecovery for any processes, runs, faults and        *)
(* acquisitions.  The singleton is what makes one process's sweep count    *)
(* for everyone: a lease that is valid cannot have been taken over since   *)
(* its sweep, so what the sweep marked is what was interrupted.            *)
(***************************************************************************)
EXTENDS StartupRecovery, TLAPS

\* What a process at the end of its sequence knows, if its lease still stands.
SweepCovers ==
    \A p \in Procs : Valid(p) =>
        /\ pc[p] = "committing" => interrupted \subseteq swept[p]
        /\ pc[p] = "finishing" => interrupted \subseteq marked

\* The inductive invariant.
RecoveryInv ==
    /\ TypeOK
    /\ interrupted \subseteq unresolved
    /\ SweepCovers
    /\ ReopensHeld
    /\ DrainHolds

\* Init establishes the invariant.
LEMMA InitInv == Init => RecoveryInv
  <1> SUFFICES ASSUME Init PROVE RecoveryInv
    OBVIOUS
  <1> USE StartupAssumption DEF Init
  <1>1. TypeOK
    <2>1. 0 \in 0..MaxGeneration /\ 0 \in 0..MaxFaults
      OBVIOUS
    <2>2. pc \in [Procs -> {"down", "waiting", "polling"} \cup Owning]
      OBVIOUS
    <2>3. leased \in [Runs -> BOOLEAN] /\ effect \in [Runs -> BOOLEAN]
      OBVIOUS
    <2>q. QED
      BY <2>1, <2>2, <2>3 DEF TypeOK
  <1>2. \A p \in Procs : ~ Valid(p)
    BY DEF Valid
  <1>3. interrupted \subseteq unresolved /\ ReopensHeld
    BY DEF ReopensHeld
  <1>q. QED
    BY <1>1, <1>2, <1>3 DEF RecoveryInv, SweepCovers, DrainHolds

\* Every step keeps the types.
LEMMA TypeStep == TypeOK /\ [Next]_vars => TypeOK'
  <1> SUFFICES ASSUME TypeOK, [Next]_vars PROVE TypeOK'
    OBVIOUS
  <1> USE StartupAssumption DEF TypeOK, Owning, Drained, Sweeping, barrier, procs
  <1>1. CASE UNCHANGED vars
    BY <1>1 DEF vars
  <1>2. ASSUME NEW p \in Procs, Start(p) \/ WaitForOwners(p) \/ Recheck(p) PROVE TypeOK'
    BY <1>2 DEF Start, WaitForOwners, Recheck
  <1>3. ASSUME NEW p \in Procs, Acquire(p) PROVE TypeOK'
    BY <1>3 DEF Acquire
  <1>4. ASSUME NEW p \in Procs, Sweep(p) \/ CommitSweep(p) PROVE TypeOK'
    BY <1>4 DEF Sweep, CommitSweep
  <1>5. ASSUME NEW p \in Procs, Finish(p) PROVE TypeOK'
    BY <1>5 DEF Finish
  <1>6. ASSUME NEW p \in Procs, GiveUp(p) PROVE TypeOK'
    BY <1>6 DEF GiveUp, Abandon
  <1>7. ASSUME NEW p \in Procs, Stop(p) PROVE TypeOK'
    <2>1. faults' \in 0..MaxFaults
      BY <1>7 DEF Stop, Fault
    <2>q. QED
      BY <1>7, <2>1 DEF Stop, Abandon
  <1>8. ASSUME NEW p \in Procs, Crash(p) PROVE TypeOK'
    BY <1>8 DEF Crash, Fault
  <1>9. ASSUME NEW p \in Procs, NEW r \in Runs, ReconcileWork(p, r) PROVE TypeOK'
    BY <1>9 DEF ReconcileWork, Resolve
  <1>10. ASSUME NEW p \in Procs, NEW r \in Runs, Claim(p, r) PROVE TypeOK'
    BY <1>10 DEF Claim
  <1>11. ASSUME NEW p \in Procs, NEW r \in Runs, BeginWork(p, r) PROVE TypeOK'
    BY <1>11 DEF BeginWork
  <1>12. ASSUME NEW p \in Procs, NEW r \in Runs, EndWork(p, r) PROVE TypeOK'
    BY <1>12 DEF EndWork, Resolve
  <1>13. ASSUME NEW r \in Runs, LeaseLapses(r) PROVE TypeOK'
    BY <1>13 DEF LeaseLapses
  <1>14. ASSUME NEW r \in Runs, OwnerRecovers(r) PROVE TypeOK'
    BY <1>14 DEF OwnerRecovers
  <1>15. CASE BarrierLapses
    <2>1. faults' \in 0..MaxFaults
      BY <1>15 DEF BarrierLapses, Fault
    <2>q. QED
      BY <1>15, <2>1 DEF BarrierLapses
  <1>q. QED
    BY <1>1, <1>2, <1>3, <1>4, <1>5, <1>6, <1>7, <1>8, <1>9, <1>10, <1>11, <1>12, <1>13, <1>14,
       <1>15 DEF Next, Startup

\* Every step keeps the rest of the invariant.
LEMMA InvStep == RecoveryInv /\ [Next]_vars => RecoveryInv'
  <1> SUFFICES ASSUME RecoveryInv, [Next]_vars PROVE RecoveryInv'
    OBVIOUS
  <1> DEFINE Kept == /\ interrupted \subseteq unresolved
                     /\ SweepCovers /\ ReopensHeld /\ DrainHolds
  <1>a. TypeOK /\ TypeOK' /\ Kept
    BY TypeStep DEF RecoveryInv
  <1> SUFFICES Kept'
    BY <1>a DEF RecoveryInv
  <1> USE <1>a, StartupAssumption DEF TypeOK, Owning, Drained, Sweeping, barrier, procs, SweepCovers,
        ReopensHeld, DrainHolds, Valid
  <1>1. CASE UNCHANGED vars
    BY <1>1 DEF vars
  <1>2. ASSUME NEW p \in Procs, Start(p) PROVE Kept'
    BY <1>2 DEF Start
  <1>3. ASSUME NEW p \in Procs, Acquire(p) PROVE Kept'
    BY <1>3 DEF Acquire, Executed
  <1>4. ASSUME NEW p \in Procs, WaitForOwners(p) PROVE Kept'
    BY <1>4 DEF WaitForOwners, Active
  <1>5. ASSUME NEW p \in Procs, Sweep(p) PROVE Kept'
    BY <1>5 DEF Sweep, Active
  <1>6. ASSUME NEW p \in Procs, Recheck(p) PROVE Kept'
    BY <1>6 DEF Recheck, SweepStillCurrent, Active
  <1>7. ASSUME NEW p \in Procs, CommitSweep(p) PROVE Kept'
    BY <1>7 DEF CommitSweep
  <1>8. ASSUME NEW p \in Procs, Finish(p) PROVE Kept'
    BY <1>8 DEF Finish
  <1>9. ASSUME NEW p \in Procs, GiveUp(p) PROVE Kept'
    BY <1>9 DEF GiveUp, Abandon
  <1>10. ASSUME NEW p \in Procs, Stop(p) PROVE Kept'
    BY <1>10 DEF Stop, Abandon
  <1>11. ASSUME NEW p \in Procs, Crash(p) PROVE Kept'
    BY <1>11 DEF Crash
  <1>12. ASSUME NEW p \in Procs, NEW r \in Runs, ReconcileWork(p, r) PROVE Kept'
    BY <1>12 DEF ReconcileWork, Resolve
  <1>13. ASSUME NEW p \in Procs, NEW r \in Runs, Claim(p, r) PROVE Kept'
    BY <1>13 DEF Claim
  <1>14. ASSUME NEW p \in Procs, NEW r \in Runs, BeginWork(p, r) PROVE Kept'
    BY <1>14 DEF BeginWork
  <1>15. ASSUME NEW p \in Procs, NEW r \in Runs, EndWork(p, r) PROVE Kept'
    BY <1>15 DEF EndWork, Resolve
  <1>16. ASSUME NEW r \in Runs, LeaseLapses(r) PROVE Kept'
    BY <1>16 DEF LeaseLapses
  <1>17. ASSUME NEW r \in Runs, OwnerRecovers(r) PROVE Kept'
    BY <1>17 DEF OwnerRecovers
  <1>18. CASE BarrierLapses
    BY <1>18 DEF BarrierLapses
  <1>q. QED
    BY <1>1, <1>2, <1>3, <1>4, <1>5, <1>6, <1>7, <1>8, <1>9, <1>10, <1>11, <1>12, <1>13, <1>14,
       <1>15, <1>16, <1>17, <1>18 DEF Next, Startup

\* The invariant holds of every reachable state.
THEOREM RecoveryInvariant == Spec => []RecoveryInv
  BY InitInv, InvStep, PTL DEF Spec

\* Admission is open only while every interruption that is not settled carries
\* its marker, whichever processes lapsed, stopped or overtook each other
\* (worker/startup.py run_startup_recovery).
THEOREM AlwaysReopensHeld == Spec => []ReopensHeld
  <1>1. RecoveryInv => ReopensHeld
    BY DEF RecoveryInv
  <1>q. QED
    BY <1>1, RecoveryInvariant, PTL

\* A recovery that has drained the owners is alone until its lease is gone
\* (worker/startup_intervention.py wait_for_owners, claim_next's barrier).
THEOREM DrainAlwaysHolds == Spec => []DrainHolds
  <1>1. RecoveryInv => DrainHolds
    BY DEF RecoveryInv
  <1>q. QED
    BY <1>1, RecoveryInvariant, PTL

\* One step hands no interrupted run to a handler.
LEMMA DispatchStep ==
    RecoveryInv /\ [Next]_vars =>
        [\A p \in Procs : handling'[p] # handling[p] => handling'[p] \notin interrupted]_vars
  <1> SUFFICES ASSUME RecoveryInv, Next, NEW q \in Procs, handling'[q] # handling[q]
               PROVE handling'[q] \notin interrupted
    OBVIOUS
  <1> USE StartupAssumption DEF RecoveryInv, TypeOK, ReopensHeld, barrier, procs
  <1>1. ASSUME NEW p \in Procs, Start(p) \/ Startup(p) \/ Stop(p) PROVE handling' = handling
    BY <1>1 DEF Start, Startup, Stop, Acquire, WaitForOwners, Sweep, Recheck, CommitSweep, Finish, GiveUp
  <1>2. ASSUME NEW p \in Procs, Crash(p) PROVE handling'[q] \notin interrupted
    BY <1>2 DEF Crash
  <1>3. ASSUME NEW p \in Procs, NEW r \in Runs, ReconcileWork(p, r) \/ BeginWork(p, r)
        PROVE handling' = handling
    BY <1>3 DEF ReconcileWork, BeginWork
  <1>4. ASSUME NEW p \in Procs, NEW r \in Runs, Claim(p, r) PROVE handling'[q] \notin interrupted
    BY <1>4 DEF Claim, Hold
  <1>5. ASSUME NEW p \in Procs, NEW r \in Runs, EndWork(p, r) PROVE handling'[q] \notin interrupted
    BY <1>5 DEF EndWork
  <1>6. ASSUME NEW r \in Runs, LeaseLapses(r) \/ OwnerRecovers(r) PROVE handling' = handling
    BY <1>6 DEF LeaseLapses, OwnerRecovers
  <1>7. CASE BarrierLapses
    BY <1>7 DEF BarrierLapses
  <1>q. QED
    BY <1>1, <1>2, <1>3, <1>4, <1>5, <1>6, <1>7 DEF Next

\* No command of an interrupted run is delivered before its work is settled
\* (persistence/queries/recovery.py startup_intervention_hold).
THEOREM InterruptedNeverDispatched == Spec => InterruptedNotDispatched
  BY RecoveryInvariant, DispatchStep, PTL DEF Spec, InterruptedNotDispatched

=============================================================================
