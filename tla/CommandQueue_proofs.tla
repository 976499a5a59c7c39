------------------------- MODULE CommandQueue_proofs -------------------------
(***************************************************************************)
(* Proofs, for every set of workers, every skew of their clocks and every  *)
(* number of commands and faults, that the fence works: a settlement       *)
(* commits only for the newest delivery of a leased command, a cancelled   *)
(* command is never applied, and a settled command stays settled.  Where   *)
(* the workers' clocks agree, the NORMAL lane has one live lease; and a    *)
(* worker runs one handler at a time.                                      *)
(***************************************************************************)
EXTENDS CommandQueue, FiniteSetTheorems, TLAPS

----------------------------------------------------------------------------
(* The inductive invariant.                                                *)

\* The rows' columns, without their bounds.
Row ==
    [type : CommandType, status : Status, owner : Workers \cup {"none"},
     expires : Int, attempt : Nat, delay : Int]

RowsTyped ==
    /\ cmd \in [Commands -> Row]
    /\ tasks \subseteq Delivery
    /\ applied \in [Commands -> Nat]

\* What the row lock protects from the fence to the commit: the command stays
\* leased and no later delivery of it begins.
FenceHolds ==
    \A t \in tasks : t.phase = "fenced" =>
        cmd[t.cmd].status = "LEASED" /\ cmd[t.cmd].attempt = t.attempt

Inv == RowsTyped /\ FenceHolds /\ CancelledNeverApplied

\* The two ways a row's columns are written.
Releasing(r, s, d) ==
    [r EXCEPT !.status = s, !.owner = "none", !.expires = 0, !.delay = d]

Counting(r, e, d) == [r EXCEPT !.expires = e, !.delay = d]

\* A row whose time moved is a row.
LEMMA Counted ==
    \A r \in Row, e \in Int, d \in Int :
        /\ Counting(r, e, d) \in Row
        /\ Counting(r, e, d).status = r.status
        /\ Counting(r, e, d).attempt = r.attempt
        /\ Counting(r, e, d).type = r.type /\ Counting(r, e, d).expires = e
  BY DEF Row, Counting

\* A row whose lease is given up is a row.
LEMMA Released ==
    \A r \in Row, s \in Status, d \in Int :
        /\ Releasing(r, s, d) \in Row
        /\ Releasing(r, s, d).status = s
        /\ Releasing(r, s, d).attempt = r.attempt
  <1> TAKE r \in Row, s \in Status, d \in Int
  <1> DEFINE r1 == [r EXCEPT !.status = s]
             r2 == [r1 EXCEPT !.owner = "none"]
  <1>1. r1 \in Row /\ r1.status = s /\ r1.attempt = r.attempt
    BY DEF Row
  <1>2. Releasing(r, s, d) = Counting(r2, 0, d)
    BY DEF Releasing, Counting
  <1> HIDE DEF r1
  <1>3. r2 \in Row /\ r2.status = s /\ r2.attempt = r.attempt
    BY <1>1 DEF Row
  <1> HIDE DEF r2
  <1> QED
    BY <1>2, <1>3, Counted

\* A settled row keeps its delay.
LEMMA SettledRow ==
    ASSUME NEW r \in Row, NEW s
    PROVE  [r EXCEPT !.status = s, !.owner = "none", !.expires = 0]
             = Releasing(r, s, r.delay)
  BY DEF Row, Releasing

----------------------------------------------------------------------------
(* How a step may treat fenced deliveries.                                 *)

\* Their rows are left alone, as far as the fence asked.
LocksRespected ==
    \A t \in tasks : t.phase = "fenced" =>
        cmd'[t.cmd].status = cmd[t.cmd].status /\ cmd'[t.cmd].attempt = cmd[t.cmd].attempt

\* None is made without asking.
NoneFenced ==
    \A u \in tasks' : u.phase = "fenced" =>
        \E t \in tasks : t.phase = "fenced" /\ t.cmd = u.cmd /\ t.attempt = u.attempt

\* A step that leaves fenced rows alone and fences nobody keeps the fence.
LEMMA FenceKept ==
    ASSUME FenceHolds, LocksRespected, NoneFenced
    PROVE  FenceHolds'
  BY DEF FenceHolds, LocksRespected, NoneFenced

\* Steps that only change who executes what.
LEMMA TaskStep ==
    ASSUME Inv, UNCHANGED <<cmd, applied>>, tasks' \subseteq Delivery, NoneFenced
    PROVE  Inv'
  <1>1. LocksRespected
    BY DEF LocksRespected
  <1>2. FenceHolds'
    BY <1>1, FenceKept DEF Inv
  <1> QED
    BY <1>2 DEF Inv, RowsTyped, CancelledNeverApplied

\* What a delivery becomes is a delivery.
LEMMA DeliveryChanges ==
    ASSUME NEW t \in Delivery
    PROVE  /\ \A p \in {"running", "fenced", "returned", "raised"} :
                 /\ [t EXCEPT !.phase = p] \in Delivery
                 /\ [t EXCEPT !.phase = p].phase = p
                 /\ [t EXCEPT !.phase = p].cmd = t.cmd
                 /\ [t EXCEPT !.phase = p].attempt = t.attempt
           /\ [t EXCEPT !.draining = TRUE] \in Delivery
           /\ [t EXCEPT !.draining = TRUE].phase = t.phase
           /\ [t EXCEPT !.draining = TRUE].cmd = t.cmd
           /\ [t EXCEPT !.draining = TRUE].attempt = t.attempt
  BY DEF Delivery

\* A delivery that ends fences nothing.
LEMMA Ends ==
    ASSUME RowsTyped, NEW t \in tasks, End(t)
    PROVE  tasks' \subseteq Delivery /\ NoneFenced
  BY DEF RowsTyped, End, NoneFenced

\* One delivery replaced by another that is not newly fenced.
LEMMA Replaced ==
    ASSUME RowsTyped, NEW t \in tasks, NEW d \in Delivery, tasks' = (tasks \ {t}) \cup {d},
           d.phase = "fenced" => t.phase = "fenced" /\ d.cmd = t.cmd /\ d.attempt = t.attempt
    PROVE  tasks' \subseteq Delivery /\ NoneFenced
  BY DEF RowsTyped, NoneFenced

\* Draining keeps the phase.
LEMMA GivesUp ==
    ASSUME RowsTyped, NEW t \in tasks, GiveUp(t)
    PROVE  tasks' \subseteq Delivery /\ NoneFenced
  <1> DEFINE d == [t EXCEPT !.draining = TRUE]
  <1>1. t \in Delivery
    BY DEF RowsTyped
  <1>2. d \in Delivery /\ d.phase = t.phase /\ d.cmd = t.cmd /\ d.attempt = t.attempt
    BY <1>1, DeliveryChanges
  <1>3. tasks' = (tasks \ {t}) \cup {d}
    BY DEF GiveUp
  <1> HIDE DEF d
  <1> QED
    BY <1>2, <1>3, Replaced

\* A delivery that returned or raised is not fenced.
LEMMA Becomes ==
    ASSUME RowsTyped, NEW t \in tasks, NEW p \in {"returned", "raised"}, Become(t, p)
    PROVE  tasks' \subseteq Delivery /\ NoneFenced
  <1> DEFINE d == [t EXCEPT !.phase = p]
  <1>1. t \in Delivery
    BY DEF RowsTyped
  <1>2. d \in Delivery /\ d.phase = p
    BY <1>1 DEF Delivery
  <1>3. tasks' = (tasks \ {t}) \cup {d}
    BY DEF Become
  <1>4. p # "fenced"
    OBVIOUS
  <1> HIDE DEF d
  <1> QED
    BY <1>4, <1>2, <1>3, Replaced

\* Steps that rewrite one row nobody has locked.
LEMMA RowStep ==
    ASSUME Inv, NEW c \in Commands, RowFree(c), NEW row \in Row,
           cmd' = [cmd EXCEPT ![c] = row], row.status # "CANCELLED",
           UNCHANGED applied, tasks' \subseteq Delivery, NoneFenced
    PROVE  Inv'
  <1>1. RowsTyped'
    BY DEF Inv, RowsTyped
  <1>2. LocksRespected
    BY DEF Inv, RowsTyped, RowFree, LocksRespected, Delivery
  <1>3. FenceHolds'
    BY <1>2, FenceKept DEF Inv
  <1>4. CancelledNeverApplied'
    BY DEF Inv, RowsTyped, CancelledNeverApplied
  <1> QED
    BY <1>1, <1>3, <1>4 DEF Inv

----------------------------------------------------------------------------
(* Every action keeps the invariant.                                       *)

\* No row exists and nothing is delivered at first.
LEMMA InvInit == Init => Inv
  BY DEF Init, Inv, RowsTyped, FenceHolds, CancelledNeverApplied, Row, CommandType,
         ControlTypes, Status

\* An absent row is fenced by nobody, so enqueue may write it.
LEMMA EnqueueKeeps ==
    ASSUME Inv, NEW c \in Commands, NEW type \in CommandType, NEW delay \in Int,
           Enqueue(c, type, delay)
    PROVE  Inv'
  <1> DEFINE row == [cmd[c] EXCEPT !.type = type, !.status = "PENDING", !.delay = delay]
  <1>1. cmd[c] \in Row /\ cmd[c].status = "ABSENT"
    BY DEF Inv, RowsTyped, Enqueue
  <1>2. row \in Row /\ row.status = "PENDING"
    BY <1>1 DEF Row, Status
  <1>3. cmd' = [cmd EXCEPT ![c] = row]
    BY DEF Enqueue, Inv, RowsTyped
  <1>4. RowFree(c)
    BY <1>1 DEF Inv, RowsTyped, FenceHolds, RowFree, Delivery
  <1>5. UNCHANGED <<tasks, applied>>
    BY DEF Enqueue
  <1>6. tasks' \subseteq Delivery /\ NoneFenced
    BY <1>5 DEF Inv, RowsTyped, NoneFenced
  <1> HIDE DEF row
  <1> QED
    BY <1>2, <1>3, <1>4, <1>5, <1>6, RowStep

\* A claim takes a free row and starts a delivery that is not fenced.
LEMMA ClaimNextKeeps ==
    ASSUME Inv, NEW w \in Workers, NEW c \in Commands, ClaimNext(w, c)
    PROVE  Inv'
  <1> DEFINE row == [cmd[c] EXCEPT !.status = "LEASED", !.owner = w,
                                   !.expires = Lease + Skew[w], !.attempt = cmd[c].attempt + 1]
             new == [worker |-> w, cmd |-> c, attempt |-> cmd[c].attempt + 1,
                     phase |-> "running", draining |-> FALSE]
  <1>1. cmd[c] \in Row
    BY DEF Inv, RowsTyped
  <1>2. Lease + Skew[w] \in Int /\ cmd[c].attempt + 1 \in Nat
    BY <1>1, QueueAssumption DEF Row
  <1>3. row \in Row /\ row.status = "LEASED"
    BY <1>1, <1>2 DEF Row, Status
  <1>4. cmd' = [cmd EXCEPT ![c] = row]
    BY DEF ClaimNext, Inv, RowsTyped
  <1>5. RowFree(c)
    BY DEF ClaimNext, FirstClaimable, Claimable
  <1>6. new \in Delivery /\ new.phase # "fenced"
    BY <1>2 DEF Delivery
  <1>7. tasks' = tasks \cup {new} /\ UNCHANGED applied
    BY DEF ClaimNext
  <1> HIDE DEF row, new
  <1>8. tasks' \subseteq Delivery /\ NoneFenced
    BY <1>6, <1>7 DEF Inv, RowsTyped, NoneFenced
  <1> QED
    BY <1>3, <1>4, <1>5, <1>7, <1>8, RowStep

\* renew moves the expiry of a free row only.
LEMMA RenewKeeps ==
    ASSUME Inv, NEW t \in tasks, Renew(t)
    PROVE  Inv'
  <1> DEFINE c == t.cmd
             row == [cmd[c] EXCEPT !.expires = Lease + Skew[t.worker]]
  <1>1. t \in Delivery /\ c \in Commands
    BY DEF Inv, RowsTyped, Delivery
  <1>2. cmd[c] \in Row /\ cmd[c].status = "LEASED"
    BY <1>1 DEF Inv, RowsTyped, Renew, OwnsLease, Live
  <1>3. Lease + Skew[t.worker] \in Int
    BY <1>1, QueueAssumption DEF Delivery
  <1>4. row \in Row /\ row.status = "LEASED"
    BY <1>2, <1>3 DEF Row, Status
  <1>5. cmd' = [cmd EXCEPT ![c] = row]
    BY DEF Renew, Inv, RowsTyped
  <1>6. RowFree(c) /\ UNCHANGED <<tasks, applied>>
    BY DEF Renew
  <1>7. tasks' \subseteq Delivery /\ NoneFenced
    BY <1>6 DEF Inv, RowsTyped, NoneFenced
  <1> HIDE DEF row, c
  <1> QED
    BY <1>1, <1>4, <1>5, <1>6, <1>7, RowStep

\* complete and fail write the row or, without the lease, only end the delivery.
LEMMA SettleKeeps ==
    ASSUME Inv, NEW t \in tasks, End(t), UNCHANGED applied, RowFree(t.cmd),
           NEW status \in {"COMPLETED", "FAILED"},
           cmd' = SettleRow(t.cmd, status)
    PROVE  Inv'
  <1> DEFINE c == t.cmd
             row == Releasing(cmd[c], status, cmd[c].delay)
  <1>1. c \in Commands
    BY DEF Inv, RowsTyped, Delivery
  <1>2. cmd[c] \in Row
    BY <1>1 DEF Inv, RowsTyped
  <1>3. row \in Row /\ row.status = status
    <2>1. cmd[c].delay \in Int /\ status \in Status
      BY <1>2 DEF Row, Status
    <2> QED
      BY <2>1, <1>2, Released
  <1>4. cmd' = [cmd EXCEPT ![c] = row]
    BY <1>1, <1>2, SettledRow DEF SettleRow, Inv, RowsTyped
  <1>5. tasks' \subseteq Delivery /\ NoneFenced
    BY Ends DEF Inv
  <1> HIDE DEF row, c
  <1>6. row.status # "CANCELLED"
    BY <1>3
  <1>7. RowFree(c)
    BY DEF c
  <1> QED
    BY <1>1, <1>3, <1>4, <1>5, <1>6, <1>7, RowStep

\* A delivery that ends without a write.
LEMMA EndKeeps ==
    ASSUME Inv, NEW t \in tasks, End(t), UNCHANGED <<cmd, applied>>
    PROVE  Inv'
  BY Ends, TaskStep DEF Inv

\* complete writes a row it owns, or nothing.
LEMMA CompleteKeeps ==
    ASSUME Inv, NEW t \in tasks, Complete(t)
    PROVE  Inv'
  <1>1. CASE MayComplete(t)
    BY <1>1, SettleKeeps DEF Complete
  <1>2. CASE ~ MayComplete(t)
    BY <1>2, EndKeeps DEF Complete
  <1> QED
    BY <1>1, <1>2

\* fail(transient=False) writes a row it owns, or nothing.
LEMMA FailKeeps ==
    ASSUME Inv, NEW t \in tasks, Fail(t)
    PROVE  Inv'
  <1>1. CASE OwnsLease(t)
    BY <1>1, SettleKeeps DEF Fail
  <1>2. CASE ~ OwnsLease(t)
    BY <1>2, EndKeeps DEF Fail
  <1> QED
    BY <1>1, <1>2

\* The retry delay is an integer, whatever the attempt.
LEMMA BackoffIsAnInteger ==
    ASSUME NEW attempt \in Nat
    PROVE  Backoff(attempt) \in Int
  <1>1. attempt > 1 => 2 ^ (attempt - 1) \in Int
    OBVIOUS
  <1> QED
    BY <1>1, QueueAssumption DEF Backoff

\* fail(transient=True) makes a row it owns PENDING again, or writes nothing.
LEMMA FailTransientKeeps ==
    ASSUME Inv, NEW t \in tasks, FailTransient(t)
    PROVE  Inv'
  <1> DEFINE c == t.cmd
             delay == Backoff(cmd[c].attempt)
             row == Releasing(cmd[c], "PENDING", delay)
  <1>1. CASE OwnsLease(t)
    <2>1. c \in Commands
      BY DEF Inv, RowsTyped, Delivery
    <2>2. cmd[c] \in Row
      BY <2>1 DEF Inv, RowsTyped
    <2>3. delay \in Int
      BY <2>2, BackoffIsAnInteger DEF Row
    <2>4. cmd' = [SettleRow(c, "PENDING") EXCEPT ![c].delay = delay]
      BY <1>1 DEF FailTransient
    <2>5. RowFree(c) /\ End(t) /\ UNCHANGED applied
      BY DEF FailTransient
    <2> HIDE DEF delay
    <2>6. row \in Row /\ row.status = "PENDING"
      BY <2>2, <2>3, Released DEF Status
    <2>7. cmd' = [cmd EXCEPT ![c] = row]
      BY <2>4, <2>1 DEF SettleRow, Inv, RowsTyped, Releasing
    <2>8. tasks' \subseteq Delivery /\ NoneFenced
      BY <2>5, Ends DEF Inv
    <2> HIDE DEF row, c
    <2> QED
      BY <2>1, <2>5, <2>6, <2>7, <2>8, RowStep
  <1>2. CASE ~ OwnsLease(t)
    BY <1>2, EndKeeps DEF FailTransient
  <1> QED
    BY <1>1, <1>2

\* The fence asks exactly what the invariant then relies on.
LEMMA FenceActionKeeps ==
    ASSUME Inv, NEW t \in tasks, Fence(t)
    PROVE  Inv'
  <1> DEFINE d == [t EXCEPT !.phase = "fenced"]
  <1>1. d \in Delivery /\ d.cmd = t.cmd /\ d.attempt = t.attempt
    BY DEF Inv, RowsTyped, Delivery
  <1>2. tasks' = (tasks \ {t}) \cup {d} /\ UNCHANGED <<cmd, applied>>
    BY DEF Fence, Become
  <1>3. cmd[t.cmd].status = "LEASED" /\ cmd[t.cmd].attempt = t.attempt
    BY DEF Fence, CurrentLease, OwnsLease, Live
  <1> HIDE DEF d
  <1> QED
    BY <1>1, <1>2, <1>3 DEF Inv, RowsTyped, FenceHolds, CancelledNeverApplied

\* A commit settles its own command; a resume cancels others only where nobody
\* has fenced them and nothing was applied.
LEMMA CommitKeeps ==
    ASSUME Inv, NEW t \in tasks, Commit(t)
    PROVE  Inv'
  <1>1. t \in Delivery /\ t.cmd \in Commands /\ t.attempt \in Nat
    BY DEF Inv, RowsTyped, Delivery
  <1>2. cmd[t.cmd].status = "LEASED"
    BY DEF Inv, FenceHolds, Commit
  <1>3. tasks' \subseteq Delivery /\ NoneFenced
    BY Becomes DEF Inv, Commit
  <1>4. applied' = [applied EXCEPT ![t.cmd] = t.attempt]
    BY DEF Commit
  <1>5. CASE cmd[t.cmd].type # "resume"
    <2>1. UNCHANGED cmd
      BY <1>1, <1>5 DEF Commit, Inv, RowsTyped, Row, CommandType, ControlTypes
    <2>2. FenceHolds'
      BY <2>1, <1>3, FenceKept DEF Inv, LocksRespected
    <2> QED
      BY <1>1, <1>2, <1>3, <1>4, <2>1, <2>2 DEF Inv, RowsTyped, CancelledNeverApplied
  <1>6. CASE cmd[t.cmd].type = "resume"
    <2>1. cmd' = SettledByResume(t.cmd) /\ CanSettleOthers(t.cmd)
      BY <1>6 DEF Commit
    <2>2. ASSUME NEW d \in Commands
          PROVE  /\ cmd'[d] \in Row
                 /\ cmd'[d].attempt = cmd[d].attempt
                 /\ d \notin OthersOutstanding(t.cmd) => cmd'[d] = cmd[d]
                 /\ d \in OthersOutstanding(t.cmd) =>
                        cmd'[d].status = (IF applied[d] = 0 THEN "CANCELLED" ELSE "COMPLETED")
      <3>1. cmd[d] \in Row
        BY DEF Inv, RowsTyped
      <3> DEFINE s == IF applied[d] = 0 THEN "CANCELLED" ELSE "COMPLETED"
                 row == Releasing(cmd[d], s, cmd[d].delay)
      <3>2. s \in Status
        BY DEF Status
      <3>3. cmd'[d] = IF d \in OthersOutstanding(t.cmd) THEN row ELSE cmd[d]
        BY <2>1, <3>1, SettledRow DEF SettledByResume
      <3> HIDE DEF s
      <3>4. row \in Row /\ row.status = s /\ row.attempt = cmd[d].attempt
        <4>1. cmd[d].delay \in Int
          BY <3>1 DEF Row
        <4> QED
          BY <3>1, <3>2, <4>1, Released
      <3> HIDE DEF row
      <3>5. /\ cmd'[d] \in Row
            /\ cmd'[d].attempt = cmd[d].attempt
            /\ d \notin OthersOutstanding(t.cmd) => cmd'[d] = cmd[d]
            /\ d \in OthersOutstanding(t.cmd) => cmd'[d].status = s
        BY <3>1, <3>3, <3>4
      <3> QED
        BY <3>5 DEF s
    <2>3. RowsTyped'
      <3>1. cmd' \in [Commands -> Row]
        BY <2>1, <2>2 DEF SettledByResume
      <3> QED
        BY <3>1, <1>1, <1>3, <1>4 DEF Inv, RowsTyped
    <2>4. LocksRespected
      BY <2>1, <2>2 DEF LocksRespected, CanSettleOthers, SettleableByResume, RowFree, Inv,
                        RowsTyped, Delivery
    <2>5. t.cmd \notin OthersOutstanding(t.cmd)
      BY DEF OthersOutstanding
    <2>6. CancelledNeverApplied'
      BY <1>1, <1>2, <1>4, <2>2, <2>5 DEF Inv, RowsTyped, CancelledNeverApplied
    <2> QED
      BY <1>3, <2>3, <2>4, <2>6, FenceKept DEF Inv
  <1> QED
    BY <1>5, <1>6

\* Time moves expiries and delays, which no fence depends on.
LEMMA AdvanceKeeps ==
    ASSUME Inv, Advance
    PROVE  Inv'
  <1>1. ASSUME NEW c \in Commands
        PROVE  /\ cmd'[c] \in Row
               /\ cmd'[c].status = cmd[c].status
               /\ cmd'[c].attempt = cmd[c].attempt
    <2>1. cmd[c] \in Row
      BY DEF Inv, RowsTyped
    <2> DEFINE e == IF cmd[c].status = "LEASED" /\ cmd[c].expires > -MaxSkew
                    THEN cmd[c].expires - 1 ELSE cmd[c].expires
               d == IF cmd[c].delay > 0 THEN cmd[c].delay - 1 ELSE 0
    <2>2. e \in Int /\ d \in Int
      BY <2>1 DEF Row
    <2>3. cmd'[c] = Counting(cmd[c], e, d)
      BY DEF Advance, Counting
    <2> HIDE DEF e, d
    <2> QED
      BY <2>1, <2>2, <2>3, Counted
  <1>2. cmd' \in [Commands -> Row]
    BY <1>1 DEF Advance
  <1>3. UNCHANGED <<tasks, applied>>
    BY DEF Advance
  <1>4. LocksRespected /\ NoneFenced
    BY <1>1, <1>3 DEF LocksRespected, NoneFenced, Inv, RowsTyped, Delivery
  <1> QED
    BY <1>1, <1>2, <1>3, <1>4, FenceKept DEF Inv, RowsTyped, CancelledNeverApplied

\* Every step keeps the invariant: one case per action, grouped by what they write.
LEMMA InvNext == Inv /\ [Next]_vars => Inv'
  <1> SUFFICES ASSUME Inv, [Next]_vars PROVE Inv'
    OBVIOUS
  <1>1. ASSUME NEW c \in Commands, NEW type \in Types, NEW delay \in 0..MaxBackoff,
               Enqueue(c, type, delay)
        PROVE  Inv'
    <2>1. type \in CommandType /\ delay \in Int
      BY QueueAssumption DEF CommandType, ControlTypes
    <2> QED
      BY <1>1, <2>1, EnqueueKeeps
  <1>2. ASSUME NEW w \in Workers, NEW c \in Commands, ClaimNext(w, c)
        PROVE  Inv'
    BY <1>2, ClaimNextKeeps
  <1>3. ASSUME NEW t \in tasks,
               \/ Renew(t) \/ Fence(t) \/ Commit(t) \/ Complete(t) \/ Fail(t) \/ FailTransient(t)
        PROVE  Inv'
    BY <1>3, RenewKeeps, FenceActionKeeps, CommitKeeps, CompleteKeeps, FailKeeps,
       FailTransientKeeps
  <1>4. ASSUME NEW t \in tasks, RenewalRefused(t) \/ RenewalError(t)
        PROVE  Inv'
    <2>1. GiveUp(t) /\ UNCHANGED <<cmd, applied>>
      BY <1>4 DEF RenewalRefused, RenewalError
    <2> QED
      BY <2>1, GivesUp, TaskStep DEF Inv
  <1>5. ASSUME NEW t \in tasks, FenceRefused(t) \/ DrainEnds(t) \/ RecoveryRequired(t)
        PROVE  Inv'
    <2>1. End(t) /\ UNCHANGED <<cmd, applied>>
      BY <1>5 DEF FenceRefused, DrainEnds, RecoveryRequired
    <2> QED
      BY <2>1, EndKeeps
  <1>6. ASSUME NEW t \in tasks, Return(t)
        PROVE  Inv'
    <2>1. Become(t, "returned") /\ UNCHANGED <<cmd, applied>>
      BY <1>6 DEF Return
    <2> QED
      BY <2>1, Becomes, TaskStep DEF Inv
  <1>7. ASSUME NEW t \in tasks, Raise(t)
        PROVE  Inv'
    <2>1. Become(t, "raised") /\ UNCHANGED <<cmd, applied>>
      BY <1>7 DEF Raise
    <2> QED
      BY <2>1, Becomes, TaskStep DEF Inv
  <1>8. ASSUME NEW w \in Workers, Crash(w)
        PROVE  Inv'
    <2>1. tasks' \subseteq tasks /\ UNCHANGED <<cmd, applied>>
      BY <1>8 DEF Crash
    <2>2. tasks' \subseteq Delivery /\ NoneFenced
      BY <2>1 DEF Inv, RowsTyped, NoneFenced
    <2> QED
      BY <2>1, <2>2, TaskStep
  <1>9. ASSUME Hold \/ Release \/ UNCHANGED vars
        PROVE  Inv'
    <2>1. UNCHANGED <<cmd, tasks, applied>>
      BY <1>9 DEF Hold, Release, vars
    <2>2. tasks' \subseteq Delivery /\ NoneFenced
      BY <2>1 DEF Inv, RowsTyped, NoneFenced
    <2> QED
      BY <2>1, <2>2, TaskStep
  <1>10. CASE Advance
    BY <1>10, AdvanceKeeps
  <1> QED
    BY <1>1, <1>2, <1>3, <1>4, <1>5, <1>6, <1>7, <1>8, <1>9, <1>10 DEF Next

\* Rows stay typed and what a fence asked stays true until its commit.
THEOREM InvAlways == Spec => []Inv
  BY InvInit, InvNext, PTL DEF Spec

----------------------------------------------------------------------------
(* The theorems.                                                           *)

\* A command that resume cancelled as interrupted was never applied, however its
\* old owner, the clocks and the faults behave (cancel_expired_observed_lease).
THEOREM CancelledStaysUnapplied == Spec => []CancelledNeverApplied
  <1>1. Inv => CancelledNeverApplied
    BY DEF Inv
  <1> QED
    BY <1>1, InvAlways, PTL

\* Only Commit writes `applied`, and only for the delivery it fenced.
LEMMA OnlyCommitApplies ==
    ASSUME Inv, [Next]_vars, NEW c \in Commands, applied'[c] # applied[c]
    PROVE  cmd[c].status = "LEASED" /\ applied'[c] = cmd[c].attempt
  <1>1. ASSUME NEW t \in tasks, Commit(t)
        PROVE  cmd[c].status = "LEASED" /\ applied'[c] = cmd[c].attempt
    <2>1. applied' = [applied EXCEPT ![t.cmd] = t.attempt] /\ t.phase = "fenced"
      BY <1>1 DEF Commit
    <2>2. c = t.cmd /\ applied'[c] = t.attempt
      BY <2>1 DEF Inv, RowsTyped
    <2> QED
      BY <2>1, <2>2 DEF Inv, FenceHolds
  <1>2. CASE UNCHANGED applied
    BY <1>2
  <1>3. UNCHANGED applied \/ \E t \in tasks : Commit(t)
    BY DEF Next, vars, Enqueue, ClaimNext, Renew, RenewalRefused, RenewalError, Fence,
           FenceRefused, Return, DrainEnds, Complete, Raise, Fail, FailTransient,
           RecoveryRequired, Crash, Hold, Release, Advance
  <1> QED
    BY <1>1, <1>2, <1>3

\* The fence works (assert_current_lease): whatever leases do between the fence
\* and the commit, a settlement commits only for the newest delivery of a command
\* that is still leased.
THEOREM FenceWorks == Spec => StaleNeverCommits
  <1>1. Inv /\ [Next]_vars =>
          [\A c \in Commands : applied'[c] # applied[c] =>
              cmd[c].status = "LEASED" /\ applied'[c] = cmd[c].attempt]_vars
    BY OnlyCommitApplies
  <1> QED
    BY <1>1, InvAlways, PTL DEF Spec, StaleNeverCommits

\* Every action that writes a status first finds the row unsettled.
LEMMA StatusKept ==
    ASSUME Inv, [Next]_vars, NEW c \in Commands, cmd[c].status \in Settled
    PROVE  cmd'[c].status = cmd[c].status
  <1>1. cmd[c] \in Row /\ cmd[c].status \notin {"ABSENT", "PENDING", "LEASED"}
    BY DEF Inv, RowsTyped, Settled
  <1>2. ASSUME NEW d \in Commands, NEW type \in Types, NEW delay \in 0..MaxBackoff,
               Enqueue(d, type, delay)
        PROVE  cmd'[c].status = cmd[c].status
    BY <1>1, <1>2 DEF Enqueue, Inv, RowsTyped
  <1>3. ASSUME NEW w \in Workers, NEW d \in Commands, ClaimNext(w, d)
        PROVE  cmd'[c].status = cmd[c].status
    <2>1. c # d
      BY <1>1, <1>3 DEF ClaimNext, FirstClaimable, Claimable, Eligible
    <2> QED
      BY <1>3, <2>1 DEF ClaimNext, Inv, RowsTyped
  <1>4. ASSUME NEW t \in tasks, Renew(t) \/ Complete(t) \/ Fail(t) \/ FailTransient(t)
        PROVE  cmd'[c].status = cmd[c].status
    <2>1. CASE OwnsLease(t)
      <3>1. c # t.cmd
        BY <1>1, <2>1 DEF OwnsLease, Live
      <3>2. cmd'[c] = cmd[c]
        BY <1>4, <3>1 DEF Renew, Complete, Fail, FailTransient, SettleRow, Inv, RowsTyped
      <3> QED
        BY <3>2
    <2>2. CASE ~ OwnsLease(t)
      BY <1>4, <2>2 DEF Renew, Complete, MayComplete, Fail, FailTransient
    <2> QED
      BY <2>1, <2>2
  <1>5. ASSUME NEW t \in tasks, Commit(t)
        PROVE  cmd'[c].status = cmd[c].status
    <2>1. c \notin OthersOutstanding(t.cmd)
      BY <1>1 DEF OthersOutstanding, Outstanding
    <2>2. SettledByResume(t.cmd)[c] = cmd[c]
      BY <2>1 DEF SettledByResume
    <2>3. t.cmd \in Commands
      BY DEF Inv, RowsTyped, Delivery
    <2>4. UNCHANGED cmd \/ cmd' = SettledByResume(t.cmd)
      BY <1>5, <2>3 DEF Commit, Inv, RowsTyped, Row, CommandType, ControlTypes
    <2> QED
      BY <2>2, <2>4
  <1>6. CASE Advance
    <2>1. cmd'[c].status = cmd[c].status
      BY <1>1, <1>6 DEF Advance, Row
    <2> QED
      BY <2>1
  <1>7. CASE UNCHANGED cmd
    BY <1>7
  <1>8. \/ UNCHANGED cmd \/ Advance
        \/ \E d \in Commands, type \in Types, delay \in 0..MaxBackoff : Enqueue(d, type, delay)
        \/ \E w \in Workers, d \in Commands : ClaimNext(w, d)
        \/ \E t \in tasks : Renew(t) \/ Complete(t) \/ Fail(t) \/ FailTransient(t)
        \/ \E t \in tasks : Commit(t)
    BY DEF Next, vars, RenewalRefused, RenewalError, Fence, FenceRefused, Return, DrainEnds,
           Raise, RecoveryRequired, Crash, Hold, Release
  <1> QED
    BY <1>2, <1>3, <1>4, <1>5, <1>6, <1>7, <1>8

\* A settled command stays as it was settled: no late complete, fail, claim or
\* resume rewrites it.
THEOREM SettlementIsFinal == Spec => SettledForGood
  <1>1. Inv /\ [Next]_vars =>
          [\A c \in Commands : cmd[c].status \in Settled => cmd'[c].status = cmd[c].status]_vars
    BY StatusKept
  <1> QED
    BY <1>1, InvAlways, PTL DEF Spec, SettledForGood

----------------------------------------------------------------------------
(* One lease in the NORMAL lane.                                           *)

\* Any two live normal leases are one.
LeasesApart ==
    \A c, d \in Commands :
        ~ IsControl(c) /\ ~ IsControl(d) /\ Live(c, 0) /\ Live(d, 0) => c = d

\* What time leaves of a row.
LEMMA Elapsed ==
    ASSUME Inv, Advance, NEW c \in Commands
    PROVE  /\ cmd'[c].type = cmd[c].type /\ cmd'[c].status = cmd[c].status
           /\ cmd'[c].expires \in Int /\ cmd[c].expires \in Int
           /\ cmd'[c].expires <= cmd[c].expires
  <1>1. cmd[c] \in Row
    BY DEF Inv, RowsTyped
  <1> DEFINE e == IF cmd[c].status = "LEASED" /\ cmd[c].expires > -MaxSkew
                  THEN cmd[c].expires - 1 ELSE cmd[c].expires
             d == IF cmd[c].delay > 0 THEN cmd[c].delay - 1 ELSE 0
  <1>2. e \in Int /\ d \in Int /\ cmd[c].expires \in Int /\ e <= cmd[c].expires
    BY <1>1 DEF Row
  <1>3. cmd'[c] = Counting(cmd[c], e, d)
    BY DEF Advance, Counting
  <1> HIDE DEF e, d
  <1>4. /\ Counting(cmd[c], e, d).type = cmd[c].type
        /\ Counting(cmd[c], e, d).status = cmd[c].status
        /\ Counting(cmd[c], e, d).expires = e
    BY <1>1, <1>2, Counted
  <1> QED
    BY <1>2, <1>3, <1>4

\* A lease that is live after a step was live before it, or was claimed by it;
\* the clocks agree, so a renewal extends only what every worker finds live.
LEMMA LiveOrigin ==
    ASSUME Inv, Next, MaxSkew = 0, NEW c \in Commands, Live(c, 0)'
    PROVE  /\ IsControl(c)' = IsControl(c)
           /\ Live(c, 0) \/ \E w \in Workers : ClaimNext(w, c)
  <1>0. cmd[c] \in Row /\ cmd'[c].status = "LEASED" /\ cmd'[c].expires > 0
        /\ cmd \in [Commands -> Row]
    BY DEF Inv, RowsTyped, Live
  <1>s. \A w \in Workers : Skew[w] = 0
    BY QueueAssumption
  <1>1. CASE UNCHANGED cmd
    BY <1>1 DEF Live, IsControl
  <1>2. CASE Advance
    BY <1>0, <1>2, Elapsed DEF Live, IsControl
  <1>3. ASSUME NEW d \in Commands, NEW type \in Types, NEW delay \in 0..MaxBackoff,
               Enqueue(d, type, delay)
        PROVE  cmd'[c] = cmd[c]
    <2>1. cmd' = [cmd EXCEPT ![d].type = type, ![d].status = "PENDING", ![d].delay = delay]
      BY <1>3 DEF Enqueue
    <2>2. cmd[d] \in Row
      BY <1>0
    <2>3. cmd'[d].status = "PENDING"
      BY <1>0, <2>1, <2>2 DEF Row
    <2>4. c # d
      BY <1>0, <2>3
    <2> QED
      BY <1>0, <2>1, <2>4
  <1>4. ASSUME NEW w \in Workers, NEW d \in Commands, ClaimNext(w, d)
        PROVE  cmd'[c].type = cmd[c].type /\ (d = c \/ cmd'[c] = cmd[c])
    BY <1>0, <1>4 DEF ClaimNext, Row
  <1>5. ASSUME NEW t \in tasks, Renew(t)
        PROVE  cmd'[c].type = cmd[c].type /\ (Live(c, 0) \/ cmd'[c] = cmd[c])
    <2>1. t.worker \in Workers /\ t.cmd \in Commands
      BY DEF Inv, RowsTyped, Delivery
    <2>2. Live(t.cmd, 0) /\ cmd' = [cmd EXCEPT ![t.cmd].expires = Lease + Skew[t.worker]]
      BY <1>5, <1>s, <2>1 DEF Renew, OwnsLease
    <2>3. cmd'[c].type = cmd[c].type
      BY <1>0, <2>2 DEF Row
    <2>4. c # t.cmd => cmd'[c] = cmd[c]
      BY <1>0, <2>2
    <2> QED
      BY <2>2, <2>3, <2>4
  <1>6. ASSUME NEW t \in tasks, Complete(t) \/ Fail(t) \/ FailTransient(t)
        PROVE  cmd'[c] = cmd[c]
    <2>1. \/ UNCHANGED cmd
          \/ \E s \in {"COMPLETED", "FAILED"} : cmd' = SettleRow(t.cmd, s)
          \/ \E delay : cmd' = [SettleRow(t.cmd, "PENDING") EXCEPT ![t.cmd].delay = delay]
      BY <1>6 DEF Complete, Fail, FailTransient
    <2>2. t.cmd \in Commands /\ cmd[t.cmd] \in Row
      BY <1>0 DEF Inv, RowsTyped, Delivery
    <2>3. cmd' # cmd => cmd'[t.cmd].status # "LEASED"
      <3>1. ASSUME NEW s \in {"COMPLETED", "FAILED"}, cmd' = SettleRow(t.cmd, s)
            PROVE  cmd'[t.cmd].status = s
        BY <1>0, <2>2, <3>1 DEF SettleRow, Row
      <3>2. ASSUME NEW delay, cmd' = [SettleRow(t.cmd, "PENDING") EXCEPT ![t.cmd].delay = delay]
            PROVE  cmd'[t.cmd].status = "PENDING"
        BY <1>0, <2>2, <3>2 DEF SettleRow, Row
      <3> QED
        BY <2>1, <3>1, <3>2
    <2>4. c # t.cmd => cmd'[c] = cmd[c]
      BY <1>0, <2>1, <2>2 DEF SettleRow
    <2> QED
      BY <1>0, <2>3, <2>4
  <1>7. ASSUME NEW t \in tasks, Commit(t)
        PROVE  cmd'[c] = cmd[c]
    <2>1. t.cmd \in Commands
      BY DEF Inv, RowsTyped, Delivery
    <2>2. UNCHANGED cmd \/ cmd' = SettledByResume(t.cmd)
      BY <1>0, <1>7, <2>1 DEF Commit, Row, CommandType, ControlTypes
    <2>3. c \in OthersOutstanding(t.cmd) =>
            SettledByResume(t.cmd)[c].status \in {"CANCELLED", "COMPLETED"}
      BY <1>0 DEF SettledByResume, Row
    <2>4. c \notin OthersOutstanding(t.cmd) => SettledByResume(t.cmd)[c] = cmd[c]
      BY DEF SettledByResume
    <2> QED
      BY <1>0, <2>2, <2>3, <2>4
  <1>8. \/ UNCHANGED cmd \/ Advance
        \/ \E d \in Commands, type \in Types, delay \in 0..MaxBackoff : Enqueue(d, type, delay)
        \/ \E w \in Workers, d \in Commands : ClaimNext(w, d)
        \/ \E t \in tasks : Renew(t)
        \/ \E t \in tasks : Complete(t) \/ Fail(t) \/ FailTransient(t)
        \/ \E t \in tasks : Commit(t)
    BY DEF Next, RenewalRefused, RenewalError, Fence, FenceRefused, Return, DrainEnds,
           Raise, RecoveryRequired, Crash, Hold, Release
  <1>9. CASE cmd'[c] = cmd[c]
    BY <1>9 DEF Live, IsControl
  <1>10. ASSUME NEW w \in Workers, NEW d \in Commands, ClaimNext(w, d)
         PROVE  /\ IsControl(c)' = IsControl(c)
                /\ Live(c, 0) \/ \E v \in Workers : ClaimNext(v, c)
    BY <1>4, <1>9, <1>10 DEF IsControl
  <1>11. ASSUME NEW t \in tasks, Renew(t)
         PROVE  IsControl(c)' = IsControl(c) /\ Live(c, 0)
    BY <1>5, <1>9, <1>11 DEF IsControl, Live
  <1> QED
    BY <1>1, <1>2, <1>3, <1>6, <1>7, <1>8, <1>9, <1>10, <1>11

\* A claim in the NORMAL lane is refused while another lease is live.
LEMMA ApartNext == MaxSkew = 0 /\ Inv /\ LeasesApart /\ [Next]_vars => LeasesApart'
  <1> SUFFICES ASSUME MaxSkew = 0, Inv, LeasesApart, Next,
                      NEW c \in Commands, NEW d \in Commands,
                      ~ IsControl(c)', ~ IsControl(d)', Live(c, 0)', Live(d, 0)', c # d
               PROVE  FALSE
    BY DEF LeasesApart, vars, IsControl, Live
  <1>1. ~ IsControl(c) /\ ~ IsControl(d)
    BY LiveOrigin
  <1>2. \A w \in Workers : Skew[w] = 0
    BY QueueAssumption
  <1>3. ASSUME NEW a \in Commands, NEW b \in Commands, a # b, ~ IsControl(a),
               NEW w \in Workers, ClaimNext(w, a)
        PROVE  ~ Live(b, 0)
    BY <1>2, <1>3 DEF ClaimNext, FirstClaimable, Claimable, Blocked
  <1>4. ASSUME NEW w \in Workers, NEW v \in Workers, ClaimNext(w, c), ClaimNext(v, d)
        PROVE  FALSE
    <2>1. cmd' = [cmd EXCEPT ![c].status = "LEASED", ![c].owner = w,
                             ![c].expires = Lease + Skew[w], ![c].attempt = @ + 1]
      BY <1>4 DEF ClaimNext
    <2>2. cmd' = [cmd EXCEPT ![d].status = "LEASED", ![d].owner = v,
                             ![d].expires = Lease + Skew[v], ![d].attempt = @ + 1]
      BY <1>4 DEF ClaimNext
    <2>3. cmd'[c] = cmd[c] /\ cmd'[c].attempt = cmd[c].attempt + 1 /\ cmd[c].attempt \in Nat
      BY <2>1, <2>2 DEF Inv, RowsTyped, Row
    <2> QED
      BY <2>3
  <1> QED
    BY <1>1, <1>3, <1>4, LiveOrigin DEF LeasesApart

\* Where the workers' clocks agree with the database's, a run has one live
\* NORMAL lease, whatever expires, crashes and is claimed again (claim_next).
THEOREM NormalLeaseIsAlone == MaxSkew = 0 => (Spec => []OneNormalLease)
  <1> SUFFICES ASSUME MaxSkew = 0 PROVE Spec => []OneNormalLease
    OBVIOUS
  <1>1. Init => LeasesApart
    BY DEF Init, LeasesApart, Live
  <1>2. LeasesApart => OneNormalLease
    <2> SUFFICES ASSUME LeasesApart PROVE OneNormalLease
      OBVIOUS
    <2> DEFINE S == {c \in Commands : ~ IsControl(c) /\ Live(c, 0)}
    <2>1. CASE S = {}
      BY <2>1, FS_EmptySet DEF OneNormalLease
    <2>2. CASE S # {}
      <3>1. PICK c \in Commands : S = {c}
        BY <2>2 DEF LeasesApart
      <3>2. Cardinality(S) = 1
        BY <3>1, FS_Singleton
      <3> QED
        BY <3>2 DEF OneNormalLease
    <2> QED
      BY <2>1, <2>2
  <1>3. Inv /\ LeasesApart /\ [Next]_vars => LeasesApart'
    BY ApartNext
  <1> QED
    BY <1>1, <1>2, <1>3, InvAlways, PTL DEF Spec

----------------------------------------------------------------------------
(* One handler per worker.                                                 *)

\* One delivery replaced by another of the same worker.
LEMMA ReplacedKeepsOne ==
    ASSUME OneHandlerPerWorker, NEW t \in tasks, NEW d, d.worker = t.worker,
           tasks' = (tasks \ {t}) \cup {d}
    PROVE  OneHandlerPerWorker'
  <1> SUFFICES ASSUME NEW u \in tasks', NEW v \in tasks', u.worker = v.worker
               PROVE  u = v
    BY DEF OneHandlerPerWorker
  <1>1. ASSUME NEW x \in tasks \ {t}
        PROVE  x.worker # d.worker
    BY DEF OneHandlerPerWorker
  <1> QED
    BY <1>1 DEF OneHandlerPerWorker

\* Fewer deliveries are no more per worker.
LEMMA FewerKeepOne ==
    ASSUME OneHandlerPerWorker, tasks' \subseteq tasks
    PROVE  OneHandlerPerWorker'
  BY DEF OneHandlerPerWorker

\* A handler that is given up, returns, raises or fences stays its worker's.
LEMMA SameWorker ==
    ASSUME RowsTyped, NEW t \in tasks
    PROVE  /\ [t EXCEPT !.draining = TRUE].worker = t.worker
           /\ \A p \in {"fenced", "returned", "raised"} :
                [t EXCEPT !.phase = p].worker = t.worker
  <1>1. t \in Delivery
    BY DEF RowsTyped
  <1> QED
    BY <1>1 DEF Delivery

\* Only a claim adds a delivery, and it asks for an idle worker first.
LEMMA OneHandlerNext == Inv /\ OneHandlerPerWorker /\ [Next]_vars => OneHandlerPerWorker'
  <1> SUFFICES ASSUME Inv, OneHandlerPerWorker, [Next]_vars
               PROVE  OneHandlerPerWorker'
    OBVIOUS
  <1>0. RowsTyped
    BY DEF Inv
  <1>1. ASSUME NEW w \in Workers, NEW c \in Commands, ClaimNext(w, c)
        PROVE  OneHandlerPerWorker'
    <2> DEFINE new == [worker |-> w, cmd |-> c, attempt |-> cmd[c].attempt + 1,
                       phase |-> "running", draining |-> FALSE]
    <2>1. new.worker = w /\ tasks' = tasks \cup {new}
      BY <1>1 DEF ClaimNext
    <2>2. \A t \in tasks : t.worker # w
      BY <1>1 DEF ClaimNext, Idle
    <2> HIDE DEF new
    <2> QED
      BY <2>1, <2>2 DEF OneHandlerPerWorker
  <1>2. ASSUME NEW t \in tasks, GiveUp(t)
        PROVE  OneHandlerPerWorker'
    <2> DEFINE d == [t EXCEPT !.draining = TRUE]
    <2>1. d.worker = t.worker /\ tasks' = (tasks \ {t}) \cup {d}
      BY <1>0, <1>2, SameWorker DEF GiveUp
    <2> HIDE DEF d
    <2> QED
      BY <2>1, ReplacedKeepsOne
  <1>3. ASSUME NEW t \in tasks, NEW p \in {"fenced", "returned", "raised"}, Become(t, p)
        PROVE  OneHandlerPerWorker'
    <2> DEFINE d == [t EXCEPT !.phase = p]
    <2>1. d.worker = t.worker /\ tasks' = (tasks \ {t}) \cup {d}
      BY <1>0, <1>3, SameWorker DEF Become
    <2> HIDE DEF d
    <2> QED
      BY <2>1, ReplacedKeepsOne
  <1>4. ASSUME NEW t \in tasks, End(t)
        PROVE  OneHandlerPerWorker'
    BY <1>4, FewerKeepOne DEF End
  <1>5. ASSUME NEW w \in Workers, Crash(w)
        PROVE  OneHandlerPerWorker'
    BY <1>5, FewerKeepOne DEF Crash
  <1>6. CASE UNCHANGED tasks
    BY <1>6 DEF OneHandlerPerWorker
  <1>7. ASSUME NEW t \in tasks,
               \/ Renew(t) \/ RenewalRefused(t) \/ RenewalError(t)
               \/ Fence(t) \/ FenceRefused(t) \/ Commit(t) \/ Return(t) \/ DrainEnds(t)
               \/ Complete(t) \/ Raise(t) \/ Fail(t) \/ FailTransient(t)
               \/ RecoveryRequired(t)
        PROVE  \/ UNCHANGED tasks \/ GiveUp(t) \/ End(t)
               \/ \E p \in {"fenced", "returned", "raised"} : Become(t, p)
    BY <1>7 DEF Renew, RenewalRefused, RenewalError, Fence, FenceRefused, Commit, Return,
                DrainEnds, Complete, Raise, Fail, FailTransient, RecoveryRequired
  <1>8. ASSUME NEW t \in tasks,
               \/ Renew(t) \/ RenewalRefused(t) \/ RenewalError(t)
               \/ Fence(t) \/ FenceRefused(t) \/ Commit(t) \/ Return(t) \/ DrainEnds(t)
               \/ Complete(t) \/ Raise(t) \/ Fail(t) \/ FailTransient(t)
               \/ RecoveryRequired(t)
        PROVE  OneHandlerPerWorker'
    BY <1>2, <1>3, <1>4, <1>6, <1>7, <1>8
  <1>9. (\E c \in Commands, type \in Types, delay \in 0..MaxBackoff : Enqueue(c, type, delay))
            \/ Hold \/ Release \/ Advance \/ UNCHANGED vars => UNCHANGED tasks
    BY DEF Enqueue, Hold, Release, Advance, vars
  <1> QED
    BY <1>1, <1>5, <1>6, <1>8, <1>9 DEF Next

\* A worker executes one handler at a time (tick's early return), counting one
\* it gave up and that still drains, whatever leases, clocks and faults do.
THEOREM OneHandlerAtATime == Spec => []OneHandlerPerWorker
  <1>1. Init => OneHandlerPerWorker
    BY DEF Init, OneHandlerPerWorker
  <1> QED
    BY <1>1, OneHandlerNext, InvAlways, PTL DEF Spec

=============================================================================
