-------------------------- MODULE OperationIntents --------------------------
(***************************************************************************)
(* Intent-before-effect execution: the operation_intents table             *)
(* (persistence/repositories/operations.py) and the services that execute  *)
(* and reconcile through it (application/services/recovery.py).            *)
(*                                                                         *)
(* A call is one execute, execute_admitted, invoke_admitted or             *)
(* RecoveryService.reconcile; each makes an execution owner id of its own, *)
(* so the call stands for the id.  A lease is "live", then "ending" while  *)
(* the hosts' clocks disagree whether it is over, then "over": in "ending" *)
(* every comparison with _utc_now() may go either way.                     *)
(*                                                                         *)
(* The effect is a message to the outside world.  It may arrive late, also *)
(* after its sender timed out, was cancelled or crashed, or never.  What   *)
(* an adapter's reconcile sees is whether it has arrived.                  *)
(***************************************************************************)
EXTENDS Naturals

CONSTANTS
    Keys,       \* idempotency keys
    Requests,   \* request digests a caller may present under a key
    Calls,      \* the calls that happen
    Mode,       \* [Calls -> which entry point the call is]
    key,        \* [Calls -> the key the call is about]
    AbsentFails \* keys whose adapter answers FAILED when it sees no effect
                \* (branch removal); the others ask for reconciliation

Modes == {"execute", "admitted", "unsettled", "recover"}

ASSUME IntentAssumption ==
    /\ Mode \in [Calls -> Modes]
    /\ key \in [Calls -> Keys]
    /\ AbsentFails \subseteq Keys
    /\ "none" \notin Calls
    /\ "none" \notin Requests

VARIABLES
    status,     \* [Keys -> OperationStatus, "ABSENT" before begin]
    request,    \* [Keys -> the digest the row was begun with]
    owner,      \* [Keys -> execution_owner]
    lease,      \* [Keys -> execution_lease_expires_at against the clocks]
    pc,         \* [Calls -> where the call is]
    inflight,   \* [Keys -> effect messages sent and not arrived]
    remote      \* [Keys -> effects that happened]

row == <<status, request, owner, lease>>
world == <<inflight, remote>>
vars == <<row, pc, world>>

Unresolved == {"PENDING", "NEEDS_RECONCILIATION"}
Terminal == {"SUCCEEDED", "FAILED"}
\* Before the effect is sent, and until the invocation has answered.
BeforeEffect == {"admitted", "invoke"}
Invoking == BeforeEffect \cup {"sent", "rejected"}
Ended == {"succeeded", "failed", "raised", "dead"}
Active == Invoking \cup {"observe", "reconcile", "found", "absent", "uncertain"}

TypeOK ==
    /\ status \in [Keys -> Unresolved \cup Terminal \cup {"ABSENT"}]
    /\ request \in [Keys -> Requests \cup {"none"}]
    /\ owner \in [Keys -> Calls \cup {"none"}]
    /\ lease \in [Keys -> {"none", "live", "ending", "over"}]
    /\ pc \in [Calls -> {"idle"} \cup Active \cup Ended]
    /\ inflight \in [Keys -> Nat]
    /\ remote \in [Keys -> Nat]

Init ==
    /\ status = [k \in Keys |-> "ABSENT"]
    /\ request = [k \in Keys |-> "none"]
    /\ owner = [k \in Keys |-> "none"]
    /\ lease = [k \in Keys |-> "none"]
    /\ pc = [c \in Calls |-> "idle"]
    /\ inflight = [k \in Keys |-> 0]
    /\ remote = [k \in Keys |-> 0]

Goto(c, place) == pc' = [pc EXCEPT ![c] = place]

----------------------------------------------------------------------------
(* The table.                                                              *)

\* execution_lease_expires_at > now, on some clock.
MayBeLive(k) == lease[k] \in {"live", "ending"}
\* No owner, or execution_lease_expires_at <= now, on some clock.
MayBeOver(k) == lease[k] # "live"

\* _require_execution_owner lets the call pass; or refuses it.
Owns(c) == owner[key[c]] = c /\ MayBeLive(key[c])
Disowned(c) == owner[key[c]] # c \/ MayBeOver(key[c])

Lend(c) ==
    /\ owner' = [owner EXCEPT ![key[c]] = c]
    /\ lease' = [lease EXCEPT ![key[c]] = "live"]

Release(k) ==
    /\ owner' = [owner EXCEPT ![k] = "none"]
    /\ lease' = [lease EXCEPT ![k] = "none"]

\* complete and fail: one locked row, its status and its lease together.
Settle(c, verdict) ==
    /\ status' = [status EXCEPT ![key[c]] = verdict]
    /\ Release(key[c])
    /\ UNCHANGED <<request, world>>

\* Mutant: a lease that was never released is never taken over.
ClaimableUnowned(k) == status[k] \in Unresolved /\ lease[k] = "none"

\* _claim_core: unresolved, and no live lease.
Claimable(k) == status[k] \in Unresolved /\ MayBeOver(k)

\* The lease runs out, on one clock after the other.
LeaseRuns(k) ==
    /\ \/ lease[k] = "live" /\ lease' = [lease EXCEPT ![k] = "ending"]
       \/ lease[k] = "ending" /\ lease' = [lease EXCEPT ![k] = "over"]
    /\ UNCHANGED <<status, request, owner, pc, world>>

----------------------------------------------------------------------------
(* Starting a call.                                                        *)

\* Mutant: a row that needs reconciliation counts as new again.
BeginAgain(c, r) ==
    /\ pc[c] = "idle" /\ Mode[c] # "recover"
    /\ status[key[c]] \in {"ABSENT", "NEEDS_RECONCILIATION"}
    /\ status' = [status EXCEPT ![key[c]] = "PENDING"]
    /\ request' = [request EXCEPT ![key[c]] = r]
    /\ Lend(c)
    /\ Goto(c, IF Mode[c] = "execute" THEN "invoke" ELSE "admitted")
    /\ UNCHANGED world

\* begin inserts the row: PENDING, owned, is_new.  execute goes on to invoke;
\* an admitted intent was committed by its caller's unit of work first.
BeginNew(c, r) ==
    /\ pc[c] = "idle" /\ Mode[c] # "recover"
    /\ status[key[c]] = "ABSENT"
    /\ status' = [status EXCEPT ![key[c]] = "PENDING"]
    /\ request' = [request EXCEPT ![key[c]] = r]
    /\ Lend(c)
    /\ Goto(c, IF Mode[c] = "execute" THEN "invoke" ELSE "admitted")
    /\ UNCHANGED world

\* begin meets the row of an earlier begin: a different request is an
\* IdempotencyConflict, a settled one is answered from the row, callers of
\* invoke_admitted give up, the others observe.
BeginAgainst(c, r) ==
    /\ pc[c] = "idle" /\ Mode[c] # "recover"
    /\ status[key[c]] # "ABSENT"
    /\ Goto(c, IF request[key[c]] # r \/ Mode[c] = "unsettled" THEN "raised"
               ELSE IF status[key[c]] = "SUCCEEDED" THEN "succeeded"
               ELSE IF status[key[c]] = "FAILED" THEN "failed"
               ELSE "observe")
    /\ UNCHANGED <<row, world>>

\* RecoveryService.reconcile: returns a row that is settled or that it cannot
\* claim; reconcile_all calls it for every unresolved intent.
Recover(c) ==
    /\ pc[c] = "idle" /\ Mode[c] = "recover"
    /\ status[key[c]] # "ABSENT"
    /\ \/ Claimable(key[c]) /\ Lend(c) /\ Goto(c, "reconcile")
          /\ UNCHANGED <<status, request, world>>
       \/ /\ status[key[c]] \in Terminal \/ MayBeLive(key[c])
          /\ Goto(c, "raised")
          /\ UNCHANGED <<row, world>>

\* execute_admitted trusts the lease it was admitted with, if still live;
\* invoke_admitted renews it, and gives up if that fails.
ExecuteAdmitted(c) ==
    /\ pc[c] = "admitted" /\ Mode[c] = "admitted"
    /\ \/ MayBeLive(key[c]) /\ Goto(c, "invoke")
       \/ MayBeOver(key[c]) /\ Goto(c, "observe")
    /\ UNCHANGED <<row, world>>

InvokeAdmitted(c) ==
    /\ pc[c] = "admitted" /\ Mode[c] = "unsettled"
    /\ \/ Owns(c) /\ Lend(c) /\ Goto(c, "invoke")
          /\ UNCHANGED <<status, request, world>>
       \/ Disowned(c) /\ Goto(c, "raised") /\ UNCHANGED <<row, world>>

----------------------------------------------------------------------------
(* Invoking and reconciling.                                               *)

\* _renew_until_done, beside the adapter call.
Renew(c) ==
    /\ pc[c] \in {"invoke", "sent", "reconcile"}
    /\ Owns(c)
    /\ lease[key[c]] # "live"
    /\ Lend(c)
    /\ UNCHANGED <<status, request, pc, world>>

\* adapter.invoke: the preflight refuses, or the effect is sent.
Send(c) ==
    /\ pc[c] = "invoke"
    /\ \/ Goto(c, "rejected") /\ UNCHANGED inflight
       \/ Goto(c, "sent") /\ inflight' = [inflight EXCEPT ![key[c]] = @ + 1]
    /\ UNCHANGED <<row, remote>>

\* The message arrives and takes effect, or is lost.
Arrive(k) ==
    /\ inflight[k] > 0
    /\ inflight' = [inflight EXCEPT ![k] = @ - 1]
    /\ remote' \in {remote, [remote EXCEPT ![k] = @ + 1]}
    /\ UNCHANGED <<row, pc>>

\* The remote side answers: done; refused (stale, rejected) without effect; or
\* the call fails with its outcome unknown.
Answer(c) ==
    /\ pc[c] = "sent"
    /\ \/ remote[key[c]] > 0 /\ Goto(c, "found") /\ UNCHANGED inflight
       \/ /\ inflight[key[c]] > 0
          /\ inflight' = [inflight EXCEPT ![key[c]] = @ - 1]
          /\ Goto(c, "rejected")
       \/ Goto(c, "uncertain") /\ UNCHANGED inflight
    /\ UNCHANGED <<row, remote>>

\* _observe_or_reconcile: wait for a live owner; answer from a settled row;
\* claim an unowned or expired one.
Observe(c) ==
    /\ pc[c] = "observe"
    /\ status[key[c]] \in Terminal
    /\ Goto(c, IF status[key[c]] = "SUCCEEDED" THEN "succeeded" ELSE "failed")
    /\ UNCHANGED <<row, world>>

\* Mutant: taking over an expired lease invokes again.
ClaimInvokes(c) ==
    /\ pc[c] = "observe" /\ Claimable(key[c])
    /\ Lend(c)
    /\ Goto(c, "invoke")
    /\ UNCHANGED <<status, request, world>>

Claim(c) ==
    /\ pc[c] = "observe" /\ Claimable(key[c])
    /\ Lend(c)
    /\ Goto(c, "reconcile")
    /\ UNCHANGED <<status, request, world>>

\* adapter.reconcile: an effect that is visible settles the intent.  Absence
\* proves nothing to most adapters; branch removal answers FAILED.  The
\* observation itself can fail.
Reconcile(c) ==
    /\ pc[c] = "reconcile"
    /\ \/ remote[key[c]] > 0 /\ Goto(c, "found")
       \/ remote[key[c]] = 0 /\ key[c] \in AbsentFails /\ Goto(c, "absent")
       \/ remote[key[c]] = 0 /\ key[c] \notin AbsentFails /\ Goto(c, "uncertain")
       \/ Goto(c, "uncertain")
    /\ UNCHANGED <<row, world>>

----------------------------------------------------------------------------
(* Storing the outcome, one locked transaction each.                       *)

\* Mutant: a refused completion is reported as a success.
CompleteIgnoresRefusal(c) ==
    /\ pc[c] = "found"
    /\ Goto(c, "succeeded")
    /\ \/ status[key[c]] \in Unresolved /\ Owns(c) /\ Settle(c, "SUCCEEDED")
       \/ Disowned(c) /\ UNCHANGED <<row, world>>

\* complete: idempotent for the same outcome, a conflict with another verdict
\* or a different outcome, otherwise the live owner's.
Complete(c) ==
    /\ pc[c] = "found"
    /\ \/ status[key[c]] \in Unresolved /\ Owns(c)
          /\ Settle(c, "SUCCEEDED") /\ Goto(c, "succeeded")
       \/ /\ status[key[c]] = "SUCCEEDED" /\ Goto(c, "succeeded")
          /\ UNCHANGED <<row, world>>
       \/ /\ status[key[c]] \in Terminal \/ Disowned(c)
          /\ Goto(c, "raised") /\ UNCHANGED <<row, world>>

\* fail for an outcome that is a failure.  A caller of invoke_admitted raises
\* instead and leaves the row alone.
Fail(c) ==
    /\ pc[c] \in {"rejected", "absent"}
    /\ \/ /\ Mode[c] # "unsettled" /\ status[key[c]] \in Unresolved /\ Owns(c)
          /\ Settle(c, "FAILED") /\ Goto(c, "failed")
       \/ /\ Mode[c] # "unsettled" /\ status[key[c]] = "FAILED"
          /\ Goto(c, "failed") /\ UNCHANGED <<row, world>>
       \/ /\ Mode[c] = "unsettled" \/ status[key[c]] \in Terminal \/ Disowned(c)
          /\ Goto(c, "raised") /\ UNCHANGED <<row, world>>

\* fail(needs_reconciliation=True) after an exception; its own refusal is
\* suppressed, and the exception propagates.
FailUncertain(c) ==
    /\ pc[c] = "uncertain"
    /\ Goto(c, "raised")
    /\ \/ /\ Mode[c] # "unsettled" /\ status[key[c]] # "SUCCEEDED" /\ Owns(c)
          /\ Settle(c, "NEEDS_RECONCILIATION")
       \/ /\ Mode[c] = "unsettled" \/ status[key[c]] = "SUCCEEDED" \/ Disowned(c)
          /\ UNCHANGED <<row, world>>

\* The task is cancelled or its process dies; row and lease stay behind, and so
\* does a message already sent.
Die(c) ==
    /\ pc[c] \in Active
    /\ Goto(c, "dead")
    /\ UNCHANGED <<row, world>>

----------------------------------------------------------------------------
Step(c) ==
    \/ \E r \in Requests : BeginNew(c, r) \/ BeginAgainst(c, r)
    \/ Recover(c) \/ ExecuteAdmitted(c) \/ InvokeAdmitted(c)
    \/ Send(c) \/ Answer(c) \/ Observe(c) \/ Claim(c) \/ Reconcile(c)
    \/ Complete(c) \/ Fail(c) \/ FailUncertain(c)

Next ==
    \/ \E c \in Calls : Step(c) \/ Renew(c) \/ Die(c)
    \/ \E k \in Keys : LeaseRuns(k) \/ Arrive(k)

Spec == Init /\ [][Next]_vars

\* A started call keeps being scheduled, adapters return, and leases that are
\* not renewed run out.
Fairness ==
    /\ \A c \in Calls : WF_vars(pc[c] \in Active /\ Step(c))
    /\ \A k \in Keys : WF_vars(LeaseRuns(k))

FairSpec == Spec /\ Fairness

----------------------------------------------------------------------------
(* Properties.                                                             *)

ObservedKeys == Keys \ AbsentFails

Verdict(k) ==
    CASE status[k] = "SUCCEEDED" -> "succeeded"
      [] status[k] = "FAILED" -> "failed"
      [] OTHER -> "open"

Abstract ==
    INSTANCE EffectOnce WITH
        Keys <- ObservedKeys,
        effects <- [k \in ObservedKeys |-> remote[k]],
        verdict <- [k \in ObservedKeys |-> Verdict(k)]

\* The intent table with its executors and reconcilers implements EffectOnce:
\* whatever times out, dies, is redelivered or arrives late, an effect happens
\* at most once per idempotency key and the recorded verdict about it is true
\* and final (recovery.py OperationExecutor and RecoveryService).
EffectHappensOnce == Abstract!Spec

\* One call at most is between begin and its answer.
OneInvoker ==
    \A c, d \in Calls :
        pc[c] \in Invoking /\ pc[d] \in Invoking /\ key[c] = key[d] => c = d

\* Nothing has happened before the invoker sends, nor after a refusal.
QuietBefore ==
    \A c \in Calls :
        pc[c] \in BeforeEffect \cup {"rejected"} => inflight[key[c]] = 0 /\ remote[key[c]] = 0

\* What a call saw outside is still so when it stores it.
SightingsTrue ==
    \A c \in Calls :
        /\ pc[c] = "found" => remote[key[c]] = 1
        /\ pc[c] = "absent" => key[c] \in AbsentFails
        /\ pc[c] \in Active => status[key[c]] # "ABSENT"

AtMostOne ==
    \A k \in Keys :
        /\ inflight[k] + remote[k] =< 1
        /\ status[k] = "ABSENT" => inflight[k] = 0 /\ remote[k] = 0

\* A verdict is true, and leaves nobody who could still make it untrue.
VerdictsTrue ==
    /\ \A k \in Keys : status[k] = "SUCCEEDED" => remote[k] = 1
    /\ \A k \in ObservedKeys : status[k] = "FAILED" =>
        /\ inflight[k] = 0 /\ remote[k] = 0
        /\ \A c \in Calls : key[c] = k => pc[c] \notin Invoking

\* An execution owner is the owner of unresolved work.
OwnersUnsettled == \A k \in Keys : owner[k] # "none" => status[k] \in Unresolved

\* Where the single effect can still come from: one call at most is between
\* begin and its answer, nothing has happened before it sends, and a verdict
\* leaves nobody who could still send (recovery.py 54, 213; operations.py 129).
IntentHolds ==
    OneInvoker /\ QuietBefore /\ SightingsTrue /\ AtMostOne /\ VerdictsTrue /\ OwnersUnsettled

\* A caller that was told the operation succeeded finds that success on the row,
\* also when its own completion lost the lease (recovery.py _store_outcome).
SuccessIsRecorded ==
    \A c \in Calls : pc[c] = "succeeded" => status[key[c]] = "SUCCEEDED"

\* Every call comes back: an observer never waits for ever on an owner that
\* died (recovery.py _observe_or_reconcile).
CallsEnd == []<>(\A c \in Calls : pc[c] \notin Active)

=============================================================================
