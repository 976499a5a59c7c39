---------------------- MODULE OperationIntents_proofs -----------------------
(***************************************************************************)
(* Proofs about OperationIntents, for every set of keys, requests and      *)
(* calls: the intent invariant is inductive, and with it every step is a   *)
(* step of EffectOnce or leaves its state alone.                           *)
(***************************************************************************)
EXTENDS OperationIntents, TLAPS

Inv == TypeOK /\ IntentHolds

LEMMA InitInv == Init => Inv
BY IntentAssumption
DEF Init, Inv, TypeOK, IntentHolds, OneInvoker, QuietBefore, SightingsTrue, AtMostOne,
    VerdictsTrue, OwnersUnsettled, Unresolved, Terminal, Active, Invoking, BeforeEffect, Ended, ObservedKeys

\* Every action keeps the columns and the places of the calls typed.
LEMMA TypeStep == TypeOK /\ [Next]_vars => TypeOK'
<1> SUFFICES ASSUME TypeOK, [Next]_vars PROVE TypeOK'
  OBVIOUS
<1> USE IntentAssumption DEF TypeOK, Unresolved, Terminal, Active, Invoking, BeforeEffect, Ended,
        Goto, Lend, Release, Settle, row, world
<1>1. ASSUME NEW c \in Calls, Step(c) PROVE TypeOK'
  <2>1. ASSUME NEW r \in Requests, BeginNew(c, r) PROVE TypeOK'
    BY <2>1 DEF BeginNew
  <2>2. ASSUME NEW r \in Requests, BeginAgainst(c, r) PROVE TypeOK'
    BY <2>2 DEF BeginAgainst
  <2>3. CASE Recover(c)  BY <2>3 DEF Recover
  <2>4. CASE ExecuteAdmitted(c)  BY <2>4 DEF ExecuteAdmitted
  <2>5. CASE InvokeAdmitted(c)  BY <2>5 DEF InvokeAdmitted
  <2>6. CASE Send(c)  BY <2>6 DEF Send
  <2>7. CASE Answer(c)  BY <2>7 DEF Answer
  <2>8. CASE Observe(c)  BY <2>8 DEF Observe
  <2>9. CASE Claim(c)  BY <2>9 DEF Claim
  <2>10. CASE Reconcile(c)  BY <2>10 DEF Reconcile
  <2>11. CASE Complete(c)  BY <2>11 DEF Complete
  <2>12. CASE Fail(c)  BY <2>12 DEF Fail
  <2>13. CASE FailUncertain(c)  BY <2>13 DEF FailUncertain
  <2> QED
    BY <1>1, <2>1, <2>2, <2>3, <2>4, <2>5, <2>6, <2>7, <2>8, <2>9, <2>10, <2>11, <2>12, <2>13
    DEF Step
<1>2. ASSUME NEW c \in Calls, Renew(c) PROVE TypeOK'
  BY <1>2 DEF Renew
<1>3. ASSUME NEW c \in Calls, Die(c) PROVE TypeOK'
  BY <1>3 DEF Die
<1>4. ASSUME NEW k \in Keys, LeaseRuns(k) PROVE TypeOK'
  BY <1>4 DEF LeaseRuns
<1>5. ASSUME NEW k \in Keys, Arrive(k) PROVE TypeOK'
  BY <1>5 DEF Arrive
<1>6. CASE UNCHANGED vars
  BY <1>6 DEF vars
<1> QED
  BY <1>1, <1>2, <1>3, <1>4, <1>5, <1>6 DEF Next

\* What AtMostOne says of a key's numbers.
LEMMA OneEffect ==
  ASSUME TypeOK, AtMostOne, NEW k \in Keys
  PROVE  /\ remote[k] > 0 => remote[k] = 1 /\ inflight[k] = 0
         /\ inflight[k] > 0 => inflight[k] = 1 /\ remote[k] = 0
<1>1. remote[k] \in Nat /\ inflight[k] \in Nat  BY DEF TypeOK
<1>2. inflight[k] + remote[k] =< 1  BY DEF AtMostOne
<1> QED  BY <1>1, <1>2

\* Every action keeps the intent invariant.
LEMMA IntentStep == Inv /\ [Next]_vars => IntentHolds'
<1> SUFFICES ASSUME Inv, [Next]_vars PROVE IntentHolds'
  OBVIOUS
<1>0. TypeOK /\ AtMostOne /\ \A c \in Calls : key[c] \in Keys
  BY IntentAssumption DEF Inv, IntentHolds
<1> USE IntentAssumption DEF Inv, TypeOK, IntentHolds, OneInvoker, QuietBefore, SightingsTrue,
        AtMostOne, VerdictsTrue, OwnersUnsettled, ObservedKeys, Unresolved, Terminal, Active, Invoking,
        BeforeEffect, Ended, Goto, Lend, Release, Settle, row, world
<1>1. ASSUME NEW c \in Calls, Step(c) PROVE IntentHolds'
  <2>1. ASSUME NEW r \in Requests, BeginNew(c, r) PROVE IntentHolds'
    BY <2>1 DEF BeginNew
  <2>2. ASSUME NEW r \in Requests, BeginAgainst(c, r) PROVE IntentHolds'
    BY <2>2 DEF BeginAgainst
  <2>3. CASE Recover(c)
    <3>1. CASE Goto(c, "reconcile")
      BY <2>3, <3>1 DEF Recover, Claimable
    <3>2. CASE Goto(c, "raised")
      BY <2>3, <3>2 DEF Recover, Claimable
    <3> QED  BY <2>3, <3>1, <3>2 DEF Recover
  <2>4. CASE ExecuteAdmitted(c)  BY <2>4 DEF ExecuteAdmitted
  <2>5. CASE InvokeAdmitted(c)  BY <2>5 DEF InvokeAdmitted, Owns
  <2>6. CASE Send(c)
    <3>1. CASE Goto(c, "rejected") /\ UNCHANGED inflight
      BY <2>6, <3>1 DEF Send
    <3>2. CASE Goto(c, "sent")
      BY <2>6, <3>2 DEF Send
    <3> QED  BY <2>6, <3>1, <3>2 DEF Send
  <2>7. CASE Answer(c)
    <3>1. CASE remote[key[c]] > 0 /\ Goto(c, "found") /\ UNCHANGED inflight
      <4>1. remote[key[c]] = 1  BY <1>0, <3>1, OneEffect
      <4>2. OneInvoker'  BY <4>1, <2>7, <3>1 DEF Answer
      <4>3. QuietBefore'  BY <4>1, <2>7, <3>1 DEF Answer
      <4>4. SightingsTrue'  BY <4>1, <2>7, <3>1 DEF Answer
      <4>5. AtMostOne'  BY <4>1, <2>7, <3>1 DEF Answer
      <4>6. VerdictsTrue'  BY <4>1, <2>7, <3>1 DEF Answer
      <4>7. OwnersUnsettled'  BY <4>1, <2>7, <3>1 DEF Answer
      <4> QED  BY <4>2, <4>3, <4>4, <4>5, <4>6, <4>7 DEF IntentHolds
    <3>2. CASE /\ inflight[key[c]] > 0
              /\ inflight' = [inflight EXCEPT ![key[c]] = @ - 1]
              /\ Goto(c, "rejected")
      <4>1. inflight[key[c]] = 1 /\ remote[key[c]] = 0  BY <1>0, <3>2, OneEffect
      <4>2. OneInvoker'  BY <4>1, <2>7, <3>2 DEF Answer
      <4>3. QuietBefore'  BY <4>1, <2>7, <3>2 DEF Answer
      <4>4. SightingsTrue'  BY <4>1, <2>7, <3>2 DEF Answer
      <4>5. AtMostOne'  BY <4>1, <2>7, <3>2 DEF Answer
      <4>6. VerdictsTrue'  BY <4>1, <2>7, <3>2 DEF Answer
      <4>7. OwnersUnsettled'  BY <4>1, <2>7, <3>2 DEF Answer
      <4> QED  BY <4>2, <4>3, <4>4, <4>5, <4>6, <4>7 DEF IntentHolds
    <3>3. CASE Goto(c, "uncertain") /\ UNCHANGED inflight
      BY <2>7, <3>3 DEF Answer
    <3> QED  BY <2>7, <3>1, <3>2, <3>3 DEF Answer
  <2>8. CASE Observe(c)  BY <2>8 DEF Observe
  <2>9. CASE Claim(c)  BY <2>9 DEF Claim, Claimable
  <2>10. CASE Reconcile(c)
    <3>1. CASE remote[key[c]] > 0 /\ Goto(c, "found")
      <4>1. remote[key[c]] = 1  BY <1>0, <3>1, OneEffect
      <4>2. OneInvoker'  BY <4>1, <2>10, <3>1 DEF Reconcile
      <4>3. QuietBefore'  BY <4>1, <2>10, <3>1 DEF Reconcile
      <4>4. SightingsTrue'  BY <4>1, <2>10, <3>1 DEF Reconcile
      <4>5. AtMostOne'  BY <4>1, <2>10, <3>1 DEF Reconcile
      <4>6. VerdictsTrue'  BY <4>1, <2>10, <3>1 DEF Reconcile
      <4>7. OwnersUnsettled'  BY <4>1, <2>10, <3>1 DEF Reconcile
      <4> QED  BY <4>2, <4>3, <4>4, <4>5, <4>6, <4>7 DEF IntentHolds
    <3>2. CASE key[c] \in AbsentFails /\ Goto(c, "absent")
      BY <2>10, <3>2 DEF Reconcile
    <3>3. CASE Goto(c, "uncertain")
      BY <2>10, <3>3 DEF Reconcile
    <3> QED  BY <2>10, <3>1, <3>2, <3>3 DEF Reconcile
  <2>11. CASE Complete(c)
    <3>1. CASE Settle(c, "SUCCEEDED") /\ Goto(c, "succeeded")
      BY <2>11, <3>1 DEF Complete
    <3>2. CASE Goto(c, "succeeded") /\ UNCHANGED <<row, world>>
      BY <2>11, <3>2 DEF Complete
    <3>3. CASE Goto(c, "raised") /\ UNCHANGED <<row, world>>
      BY <2>11, <3>3 DEF Complete
    <3> QED  BY <2>11, <3>1, <3>2, <3>3 DEF Complete
  <2>12. CASE Fail(c)
    <3>1. CASE /\ status[key[c]] \in Unresolved
              /\ Settle(c, "FAILED") /\ Goto(c, "failed")
      <4>1. key[c] \in Keys /\ status[key[c]] \in Unresolved  BY <2>12, <3>1 DEF Fail
      <4>2. OneInvoker'  BY <4>1, <2>12, <3>1 DEF Fail
      <4>3. QuietBefore'  BY <4>1, <2>12, <3>1 DEF Fail
      <4>4. SightingsTrue'  BY <4>1, <2>12, <3>1 DEF Fail
      <4>5. AtMostOne'  BY <4>1, <2>12, <3>1 DEF Fail
      <4>6. VerdictsTrue'  BY <4>1, <2>12, <3>1 DEF Fail
      <4>7. OwnersUnsettled'  BY <4>1, <2>12, <3>1 DEF Fail
      <4> QED  BY <4>2, <4>3, <4>4, <4>5, <4>6, <4>7 DEF IntentHolds
    <3>2. CASE Goto(c, "failed") /\ UNCHANGED <<row, world>>
      BY <2>12, <3>2 DEF Fail
    <3>3. CASE Goto(c, "raised") /\ UNCHANGED <<row, world>>
      BY <2>12, <3>3 DEF Fail
    <3> QED  BY <2>12, <3>1, <3>2, <3>3 DEF Fail
  <2>13. CASE FailUncertain(c)  BY <2>13 DEF FailUncertain
  <2> QED
    BY <1>1, <2>1, <2>2, <2>3, <2>4, <2>5, <2>6, <2>7, <2>8, <2>9, <2>10, <2>11, <2>12, <2>13
    DEF Step
<1>2. ASSUME NEW c \in Calls, Renew(c) PROVE IntentHolds'
  BY <1>2 DEF Renew, Owns
<1>3. ASSUME NEW c \in Calls, Die(c) PROVE IntentHolds'
  BY <1>3 DEF Die
<1>4. ASSUME NEW k \in Keys, LeaseRuns(k) PROVE IntentHolds'
  BY <1>4 DEF LeaseRuns
<1>5. ASSUME NEW k \in Keys, Arrive(k) PROVE IntentHolds'
  BY <1>5 DEF Arrive
<1>6. CASE UNCHANGED vars
  BY <1>6 DEF vars
<1> QED
  BY <1>1, <1>2, <1>3, <1>4, <1>5, <1>6 DEF Next

\* The intent table's columns and the places of the calls keep their types, and
\* the single effect of a key can only come from its one invoker (operations.py
\* begin and _claim_core, recovery.py OperationExecutor).
THEOREM IntentAlwaysHolds == Spec => [](TypeOK /\ IntentHolds)
<1>1. Init => Inv  BY InitInv
<1>2. Inv /\ [Next]_vars => Inv'  BY TypeStep, IntentStep DEF Inv
<1> QED  BY <1>1, <1>2, PTL DEF Spec, Inv

----------------------------------------------------------------------------
(* A successful return is on the row.                                      *)

Recorded == Inv /\ SuccessIsRecorded

LEMMA RecordedStep == Recorded /\ [Next]_vars => SuccessIsRecorded'
<1> SUFFICES ASSUME Recorded, [Next]_vars PROVE SuccessIsRecorded'
  OBVIOUS
<1> USE IntentAssumption DEF Recorded, Inv, TypeOK, SuccessIsRecorded, Unresolved, Terminal, Active,
        Invoking, BeforeEffect, Ended, Goto, Lend, Release, Settle, row, world
<1>1. ASSUME NEW c \in Calls, Step(c) PROVE SuccessIsRecorded'
  <2>1. ASSUME NEW r \in Requests, BeginNew(c, r) PROVE SuccessIsRecorded'
    BY <2>1 DEF BeginNew
  <2>2. ASSUME NEW r \in Requests, BeginAgainst(c, r) PROVE SuccessIsRecorded'
    BY <2>2 DEF BeginAgainst
  <2>3. CASE Recover(c)  BY <2>3 DEF Recover, Claimable
  <2>4. CASE ExecuteAdmitted(c)  BY <2>4 DEF ExecuteAdmitted
  <2>5. CASE InvokeAdmitted(c)  BY <2>5 DEF InvokeAdmitted
  <2>6. CASE Send(c)  BY <2>6 DEF Send
  <2>7. CASE Answer(c)  BY <2>7 DEF Answer
  <2>8. CASE Observe(c)  BY <2>8 DEF Observe
  <2>9. CASE Claim(c)  BY <2>9 DEF Claim
  <2>10. CASE Reconcile(c)  BY <2>10 DEF Reconcile
  <2>11. CASE Complete(c)  BY <2>11 DEF Complete
  <2>12. CASE Fail(c)
    <3>1. CASE /\ status[key[c]] \in Unresolved
               /\ Settle(c, "FAILED") /\ Goto(c, "failed")
      BY <3>1
    <3>2. CASE /\ Goto(c, "failed") \/ Goto(c, "raised")
               /\ UNCHANGED <<row, world>>
      BY <3>2
    <3> QED  BY <2>12, <3>1, <3>2 DEF Fail
  <2>13. CASE FailUncertain(c)
    <3>1. CASE /\ status[key[c]] # "SUCCEEDED"
               /\ Settle(c, "NEEDS_RECONCILIATION")
      BY <2>13, <3>1 DEF FailUncertain
    <3>2. CASE UNCHANGED <<row, world>>
      BY <2>13, <3>2 DEF FailUncertain
    <3> QED  BY <2>13, <3>1, <3>2 DEF FailUncertain
  <2> QED
    BY <1>1, <2>1, <2>2, <2>3, <2>4, <2>5, <2>6, <2>7, <2>8, <2>9, <2>10, <2>11, <2>12, <2>13
    DEF Step
<1>2. ASSUME NEW c \in Calls, Renew(c) \/ Die(c) PROVE SuccessIsRecorded'
  BY <1>2 DEF Renew, Die
<1>3. ASSUME NEW k \in Keys, LeaseRuns(k) \/ Arrive(k) PROVE SuccessIsRecorded'
  BY <1>3 DEF LeaseRuns, Arrive
<1>4. CASE UNCHANGED vars
  BY <1>4 DEF vars
<1> QED
  BY <1>1, <1>2, <1>3, <1>4 DEF Next

\* A caller told that its operation succeeded finds the success on the row for
\* ever after (recovery.py _store_outcome, operations.py _complete_core).
THEOREM SuccessAlwaysRecorded == Spec => []SuccessIsRecorded
<1>1. Init => Recorded
  BY InitInv DEF Init, Recorded, SuccessIsRecorded
<1>2. Recorded /\ [Next]_vars => Recorded'
  BY TypeStep, IntentStep, RecordedStep DEF Recorded, Inv
<1> QED  BY <1>1, <1>2, PTL DEF Spec, Recorded

----------------------------------------------------------------------------
(* The refinement of EffectOnce.                                           *)

absEffects == [k \in ObservedKeys |-> remote[k]]
absVerdict == [k \in ObservedKeys |-> Verdict(k)]

\* A step that touches neither a status nor an effect is a stutter.
LEMMA Stutters ==
  ASSUME UNCHANGED <<status, remote>> PROVE UNCHANGED <<absEffects, absVerdict>>
BY DEF absEffects, absVerdict, Verdict

\* A status that moves between two open ones is a stutter too.
LEMMA StaysOpen ==
  ASSUME TypeOK, NEW k0 \in Keys, status[k0] \notin Terminal, NEW s, s \notin Terminal,
         status' = [status EXCEPT ![k0] = s], UNCHANGED remote
  PROVE  UNCHANGED <<absEffects, absVerdict>>
<1>1. absEffects' = absEffects  BY DEF absEffects
<1>2. \A k \in Keys : Verdict(k)' = Verdict(k)
  BY DEF TypeOK, Terminal, Verdict
<1> QED  BY <1>1, <1>2 DEF absVerdict, ObservedKeys

\* A settlement with a true verdict is EffectOnce's Record.
LEMMA Records ==
  ASSUME TypeOK, NEW k0 \in Keys, status[k0] \in Unresolved, UNCHANGED remote,
         NEW s \in Terminal, status' = [status EXCEPT ![k0] = s],
         k0 \in ObservedKeys => remote[k0] = (IF s = "SUCCEEDED" THEN 1 ELSE 0)
  PROVE  [Abstract!Next]_<<absEffects, absVerdict>>
<1> USE DEF ObservedKeys
<1>1. absEffects' = absEffects  BY DEF absEffects
<1>2. \A k \in Keys \ {k0} : Verdict(k)' = Verdict(k)
  BY DEF TypeOK, Verdict
<1>3. CASE k0 \notin ObservedKeys
  BY <1>1, <1>2, <1>3 DEF absVerdict
<1>4. CASE k0 \in ObservedKeys
  <2>1. Verdict(k0) = "open" /\ Verdict(k0)' = IF s = "SUCCEEDED" THEN "succeeded" ELSE "failed"
    BY DEF TypeOK, Verdict, Unresolved, Terminal
  <2>2. absEffects[k0] = (IF s = "SUCCEEDED" THEN 1 ELSE 0) /\ absVerdict[k0] = "open"
    BY <1>4, <2>1 DEF absEffects, absVerdict
  <2>3. absVerdict' = [absVerdict EXCEPT ![k0] = IF absEffects[k0] = 1 THEN "succeeded" ELSE "failed"]
    <3>1. Verdict(k0)' = IF absEffects[k0] = 1 THEN "succeeded" ELSE "failed"
      BY <2>1, <2>2
    <3>2. \A k \in ObservedKeys : absVerdict'[k] = IF k = k0 THEN Verdict(k0)' ELSE absVerdict[k]
      BY <1>2 DEF absVerdict
    <3> QED  BY <3>1, <3>2 DEF absVerdict
  <2>4. Abstract!Record(k0)
    BY <1>1, <2>2, <2>3 DEF Abstract!Record, absEffects, absVerdict
  <2> QED  BY <1>4, <2>4 DEF Abstract!Next
<1> QED  BY <1>3, <1>4

\* Every step of the intents maps to a step of EffectOnce or to a stutter.
LEMMA StepRefines == Inv /\ [Next]_vars => [Abstract!Next]_<<absEffects, absVerdict>>
<1> SUFFICES ASSUME Inv, [Next]_vars PROVE [Abstract!Next]_<<absEffects, absVerdict>>
  OBVIOUS
<1>0. TypeOK /\ AtMostOne /\ \A c \in Calls : key[c] \in Keys
  BY IntentAssumption DEF Inv, IntentHolds
<1>1. ASSUME NEW c \in Calls, Step(c) PROVE [Abstract!Next]_<<absEffects, absVerdict>>
  <2>0. key[c] \in Keys  BY <1>0
  <2>1. ASSUME NEW r \in Requests, BeginNew(c, r) PROVE UNCHANGED <<absEffects, absVerdict>>
    <3>1. /\ status[key[c]] \notin Terminal /\ UNCHANGED remote
          /\ status' = [status EXCEPT ![key[c]] = "PENDING"]
      BY <2>1 DEF BeginNew, Terminal, world
    <3> QED  BY <1>0, <2>0, <3>1, StaysOpen DEF Terminal
  <2>2. CASE UNCHANGED <<status, remote>>
    BY <2>2, Stutters
  <2>3. CASE Complete(c) /\ status' # status
    <3>1. /\ status[key[c]] \in Unresolved /\ pc[c] = "found"
          /\ status' = [status EXCEPT ![key[c]] = "SUCCEEDED"] /\ UNCHANGED remote
      BY <2>3 DEF Complete, Settle, row, world
    <3>2. remote[key[c]] = 1
      BY <3>1 DEF Inv, IntentHolds, SightingsTrue
    <3> QED  BY <1>0, <2>0, <3>1, <3>2, Records DEF Terminal
  <2>4. CASE Fail(c) /\ status' # status
    <3>1. /\ status[key[c]] \in Unresolved /\ pc[c] \in {"rejected", "absent"}
          /\ status' = [status EXCEPT ![key[c]] = "FAILED"] /\ UNCHANGED remote
      BY <2>4 DEF Fail, Settle, row, world
    <3>2. key[c] \in ObservedKeys => remote[key[c]] = 0
      BY <3>1 DEF Inv, IntentHolds, SightingsTrue, QuietBefore, ObservedKeys
    <3> QED  BY <1>0, <2>0, <3>1, <3>2, Records DEF Terminal
  <2>5. CASE FailUncertain(c) /\ status' # status
    <3>1. /\ status[key[c]] # "SUCCEEDED" /\ Owns(c) /\ pc[c] = "uncertain" /\ UNCHANGED remote
          /\ status' = [status EXCEPT ![key[c]] = "NEEDS_RECONCILIATION"]
      BY <2>5 DEF FailUncertain, Settle, row, world
    <3>2. owner[key[c]] = c /\ c # "none"
      BY <3>1, IntentAssumption DEF Owns
    <3>3. status[key[c]] \notin Terminal
      BY <2>0, <3>2 DEF Inv, IntentHolds, OwnersUnsettled, Unresolved, Terminal
    <3> QED  BY <1>0, <2>0, <3>1, <3>3, StaysOpen DEF Terminal
  <2>6. \/ \E r \in Requests : BeginNew(c, r)
        \/ UNCHANGED <<status, remote>>
        \/ Complete(c) /\ status' # status
        \/ Fail(c) /\ status' # status
        \/ FailUncertain(c) /\ status' # status
    <3> USE DEF row, world, Settle
    <3>1. ASSUME NEW r \in Requests, BeginAgainst(c, r) PROVE UNCHANGED <<status, remote>>
      BY <3>1 DEF BeginAgainst
    <3>2. CASE Recover(c)  BY <3>2 DEF Recover
    <3>3. CASE ExecuteAdmitted(c) \/ InvokeAdmitted(c)
      BY <3>3 DEF ExecuteAdmitted, InvokeAdmitted
    <3>4. CASE Send(c) \/ Answer(c) \/ Observe(c) \/ Claim(c) \/ Reconcile(c)
      BY <3>4 DEF Send, Answer, Observe, Claim, Reconcile
    <3>5. CASE Complete(c)  BY <3>5 DEF Complete
    <3>6. CASE Fail(c)  BY <3>6 DEF Fail
    <3>7. CASE FailUncertain(c)  BY <3>7 DEF FailUncertain
    <3> QED  BY <1>1, <3>1, <3>2, <3>3, <3>4, <3>5, <3>6, <3>7 DEF Step
  <2> QED  BY <2>1, <2>2, <2>3, <2>4, <2>5, <2>6
<1>2. ASSUME NEW c \in Calls, Renew(c) \/ Die(c) PROVE UNCHANGED <<absEffects, absVerdict>>
  BY <1>2, Stutters DEF Renew, Die, row, world
<1>3. ASSUME NEW k \in Keys, LeaseRuns(k) PROVE UNCHANGED <<absEffects, absVerdict>>
  BY <1>3, Stutters DEF LeaseRuns, world
<1>4. ASSUME NEW k \in Keys, Arrive(k) PROVE [Abstract!Next]_<<absEffects, absVerdict>>
  <2>1. CASE remote' = remote
    BY <1>4, <2>1, Stutters DEF Arrive, row
  <2>2. CASE remote' = [remote EXCEPT ![k] = @ + 1]
    <3>1. inflight[k] = 1 /\ remote[k] = 0
      BY <1>0, <1>4, OneEffect DEF Arrive
    <3>2. absVerdict' = absVerdict
      BY <1>4 DEF Arrive, row, absVerdict, Verdict
    <3>3. CASE k \notin ObservedKeys
      <4>1. absEffects' = absEffects
        BY <1>0, <2>2, <3>3 DEF absEffects, ObservedKeys, TypeOK
      <4> QED  BY <3>2, <4>1
    <3>4. CASE k \in ObservedKeys
      <4>1. status[k] \notin Terminal
        BY <3>1, <3>4 DEF Inv, IntentHolds, VerdictsTrue, Terminal, ObservedKeys
      <4>2. absEffects[k] = 0 /\ absVerdict[k] = "open"
        BY <3>1, <3>4, <4>1 DEF absEffects, absVerdict, Verdict, Terminal
      <4>5. /\ remote'[k] = 1
            /\ \A j \in Keys \ {k} : remote'[j] = remote[j]
        BY <1>0, <2>2, <3>1 DEF TypeOK
      <4>3. absEffects' = [absEffects EXCEPT ![k] = 1]
        BY <3>4, <4>5 DEF absEffects, ObservedKeys
      <4>4. Abstract!Perform(k)
        BY <3>2, <4>2, <4>3 DEF Abstract!Perform, absEffects, absVerdict
      <4> QED  BY <3>4, <4>4 DEF Abstract!Next
    <3> QED  BY <3>3, <3>4
  <2> QED  BY <1>4, <2>1, <2>2 DEF Arrive
<1>5. CASE UNCHANGED vars
  BY <1>5, Stutters DEF vars, row, world
<1> QED
  BY <1>1, <1>2, <1>3, <1>4, <1>5 DEF Next

\* The intent table with its executors and reconcilers implements EffectOnce:
\* under every interleaving, loss, delay and death, one effect at most per key,
\* and a verdict that is true and final (operations.py, recovery.py).
THEOREM EffectOnceImplemented == Spec => EffectHappensOnce
<1>1. Init => Abstract!Init
  BY DEF Init, Abstract!Init, Verdict, ObservedKeys
<1>2. Inv /\ [Next]_vars => [Abstract!Next]_<<absEffects, absVerdict>>
  BY StepRefines
<1>3. Spec => []Inv
  BY IntentAlwaysHolds DEF Inv
<1> QED
  BY <1>1, <1>2, <1>3, PTL DEF Spec, EffectHappensOnce, Abstract!Spec, absEffects, absVerdict

=============================================================================
