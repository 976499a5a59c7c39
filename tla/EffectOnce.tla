----------------------------- MODULE EffectOnce -----------------------------
(***************************************************************************)
(* What "persist an intent before invoking an adapter and never blindly    *)
(* reinvoke" promises its callers: under one idempotency key the outside   *)
(* world is changed at most once, a recorded success means that it was     *)
(* changed, a recorded failure means that it never was and never will be,  *)
(* and a recorded verdict is final.  OperationIntents implements this.     *)
(***************************************************************************)
EXTENDS Naturals

CONSTANT Keys       \* idempotency keys

VARIABLES
    effects,        \* [Keys -> how often the effect happened]
    verdict         \* [Keys -> what the system of record says]

Init ==
    /\ effects = [k \in Keys |-> 0]
    /\ verdict = [k \in Keys |-> "open"]

Perform(k) ==
    /\ effects[k] = 0
    /\ verdict[k] = "open"
    /\ effects' = [effects EXCEPT ![k] = 1]
    /\ UNCHANGED verdict

Record(k) ==
    /\ verdict[k] = "open"
    /\ verdict' = [verdict EXCEPT ![k] = IF effects[k] = 1 THEN "succeeded" ELSE "failed"]
    /\ UNCHANGED effects

Next == \E k \in Keys : Perform(k) \/ Record(k)

Spec == Init /\ [][Next]_<<effects, verdict>>

=============================================================================
