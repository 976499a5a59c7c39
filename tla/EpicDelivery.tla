---------------------------- MODULE EpicDelivery ----------------------------
(***************************************************************************)
(* Delivery of one epic.  Executions (epochs) freeze a graph of items; the *)
(* owner, or a dispatcher process acting for an execution's setting, turns  *)
(* items into child runs through the run bridge; the owner pauses, resumes  *)
(* and cancels an execution, and the control worker carries the request to  *)
(* every child by ordinary run commands.                                    *)
(*                                                                          *)
(* Every transaction that writes an execution's control, its dispatch       *)
(* setting, an attempt or an intent holds the epic row, so each is one      *)
(* action.  What a dispatcher carries from one transaction to the next is   *)
(* its local state in agent.                                                *)
(***************************************************************************)
EXTENDS Naturals, Sequences, FiniteSets, FiniteSetsExt

CONSTANTS
    Executions, Items, Dispatchers,
    Order,          \* the graph's items by ordinal
    Deps,           \* Deps[i]: the items i depends on
    Required,       \* items whose disposition is "required"
    Usages,         \* what a finished child may be known to have used
    Ceilings,       \* ceilings the owner may set, in child holds
    Overrides,      \* whether the owner uses owner_override
    BaseMoves,      \* whether the base may move under every inspection of a launch
    Actions,        \* which controls the owner requests
    MaxRuns, MaxRunVersion, MaxControl, MaxConfig, MaxFaults, MaxClaims,
    None, Unproved

ASSUME DeliveryAssumption ==
    /\ Executions # {} /\ Items # {}
    /\ Order \in Seq(Items) /\ {Order[n] : n \in DOMAIN Order} = Items
    /\ Deps \in [Items -> SUBSET Items] /\ Required \subseteq Items
    /\ Usages \subseteq {0, 1, Unproved} /\ Usages # {}
    /\ Ceilings \subseteq Nat /\ Ceilings # {}
    /\ Overrides \in BOOLEAN /\ BaseMoves \in BOOLEAN
    /\ Actions \subseteq {"pause", "resume", "cancel"}
    /\ {MaxRuns, MaxRunVersion, MaxControl, MaxConfig, MaxFaults, MaxClaims}
         \subseteq Nat
    /\ None \notin Items \cup Nat /\ Unproved \notin Nat

VARIABLES
    children,   \* the epic's attempts in creation order, each with its run
    control,    \* EpicExecutionControl of each execution
    setting,    \* EpicDispatchSetting of each execution
    intents,    \* EpicControlIntent rows with the command each one queued
    handoff,    \* EpicCompletionHandoff: the child that verified an item
    ceiling,    \* the epic ledger's ceiling
    agent,      \* what each dispatcher process carries between transactions
    faults      \* crashes so far
vars == <<children, control, setting, intents, handoff, ceiling, agent, faults>>

Ended == {"SUCCEEDED", "CANCELLED"}
Requested == [pause |-> "PAUSE_REQUESTED", resume |-> "RESUME_REQUESTED",
              cancel |-> "CANCEL_REQUESTED"]
Settled == [pause |-> "PAUSED", resume |-> "ACTIVE", cancel |-> "CANCELLED"]
Pending == {Requested[a] : a \in DOMAIN Requested}
Open == {"requested", "enqueued", "observing"}
Kids == DOMAIN children
Of(e) == {c \in Kids : children[c].exec = e}

-----------------------------------------------------------------------------
(* Child runs, as the epic services see them *)

Terminal(c) == children[c].state \in {"COMPLETED", "FAILED", "CANCELLED"}
Paused(c) == children[c].state \in {"PAUSED", "PAUSED_MERGING"}

\* RunRepository.prove_quiescent: no unsettled effect and no queued command.
Quiescent(c) ==
    /\ children[c].quiet
    /\ \A i \in intents : i.run = c => i.cmd # "pending"

\* latest_required_child_failed
LatestFailed(e) ==
    \E c \in Of(e) :
        /\ children[c].item \in Required
        /\ children[c].state \in {"FAILED", "CANCELLED"}
        /\ \A d \in Of(e) : children[d].item = children[c].item
                               => children[d].number <= children[c].number

-----------------------------------------------------------------------------
(* Eligibility: _one, evidence and readiness *)

Proven(c, e, i) ==
    /\ children[c].exec = e /\ children[c].item = i
    /\ children[c].state = "COMPLETED" /\ Quiescent(c)
    /\ children[c].integrated
    /\ handoff[e][i] \in {0, c}

\* _one: the newest attempt that proves the item becomes its handoff.
Witness(e, i) ==
    LET P == {c \in Kids : Proven(c, e, i)}
    IN  IF P = {} THEN 0
        ELSE CHOOSE c \in P : \A d \in P : children[d].number <= children[c].number

Verified(e, S) == {i \in S : Witness(e, i) # 0}

RecordHandoffs(e, S) ==
    handoff' = [handoff EXCEPT ![e] =
                   [i \in Items |-> IF i \in S /\ @[i] = 0 THEN Witness(e, i) ELSE @[i]]]

\* readiness: the first required item that is neither verified nor attempted
\* and whose dependencies the proof of an earlier transaction verified.
ReadyItem(e, proof) ==
    LET R == {n \in DOMAIN Order :
                 /\ Order[n] \in Required \ proof
                 /\ \A c \in Of(e) : children[c].item # Order[n]
                 /\ Deps[Order[n]] \subseteq proof}
    IN  IF R = {} THEN None ELSE Order[Min(R)]

-----------------------------------------------------------------------------
(* The run bridge: epic budget, blockers and admission *)

\* PostgresEpicBudgetRepository.totals: the child hold is a floor until the
\* child's effects are settled and its usage is proved.
Exposure(c) ==
    IF ~children[c].settled \/ children[c].usage = Unproved
    THEN 1 ELSE children[c].usage

\* EpicBudgetTotals.blockers
BudgetBlockers ==
    (IF MapThenSumSet(Exposure, Kids) + 1 > ceiling THEN {"exhausted"} ELSE {})
      \cup (IF \E c \in Kids : children[c].usage = Unproved THEN {"unknown"} ELSE {})

ChildBlockers ==
    (IF \E c \in Kids : ~Terminal(c) THEN {"active_child"} ELSE {})
      \cup (IF \E c \in Kids : Terminal(c) /\ ~Quiescent(c)
            THEN {"child_effects_unsettled"} ELSE {})

\* Every blocker launch collects for item i of execution e; moved: the base
\* moved under each of the three inspections.
Blockers(e, i, fresh, moved) ==
    BudgetBlockers
      \cup (IF ~fresh /\ control[e].state # "ACTIVE"
            THEN {"execution_not_active"} ELSE {})
      \cup (IF i \notin Required THEN {"item_deferred"} ELSE {})
      \cup (IF moved THEN {"repository_base_moved"} ELSE {})
      \cup (IF Deps[i] # {} /\ (fresh \/ moved \/ Verified(e, Deps[i]) # Deps[i])
            THEN {"predecessor_unverified"} ELSE {})
      \cup ChildBlockers
      \cup (IF LatestFailed(e) THEN {"predecessor_failed"} ELSE {})

\* The attempt, its task, its run and its budget hold, one transaction.
Child(e, i, override, auto) ==
    [exec |-> e, item |-> i, override |-> override, auto |-> auto,
     number |-> 1 + Max({0} \cup {children[c].number :
                                    c \in {d \in Of(e) : children[d].item = i}}),
     state |-> "RUNNING", ver |-> 1, quiet |-> FALSE, settled |-> FALSE,
     usage |-> Unproved, integrated |-> FALSE]

\* note_owner_child_admission: a late child revokes a settled control.
NoteOwnerChild(e) ==
    control' = IF control[e].state \in {"ACTIVE"} \cup Pending
               THEN control
               ELSE [control EXCEPT ![e] = [state |-> "BLOCKED", ver |-> @.ver + 1,
                                            blocker |-> "uncontrolled_child"]]

NoClaim == [item |-> None, token |-> 0, live |-> FALSE]

\* A lawful control of a new execution: create_execution.
NewControl == [state |-> "ACTIVE", ver |-> 1, blocker |-> None]

\* EpicRunBridgeService.start: another open execution needs an override.
Start(e, override) ==
    /\ control[e].state = None
    /\ override => Overrides
    /\ override \/ \A f \in Executions : control[f].state \in {None} \cup Ended
    /\ control' = [control EXCEPT ![e] = NewControl]
    /\ UNCHANGED <<children, setting, intents, handoff, ceiling, agent, faults>>

\* EpicRunBridgeService.launch by the owner, into a started execution or, with
\* no execution_id, into a fresh one.
ManualLaunch(e, i, override, moved) ==
    /\ Len(children) < MaxRuns
    /\ override => Overrides
    /\ LET fresh == control[e].state = None
       IN  /\ moved => BaseMoves
           /\ override \/ Blockers(e, i, fresh, moved) = {}
           /\ children' = Append(children, Child(e, i, override, FALSE))
           /\ RecordHandoffs(e, Deps[i])
           /\ IF fresh THEN control' = [control EXCEPT ![e] = NewControl]
              ELSE IF override THEN NoteOwnerChild(e)
              ELSE UNCHANGED control
    /\ UNCHANGED <<setting, intents, ceiling, agent, faults>>

\* EpicBudgetService.edit
EditBudget(n) ==
    /\ ceiling # n
    /\ ceiling' = n
    /\ UNCHANGED <<children, control, setting, intents, handoff, agent, faults>>

-----------------------------------------------------------------------------
(* Dispatch *)

Idle == [pc |-> "idle", exec |-> None, proof |-> {}, item |-> None,
         all |-> FALSE, token |-> 0, blocker |-> None]

Rest(d) == agent' = [agent EXCEPT ![d] = Idle]

\* EpicDispatchService.configure: a new version clears the claim; enabling an
\* execution blocked by its budget makes it active again.
Configure(e, on) ==
    /\ control[e].state # None
    /\ setting[e].ver < MaxConfig
    /\ setting' = [setting EXCEPT ![e] = [ver |-> @.ver + 1, enabled |-> on,
                                          claim |-> NoClaim, tokens |-> @.tokens]]
    /\ control' = IF on /\ control[e].state = "BLOCKED" /\ control[e].blocker = "exhausted"
                  THEN [control EXCEPT ![e] = [state |-> "ACTIVE", ver |-> @.ver + 1,
                                               blocker |-> None]]
                  ELSE control
    /\ UNCHANGED <<children, intents, handoff, ceiling, agent, faults>>

\* run_once picks an execution with dispatch enabled, or an active one.
Poll(d, e) ==
    /\ agent[d].pc = "idle"
    /\ setting[e].enabled \/ control[e].state = "ACTIVE"
    /\ agent' = [agent EXCEPT ![d] = [Idle EXCEPT !.pc = "proof", !.exec = e]]
    /\ UNCHANGED <<children, control, setting, intents, handoff, ceiling, faults>>

\* readiness, first transaction: evidence of every item of the graph.
ReadProof(d) ==
    LET e == agent[d].exec
    IN  /\ agent[d].pc = "proof"
        /\ RecordHandoffs(e, Items)
        /\ agent' = [agent EXCEPT ![d].pc = "attempts", ![d].proof = Verified(e, Items)]
        /\ UNCHANGED <<children, control, setting, intents, ceiling, faults>>

\* readiness, second transaction: the latest attempts.
ReadAttempts(d) ==
    LET e == agent[d].exec
    IN  /\ agent[d].pc = "attempts"
        /\ agent' = [agent EXCEPT ![d].pc = "ready",
                        ![d].item = ReadyItem(e, agent[d].proof),
                        ![d].all = Required \subseteq agent[d].proof]
        /\ UNCHANGED <<children, control, setting, intents, handoff, ceiling, faults>>

\* _block_failed_child
BlockFailed(e) ==
    /\ control' = [control EXCEPT ![e] = [state |-> "BLOCKED", ver |-> @.ver + 1,
                                          blocker |-> "predecessor_failed"]]
    /\ setting' = [setting EXCEPT ![e].enabled = FALSE, ![e].claim = NoClaim]

\* readiness raised: only a known failure is acted on.
ReadinessFails(d) ==
    LET e == agent[d].exec
    IN  /\ agent[d].pc \in {"proof", "attempts"}
        /\ faults < MaxFaults /\ faults' = faults + 1
        /\ Rest(d)
        /\ IF control[e].state = "ACTIVE" /\ LatestFailed(e)
           THEN BlockFailed(e) ELSE UNCHANGED <<control, setting>>
        /\ UNCHANGED <<children, intents, handoff, ceiling>>

\* Every child of the execution is terminal, quiescent and its hold lifted.
AllSettled(e) ==
    \A c \in Of(e) : Terminal(c) /\ Quiescent(c) /\ children[c].settled

ClaimHeld(e) == setting[e].enabled /\ setting[e].claim.item # None /\ setting[e].claim.live
ClaimLanded(e) ==
    /\ setting[e].enabled /\ setting[e].claim.item # None
    /\ \E c \in Of(e) : children[c].item = setting[e].claim.item

\* The epic-wide fence before a claim: every child, of any execution.
EpicIdle == \A c \in Kids : Terminal(c) /\ Quiescent(c) /\ children[c].settled

\* The decision transaction of run_once, under the epic row lock, with the
\* readiness read before it.
NotActive(d, e) ==
    /\ control[e].state # "ACTIVE"
    /\ setting' = IF control[e].state \in Ended
                  THEN [setting EXCEPT ![e].enabled = FALSE] ELSE setting
    /\ Rest(d)
    /\ UNCHANGED control

FailedChild(d, e) ==
    /\ control[e].state = "ACTIVE" /\ LatestFailed(e)
    /\ BlockFailed(e)
    /\ Rest(d)

KeepClaim(d, e) ==
    /\ control[e].state = "ACTIVE" /\ ~LatestFailed(e)
    /\ ClaimHeld(e) \/ ClaimLanded(e)
    /\ setting' = IF ClaimHeld(e) THEN setting ELSE [setting EXCEPT ![e].claim = NoClaim]
    /\ Rest(d)
    /\ UNCHANGED control

Free(e) == control[e].state = "ACTIVE" /\ ~LatestFailed(e)
             /\ ~ClaimHeld(e) /\ ~ClaimLanded(e)

Dropped(e) == IF setting[e].enabled THEN NoClaim ELSE setting[e].claim

Conclude(d, e) ==
    /\ Free(e) /\ agent[d].all
    /\ IF AllSettled(e)
       THEN /\ control' = [control EXCEPT ![e] = [state |-> "SUCCEEDED",
                                                 ver |-> @.ver + 1, blocker |-> None]]
            /\ setting' = [setting EXCEPT ![e].claim = Dropped(e), ![e].enabled = FALSE]
       ELSE /\ setting' = [setting EXCEPT ![e].claim = Dropped(e)]
            /\ UNCHANGED control
    /\ Rest(d)

CanClaim(d, e) ==
    /\ setting[e].enabled /\ agent[d].item # None
    /\ \A c \in Of(e) : children[c].item # agent[d].item
    /\ EpicIdle

Wait(d, e) ==
    /\ Free(e) /\ ~agent[d].all /\ ~CanClaim(d, e)
    /\ setting' = [setting EXCEPT ![e].claim = Dropped(e)]
    /\ Rest(d)
    /\ UNCHANGED control

Claim(d, e) ==
    /\ Free(e) /\ ~agent[d].all /\ CanClaim(d, e)
    /\ setting[e].tokens < MaxClaims
    /\ setting' = [setting EXCEPT ![e].tokens = @ + 1,
                      ![e].claim = [item |-> agent[d].item, live |-> TRUE,
                                    token |-> setting[e].tokens + 1]]
    /\ agent' = [agent EXCEPT ![d].pc = "claimed", ![d].token = setting[e].tokens + 1]
    /\ UNCHANGED control

Decide(d) ==
    LET e == agent[d].exec
    IN  /\ agent[d].pc = "ready"
        /\ \/ NotActive(d, e) \/ FailedChild(d, e) \/ KeepClaim(d, e)
           \/ Conclude(d, e) \/ Wait(d, e) \/ Claim(d, e)
        /\ UNCHANGED <<children, intents, handoff, ceiling, faults>>

\* Mutant: any claim of the item will do.
ClaimOfItem(d) ==
    LET s == setting[agent[d].exec]
    IN  s.enabled /\ s.claim.item = agent[d].item

\* launch: the claim the caller was given is still the setting's.
ClaimCurrent(d) ==
    LET s == setting[agent[d].exec]
    IN  s.enabled /\ s.claim = [item |-> agent[d].item, token |-> agent[d].token, live |-> TRUE]

\* run_once's choice of the blocker it records.
Refusal(B) ==
    IF "exhausted" \in B THEN "exhausted"
    ELSE IF "predecessor_failed" \in B THEN "predecessor_failed"
    ELSE IF B \cap {"active_child", "child_effects_unsettled"} # {} THEN "waiting"
    ELSE "refused"

\* EpicRunBridgeService.launch for a dispatcher.
DispatchLaunch(d, moved) ==
    LET e == agent[d].exec
        i == agent[d].item
        B == Blockers(e, i, FALSE, moved)
    IN  /\ agent[d].pc = "claimed"
        /\ moved => BaseMoves
        /\ IF ~ClaimCurrent(d)
           THEN /\ agent' = [agent EXCEPT ![d].pc = "launched", ![d].blocker = "refused"]
                /\ UNCHANGED <<children, handoff>>
           ELSE /\ RecordHandoffs(e, Deps[i])
                /\ B = {} => Len(children) < MaxRuns
                /\ children' = IF B = {} THEN Append(children, Child(e, i, FALSE, TRUE))
                               ELSE children
                /\ agent' = [agent EXCEPT ![d].pc = "launched",
                                ![d].blocker = IF B = {} THEN None ELSE Refusal(B)]
        /\ UNCHANGED <<control, setting, intents, ceiling, faults>>

\* The last transaction of run_once settles the claim it still owns.
SettleClaim(d) ==
    LET e == agent[d].exec
        b == IF agent[d].blocker = "predecessor_failed" /\ ~LatestFailed(e)
             THEN "waiting" ELSE agent[d].blocker
    IN  /\ agent[d].pc = "launched"
        /\ IF setting[e].claim.token # agent[d].token
           THEN UNCHANGED <<setting, control>>
           ELSE /\ setting' = [setting EXCEPT ![e].claim = NoClaim,
                                  ![e].enabled = @ /\ b \in {None, "waiting"}]
                /\ control' = IF b \in {"exhausted", "predecessor_failed"}
                                   /\ control[e].state = "ACTIVE"
                              THEN [control EXCEPT ![e] = [state |-> "BLOCKED",
                                       ver |-> @.ver + 1, blocker |-> b]]
                              ELSE control
        /\ Rest(d)
        /\ UNCHANGED <<children, intents, handoff, ceiling, faults>>

\* The dispatcher's process dies between two transactions.
Crash(d) ==
    /\ agent[d].pc # "idle"
    /\ faults < MaxFaults /\ faults' = faults + 1
    /\ Rest(d)
    /\ UNCHANGED <<children, control, setting, intents, handoff, ceiling>>

\* claim_expires_at passes.
Expire(e) ==
    /\ setting[e].claim.live
    /\ setting' = [setting EXCEPT ![e].claim.live = FALSE]
    /\ UNCHANGED <<children, control, intents, handoff, ceiling, agent, faults>>

-----------------------------------------------------------------------------
(* Controls *)

\* EpicLifecycleService.request: how the request sees child c now.
Role(a, c) ==
    CASE Terminal(c) -> IF Quiescent(c) THEN "historical" ELSE "observing"
      [] a = "resume" /\ ~Terminal(c) -> IF Paused(c) THEN "requested" ELSE "settled"
      [] a = "pause" /\ Paused(c) -> IF Quiescent(c) THEN "settled" ELSE "observing"
      [] OTHER -> "requested"

Request(e, a) ==
    /\ control[e].state \notin {None} \cup Pending
    /\ control[e].ver < MaxControl
    /\ a = "pause" => control[e].state \in {"ACTIVE", "BLOCKED"}
    /\ a = "resume" => control[e].state \in {"PAUSED", "BLOCKED"}
    /\ a = "cancel" => control[e].state \notin Ended
    /\ LET v == control[e].ver + 1
           new == {[exec |-> e, ver |-> v, run |-> c, action |-> a,
                    expect |-> IF Role(a, c) = "observing" THEN 0 ELSE children[c].ver,
                    status |-> Role(a, c), cmd |-> "none"] : c \in Of(e)}
       IN  /\ intents' = intents \cup new
           /\ control' = [control EXCEPT ![e] =
                 [state |-> IF \E i \in new : i.status \in Open
                            THEN Requested[a] ELSE Settled[a],
                  ver |-> v, blocker |-> None]]
    /\ children' = [c \in Kids |->
                       IF c \in Of(e) /\ Role(a, c) = "historical"
                       THEN [children[c] EXCEPT !.settled = TRUE] ELSE children[c]]
    /\ UNCHANGED <<setting, handoff, ceiling, agent, faults>>

Become(i, j) == intents' = (intents \ {i}) \cup {j}
Current(i) == control[i.exec].ver = i.ver

\* enqueue_in_work accepts the command: version and state still fit.
Accepts(c, a, expect) ==
    /\ children[c].ver = expect
    /\ CASE a = "pause" -> ~Terminal(c) /\ ~Paused(c)
         [] a = "resume" -> Paused(c)
         [] a = "cancel" -> ~Terminal(c)
                              /\ children[c].state \notin {"MERGING", "PAUSED_MERGING"}

\* _reconcile_intent on a requested intent.
Enqueue(i) ==
    /\ i.status = "requested"
    /\ IF ~Current(i)
       THEN Become(i, [i EXCEPT !.status = "superseded"]) /\ UNCHANGED control
       ELSE IF Accepts(i.run, i.action, i.expect)
       THEN Become(i, [i EXCEPT !.status = "enqueued", !.cmd = "pending"])
            /\ UNCHANGED control
       ELSE /\ Become(i, [i EXCEPT !.status = "refused"])
            /\ control' = [control EXCEPT ![i.exec].state = "BLOCKED",
                              ![i.exec].blocker = "child_control_refused"]
    /\ UNCHANGED <<children, setting, handoff, ceiling, agent, faults>>

\* _record_refusal of a command that failed.
Refuse(i) ==
    /\ i.status = "enqueued" /\ i.cmd = "failed"
    /\ Become(i, [i EXCEPT !.status = "refused"])
    /\ control' = IF Current(i)
                  THEN [control EXCEPT ![i.exec].state = "BLOCKED",
                           ![i.exec].blocker = "child_control_refused"]
                  ELSE control
    /\ UNCHANGED <<children, setting, handoff, ceiling, agent, faults>>

\* _settle_intent's correct_state: the child acknowledged the control and, if
\* the control left it paused or cancelled, its effects have settled.
Acknowledged(i) ==
    LET c == i.run
    IN  /\ \/ i.status = "enqueued" /\ i.cmd = "completed" /\ children[c].ver > i.expect
           \/ i.status = "observing" /\ (Terminal(c) \/ (i.action = "pause" /\ Paused(c)))
        /\ \/ Quiescent(c)
           \/ ~(\/ i.action = "cancel" /\ children[c].state = "CANCELLED"
                \/ i.action = "pause" /\ Paused(c)
                \/ i.status = "observing")

\* The aggregate check over every bound child, participants or not.
AsControlled(i, rows, c) ==
    \E p \in rows :
        /\ p.exec = i.exec /\ p.ver = i.ver /\ p.run = c
        /\ \/ p.status = "historical" /\ Terminal(c) /\ Quiescent(c)
           \/ /\ p.status = "settled"
              /\ CASE i.action = "pause" -> Paused(c) /\ Quiescent(c)
                   [] i.action = "resume" -> ~Terminal(c) /\ ~Paused(c)
                   [] i.action = "cancel" -> children[c].state = "CANCELLED" /\ Quiescent(c)

\* _settle_intent
Settle(i) ==
    /\ i.status \in {"enqueued", "observing"}
    /\ IF ~Current(i)
       THEN /\ i.status = "observing" => Terminal(i.run) \/ (i.action = "pause" /\ Paused(i.run))
            /\ i.status = "enqueued" => i.cmd = "completed"
            /\ Become(i, [i EXCEPT !.status = "superseded"])
            /\ UNCHANGED <<control, children>>
       ELSE /\ Acknowledged(i)
            /\ LET j == [i EXCEPT !.status = IF i.status = "observing" /\ Terminal(i.run)
                                             THEN "historical" ELSE "settled"]
                   rows == (intents \ {i}) \cup {j}
                   done == \A p \in rows : p.exec = i.exec /\ p.ver = i.ver
                                             => p.status \in {"settled", "historical"}
                   good == \A c \in Of(i.exec) : AsControlled(i, rows, c)
               IN  /\ intents' = rows
                   /\ control' = IF ~done THEN control
                                 ELSE [control EXCEPT
                                         ![i.exec].state = IF good THEN Settled[i.action]
                                                           ELSE "BLOCKED",
                                         ![i.exec].blocker = IF good THEN None
                                                             ELSE "uncontrolled_child"]
            /\ children' = IF Terminal(i.run) /\ Quiescent(i.run)
                           THEN [children EXCEPT ![i.run].settled = TRUE] ELSE children
    /\ UNCHANGED <<setting, handoff, ceiling, agent, faults>>

\* reconcile_one_hold
SettleHold(c) ==
    /\ Terminal(c) /\ Quiescent(c) /\ ~children[c].settled
    /\ children' = [children EXCEPT ![c].settled = TRUE]
    /\ UNCHANGED <<control, setting, intents, handoff, ceiling, agent, faults>>

-----------------------------------------------------------------------------
(* External: the child runs and the owner's repository *)

\* A run moves: its version grows and its new effects are not yet settled.
Move(c, s) ==
    children' = [children EXCEPT ![c].state = s, ![c].ver = @ + 1, ![c].quiet = FALSE]

\* A run ends; what it is known to have used is settled with it.
End(c, s) ==
    \E u \in Usages :
        /\ s = "COMPLETED" => u # Unproved
        /\ children' = [children EXCEPT ![c].state = s, ![c].ver = @ + 1,
                                        ![c].quiet = FALSE, ![c].usage = u]

Resumed(c) == IF children[c].state = "PAUSED_MERGING" THEN "MERGING" ELSE "RUNNING"
Suspended(c) == IF children[c].state = "MERGING" THEN "PAUSED_MERGING" ELSE "PAUSED"

\* The run worker executes the command an intent queued.
ExecuteCommand(i) ==
    /\ i.cmd = "pending"
    /\ IF Accepts(i.run, i.action, i.expect)
       THEN /\ CASE i.action = "pause" -> Move(i.run, Suspended(i.run))
                 [] i.action = "resume" -> Move(i.run, Resumed(i.run))
                 [] i.action = "cancel" -> End(i.run, "CANCELLED")
            /\ Become(i, [i EXCEPT !.cmd = "completed"])
       ELSE /\ Become(i, [i EXCEPT !.cmd = "failed"])
            /\ UNCHANGED children
    /\ UNCHANGED <<control, setting, handoff, ceiling, agent, faults>>

\* The run's own progress, which may settle the usage of what it ran so far,
\* and controls the owner sends to it directly.
Progress(c) ==
    /\ ~Terminal(c) /\ children[c].ver < MaxRunVersion
    /\ \E s \in {"MERGING", "PAUSED", "PAUSED_MERGING", "RUNNING"} :
          /\ children[c].state = "RUNNING" => s \in {"MERGING", "PAUSED"}
          /\ children[c].state = "MERGING" => s = "PAUSED_MERGING"
          /\ Paused(c) => s = Resumed(c)
          /\ \E u \in IF s = "MERGING" THEN Usages ELSE {children[c].usage} :
                children' = [children EXCEPT ![c].state = s, ![c].ver = @ + 1,
                                             ![c].quiet = FALSE, ![c].usage = u]
    /\ UNCHANGED <<control, setting, intents, handoff, ceiling, agent, faults>>

Finish(c) ==
    /\ ~Terminal(c)
    /\ \E s \in {"COMPLETED", "FAILED", "CANCELLED"} :
          /\ s = "COMPLETED" => children[c].state = "MERGING"
          /\ s = "CANCELLED" => children[c].state \notin {"MERGING", "PAUSED_MERGING"}
          /\ s = "FAILED" => ~Paused(c)
          /\ End(c, s)
    /\ UNCHANGED <<control, setting, intents, handoff, ceiling, agent, faults>>

Quiesce(c) ==
    /\ Terminal(c) \/ Paused(c)
    /\ ~children[c].quiet
    /\ children' = [children EXCEPT ![c].quiet = TRUE]
    /\ UNCHANGED <<control, setting, intents, handoff, ceiling, agent, faults>>

\* The owner tears the run's resources down: a command is queued again.
Teardown(c) ==
    /\ Terminal(c) /\ Quiescent(c) /\ children[c].ver < MaxRunVersion
    /\ children' = [children EXCEPT ![c].quiet = FALSE, ![c].ver = @ + 1]
    /\ UNCHANGED <<control, setting, intents, handoff, ceiling, agent, faults>>

\* The owner synchronizes the local default branch.
SyncBase ==
    /\ \E c \in Kids : children[c].state = "COMPLETED" /\ ~children[c].integrated
    /\ children' = [c \in Kids |-> [children[c] EXCEPT
                       !.integrated = @ \/ children[c].state = "COMPLETED"]]
    /\ UNCHANGED <<control, setting, intents, handoff, ceiling, agent, faults>>

-----------------------------------------------------------------------------
Init ==
    /\ children = <<>>
    /\ control = [e \in Executions |-> [state |-> None, ver |-> 0, blocker |-> None]]
    /\ setting = [e \in Executions |-> [ver |-> 0, enabled |-> FALSE,
                                        claim |-> NoClaim, tokens |-> 0]]
    /\ intents = {}
    /\ handoff = [e \in Executions |-> [i \in Items |-> 0]]
    /\ ceiling \in Ceilings
    /\ agent = [d \in Dispatchers |-> Idle]
    /\ faults = 0

Owner ==
    \/ \E e \in Executions, o \in BOOLEAN : Start(e, o)
    \/ \E e \in Executions, i \in Items, o, m \in BOOLEAN : ManualLaunch(e, i, o, m)
    \/ \E e \in Executions, on \in BOOLEAN : Configure(e, on)
    \/ \E e \in Executions, a \in Actions : Request(e, a)
    \/ \E n \in Ceilings : EditBudget(n)

Dispatcher(d) ==
    \/ \E e \in Executions : Poll(d, e)
    \/ ReadProof(d) \/ ReadAttempts(d) \/ Decide(d)
    \/ \E m \in BOOLEAN : DispatchLaunch(d, m)
    \/ SettleClaim(d)

Controller ==
    \/ \E i \in intents : Enqueue(i) \/ Refuse(i) \/ Settle(i)
    \/ \E c \in Kids : SettleHold(c)

Environment ==
    \/ \E i \in intents : ExecuteCommand(i)
    \/ \E c \in Kids : Progress(c) \/ Finish(c) \/ Quiesce(c) \/ Teardown(c)
    \/ SyncBase
    \/ \E e \in Executions : Expire(e)
    \/ \E d \in Dispatchers : Crash(d) \/ ReadinessFails(d)

Next == Owner \/ (\E d \in Dispatchers : Dispatcher(d)) \/ Controller \/ Environment

Spec == Init /\ [][Next]_vars

\* Processes are restarted after a crash and poll on; queued commands are
\* executed, a stopped run's effects settle and a claim's time passes.
Fairness ==
    /\ \A d \in Dispatchers : WF_vars(Dispatcher(d))
    /\ WF_vars(\E c \in Kids : SettleHold(c))
    /\ WF_vars(\E i \in intents : Enqueue(i))
    /\ WF_vars(\E i \in intents : Refuse(i))
    /\ WF_vars(\E i \in intents : Settle(i))
    /\ WF_vars(\E i \in intents : ExecuteCommand(i))
    /\ WF_vars(\E c \in Kids : Quiesce(c))
    /\ \A e \in Executions : WF_vars(Expire(e))

FairSpec == Spec /\ Fairness

-----------------------------------------------------------------------------
(* Properties *)

TypeOK ==
    /\ children \in Seq([exec : Executions, item : Items, number : 1..MaxRuns,
                         override : BOOLEAN, auto : BOOLEAN,
                         state : {"RUNNING", "MERGING", "PAUSED", "PAUSED_MERGING",
                                  "COMPLETED", "FAILED", "CANCELLED"},
                         ver : Nat, quiet : BOOLEAN, settled : BOOLEAN,
                         usage : {0, 1, Unproved}, integrated : BOOLEAN])
    /\ control \in [Executions ->
          [state : {None, "ACTIVE", "PAUSED", "BLOCKED"} \cup Pending \cup Ended,
           ver : Nat,
           blocker : {None, "exhausted", "predecessor_failed", "uncontrolled_child",
                      "child_control_refused"}]]
    /\ setting \in [Executions ->
          [ver : 0..MaxConfig, enabled : BOOLEAN, tokens : Nat,
           claim : [item : Items \cup {None}, token : Nat, live : BOOLEAN]]]
    /\ intents \subseteq
          [exec : Executions, ver : Nat, run : 1..MaxRuns,
           action : {"pause", "resume", "cancel"}, expect : Nat,
           status : Open \cup {"settled", "historical", "refused", "superseded"},
           cmd : {"none", "pending", "completed", "failed"}]
    /\ handoff \in [Executions -> [Items -> 0..MaxRuns]]
    /\ ceiling \in Ceilings
    /\ agent \in [Dispatchers ->
          [pc : {"idle", "proof", "attempts", "ready", "claimed", "launched"},
           exec : Executions \cup {None}, proof : SUBSET Items,
           item : Items \cup {None}, all : BOOLEAN, token : Nat,
           blocker : {None, "exhausted", "predecessor_failed", "waiting", "refused"}]]
    /\ faults \in 0..MaxFaults

\* Children of an epic run one after the other, over all its executions and
\* whoever launched them: when two are unfinished together, the owner put the
\* later one there with an override.  Dispatchers decide on readiness read
\* before they hold the epic row; the fence of launch is what keeps this.
OneChildAtATime ==
    \A a, b \in Kids :
        a < b /\ ~Terminal(a) /\ ~Terminal(b) => children[b].override

\* A dispatcher that crashed after the bridge committed, a claim that expired
\* under a slow dispatcher, and a reconfigured setting never make dispatch
\* launch an item of an execution twice.
DispatchedOnce ==
    \A a, b \in Kids :
        /\ children[a].auto /\ children[b].auto
        /\ children[a].exec = children[b].exec /\ children[a].item = children[b].item
        => a = b

\* Without an override an item starts only after each item it depends on was
\* completed by an earlier child of the same execution and that child's merge
\* reached the local base.
DependencyOrder ==
    \A c \in Kids : ~children[c].override =>
        \A i \in Deps[children[c].item] : \E p \in Of(children[c].exec) :
            /\ p < c /\ children[p].item = i
            /\ children[p].state = "COMPLETED" /\ children[p].integrated

\* An execution that reports success or cancellation has no unfinished child,
\* whatever the owner launched into it meanwhile, and one that reports success
\* has every required item integrated.
EndedIsEnded ==
    \A e \in Executions :
        /\ control[e].state \in Ended => \A c \in Of(e) : Terminal(c)
        /\ control[e].state = "SUCCEEDED" =>
              \A i \in Required : \E c \in Of(e) :
                  /\ children[c].item = i /\ children[c].state = "COMPLETED"
                  /\ children[c].integrated

\* "Cancellation cannot settle while any child process, command, or effect
\* remains unresolved", and neither can a pause: at the step that reports
\* either, every child of the execution has stopped and is quiescent.
SettlesTruthfully ==
    [][\A e \in Executions :
         /\ control'[e].state \in {"PAUSED", "CANCELLED"}
         /\ control'[e].state # control[e].state
         => \A c \in Of(e)' : (Terminal(c) \/ Paused(c))' /\ Quiescent(c)']_vars

\* A requested control is settled or refused.  The exception is the code's: a
\* child that was paused with unsettled effects when the pause was requested
\* is only observed, and one that runs again is observed until it stops.
ControlSettles ==
    \A e \in Executions :
        []<>(control[e].state \in Pending =>
            \E i \in intents : /\ i.exec = e /\ i.status = "observing"
                                /\ ~Terminal(i.run) /\ ~Paused(i.run))

\* The bounds on runs and claims are used up.
Exhausted(e) == Len(children) = MaxRuns \/ setting[e].tokens = MaxClaims

\* Dispatch goes on after crashes and lost claims: an item that is ready in an
\* idle epic is launched unless dispatch is switched off, the execution leaves
\* ACTIVE or a child of the epic is busy.
DispatchProceeds ==
    \A e \in Executions :
        []<>(/\ setting[e].enabled /\ control[e].state = "ACTIVE" /\ EpicIdle
             /\ ReadyItem(e, Verified(e, Items)) # None
             => Exhausted(e))

\* Success is noticed for executions with and without dispatch.
SuccessNoticed ==
    \A e \in Executions :
        []<>~ (/\ control[e].state = "ACTIVE" /\ AllSettled(e)
               /\ Verified(e, Required) = Required)

=============================================================================
