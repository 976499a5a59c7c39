-------------------------- MODULE ToolCalls_proofs --------------------------
(***************************************************************************)
(* Proofs, for every set of calls and callers, every budget and any number *)
(* of lapses, crashes, stops and edits, that a call acts at most once and  *)
(* within the budget, that a commit is what was prepared for it, and that  *)
(* the verdict of a call is true, final and what its callers are told.     *)
(***************************************************************************)
EXTENDS ToolCalls, FiniteSetTheorems, TLAPS

----------------------------------------------------------------------------
(* The inductive invariant.                                                *)

Fresh == {"none", "DENIED"}
Verdicts == {"SUCCEEDED", "FAILED", "CANCELLED"}
Repository == {"write", "delete"}
Resting == {"idle", "answered", "raised", "dead"}

\* The places of a completion that may still act, or has just acted.
Acting == {"admitted", "invoke", "applied", "unsure"} \cup CheckPlace \cup CommitPlace

\* A run of a check that was not launched leaves no effect.
Launched(outcome) == IF outcome = "unlaunched" THEN 0 ELSE 1

\* What a presentation that is at `place` with result `res` may rely on: the
\* kind of its call, and the call's row r, intent o, publication b, receipt k
\* and number of effects n.
PlaceOK(place, res, kind, r, o, b, k, n) ==
    /\ place \notin Resting => r \notin Fresh
    /\ place \in WritePlace => kind \in Repository
    /\ place \in CheckPlace => kind = "check"
    /\ place \in CommitPlace => kind = "commit"
    /\ place \in {"reading", "read"} => kind = "snapshot"
    /\ place = "admitted" => kind \in Repository \cup {"check", "commit"}
    /\ place \in {"admitted", "launch", "ran", "unprepared", "prepared"} =>
         r = "RUNNING" /\ o \in Unresolved /\ b = "none" /\ k = "none"
    /\ place \in {"publish", "committing"} =>
         r = "RUNNING" /\ o = "SUCCEEDED" /\ b \in Unresolved
    /\ place = "failed" => o = "FAILED"
    /\ place \in {"admitted", "invoke", "launch", "unprepared", "prepared", "publish", "committing"} =>
         n = 0
    /\ place \in {"applied", "published"} => n = 1
    /\ place = "published" => b # "none"
    /\ place = "proved" => o = "SUCCEEDED"
    /\ place = "ran" => res # "none" /\ n = Launched(res)
    /\ place = "kept" => k = res /\ k # "none"

\* What the records of a call of this kind say of its effects; h is the holder
\* of its lease.
CallOK(kind, r, o, b, h, k, n) ==
    /\ n \in {0, 1}
    /\ r \in Fresh => n = 0 /\ o = "none" /\ b = "none" /\ k = "none" /\ h = "none"
    /\ h # "none" => o \in Unresolved \/ b \in Unresolved
    /\ kind \in {"read", "snapshot"} => o = "none" /\ b = "none" /\ k = "none" /\ n = 0
    /\ kind \in Repository =>
         /\ b = "none" /\ k = "none"
         /\ o = "SUCCEEDED" => n = 1
         /\ r \in Verdicts => r = "SUCCEEDED" /\ o = "SUCCEEDED"
    /\ kind = "check" =>
         /\ b = "none"
         /\ o = "SUCCEEDED" => k # "none"
         /\ r \in Verdicts => k # "none" /\ r = NamedResult(k)
         /\ k # "none" => n = Launched(k)
    /\ kind = "commit" =>
         /\ k = "none"
         /\ b # "none" => o = "SUCCEEDED"
         /\ b = "SUCCEEDED" => n = 1
         /\ r = "SUCCEEDED" => n = 1
         /\ r \in {"FAILED", "CANCELLED"} => n = 0
         /\ o = "FAILED" => b = "none" /\ n = 0

PlaceHolds(p) ==
    PlaceOK(pc[p], result[p], Kind[call[p]], row[call[p]], op[call[p]], pub[call[p]],
            receipt[call[p]], done[call[p]])

CallHolds(c) ==
    CallOK(Kind[c], row[c], op[c], pub[c], holder[c], receipt[c], done[c])

PlacesHold == \A p \in Callers : PlaceHolds(p)
CallsHold == \A c \in Calls : CallHolds(c)

\* Only the presentation that admitted a call acts for it.
OneActor ==
    \A p, q \in Callers :
        call[p] = call[q] /\ pc[p] \in Acting /\ pc[q] \in Acting => p = q

\* Every commit of the branch is the one effect of its call.
BranchHolds ==
    /\ CommitIsPrepared
    /\ \A i \in DOMAIN branch : done[branch[i].by] = 1

\* The authorized calls are finitely many, and within the budget.
Counted == {c \in Calls : row[c] \notin {"none", "DENIED"}}
WithinBudget == IsFiniteSet(Counted) /\ Cardinality(Counted) =< Budget

Inv ==
    /\ TypeOK /\ CallsHold /\ PlacesHold /\ OneActor
    /\ BranchHolds /\ ToldIsRecorded /\ WithinBudget

\* What a step may do to a call that has its verdict, or under a stop.
Lawful(c) ==
    /\ row[c] \in Terminal => row'[c] = row[c] /\ done'[c] = done[c]
    /\ row'[c] = "RUNNING" => row[c] = "RUNNING" \/ (Active /\ Current)
    /\ pub'[c] = "PENDING" => pub[c] = "PENDING" \/ (Active /\ Current)

AllLawful == \A c \in Calls : Lawful(c)

----------------------------------------------------------------------------
(* How a step about one call keeps what is not about it.                   *)

\* The step is about call c: the others' records and effects stay.
OnlyCall(c) ==
    \A d \in Calls \ {c} :
        /\ row'[d] = row[d] /\ op'[d] = op[d] /\ pub'[d] = pub[d]
        /\ holder'[d] = holder[d] /\ receipt'[d] = receipt[d] /\ done'[d] = done[d]

\* The step is of presentation p: the others stay where they are.
OnlyCaller(p) ==
    \A q \in Callers \ {p} :
        pc'[q] = pc[q] /\ result'[q] = result[q] /\ told'[q] = told[q]

\* The row stays, or a RUNNING one gets its verdict.
Settling(c) == row'[c] = row[c] \/ (row[c] = "RUNNING" /\ row'[c] \in Verdicts)

\* Nothing is taken from the branch's evidence.
BranchFrame(c) ==
    /\ UNCHANGED <<branch, prepared>>
    /\ pub[c] # "none" => pub'[c] # "none"
    /\ done[c] = 1 => done'[c] = 1

\* Commits are by calls.
LEMMA CommitTyped ==
    ASSUME TypeOK, NEW i \in DOMAIN branch
    PROVE  branch[i] \in [by : Calls, tree : Nat, parent : Nat] /\ branch[i].by \in Calls
  <1> DEFINE S == [by : Calls, tree : Nat, parent : Nat]
  <1>1. branch \in Seq(S)
    BY DEF TypeOK
  <1>2. \A s \in S : s.by \in Calls
    OBVIOUS
  <1> HIDE DEF S
  <1>3. branch[i] \in S
    BY <1>1
  <1> QED
    BY <1>2, <1>3 DEF S

\* The branch is as good after a step that leaves it alone.
LEMMA BranchKept ==
    ASSUME Inv, NEW c \in Calls, OnlyCall(c), BranchFrame(c)
    PROVE  BranchHolds'
  <1>1. \A d \in Calls : (pub[d] # "none" => pub'[d] # "none") /\ (done[d] = 1 => done'[d] = 1)
    BY DEF OnlyCall, BranchFrame
  <1>2. \A i \in DOMAIN branch : branch[i].by \in Calls
    BY CommitTyped DEF Inv
  <1>3. branch' = branch /\ prepared' = prepared
    BY DEF BranchFrame
  <1> QED
    BY <1>1, <1>2, <1>3 DEF Inv, BranchHolds, CommitIsPrepared

\* The counted calls are the same after a step that settles at most.
LEMMA BudgetKept ==
    ASSUME Inv, NEW c \in Calls, OnlyCall(c), Settling(c)
    PROVE  WithinBudget'
  <1>1. Counted' = Counted
    BY DEF Counted, OnlyCall, Settling, Verdicts
  <1> QED
    BY <1>1 DEF Inv, WithinBudget

\* What was told stays true after a step that settles at most.
LEMMA ToldKept ==
    ASSUME Inv, NEW c \in Calls, OnlyCall(c), Settling(c),
           \A q \in Callers : told'[q] = told[q] \/ (call[q] = c /\ told'[q] = row'[c])
    PROVE  ToldIsRecorded'
  <1> SUFFICES ASSUME NEW q \in Callers, told'[q] # "none"
               PROVE  row'[call[q]] = told'[q]
    BY DEF ToldIsRecorded
  <1>1. call[q] \in Calls /\ told[q] \in Terminal \cup {"none"}
    BY ToolAssumption DEF Inv, TypeOK
  <1>2. told[q] # "none" => row[call[q]] = told[q] /\ row[call[q]] \in Terminal
    BY <1>1 DEF Inv, ToldIsRecorded
  <1> QED
    BY <1>1, <1>2 DEF OnlyCall, Settling, Terminal

\* The calls a step is not about keep their invariant.
LEMMA OtherCallsHold ==
    ASSUME Inv, NEW c \in Calls, OnlyCall(c), CallHolds(c)'
    PROVE  CallsHold'
  <1> SUFFICES ASSUME NEW d \in Calls PROVE CallHolds(d)'
    BY DEF CallsHold
  <1>1. CASE d = c
    BY <1>1
  <1>2. CASE d # c
    <2>1. /\ row'[d] = row[d] /\ op'[d] = op[d] /\ pub'[d] = pub[d]
          /\ holder'[d] = holder[d] /\ receipt'[d] = receipt[d] /\ done'[d] = done[d]
      BY <1>2 DEF OnlyCall
    <2>2. CallHolds(d)
      BY DEF Inv, CallsHold
    <2> QED
      BY <2>1, <2>2 DEF CallHolds
  <1> QED
    BY <1>1, <1>2

\* So do the presentations of those calls.
LEMMA OtherPlacesHold ==
    ASSUME Inv, NEW c \in Calls, OnlyCall(c), NEW q \in Callers, call[q] # c,
           pc'[q] = pc[q], result'[q] = result[q]
    PROVE  PlaceHolds(q)'
  <1>1. call[q] \in Calls /\ call[q] # c
    BY ToolAssumption
  <1>2. /\ row'[call[q]] = row[call[q]] /\ op'[call[q]] = op[call[q]]
        /\ pub'[call[q]] = pub[call[q]] /\ receipt'[call[q]] = receipt[call[q]]
        /\ done'[call[q]] = done[call[q]]
    BY <1>1 DEF OnlyCall
  <1>3. PlaceHolds(q)
    BY DEF Inv, PlacesHold
  <1> QED
    BY <1>2, <1>3 DEF PlaceHolds

\* The calls a step is not about are treated lawfully.
LEMMA OthersLawful ==
    ASSUME NEW c \in Calls, OnlyCall(c), Lawful(c)
    PROVE  AllLawful
  BY DEF OnlyCall, Lawful, AllLawful

\* A presentation that does not act relies on little.
LEMMA Bystander ==
    ASSUME NEW place \in Place \ Acting, NEW res, NEW kind,
           NEW r, NEW o, NEW b, NEW k, NEW n, NEW r2, NEW o2, NEW b2, NEW k2, NEW n2,
           PlaceOK(place, res, kind, r, o, b, k, n),
           r \notin Fresh => r2 \notin Fresh, o = "SUCCEEDED" => o2 = "SUCCEEDED"
    PROVE  PlaceOK(place, res, kind, r2, o2, b2, k2, n2)
  BY DEF PlaceOK, Place, Acting, Ended, Resting, WritePlace, CheckPlace, CommitPlace

\* A presentation at rest relies on nothing.
LEMMA AtRest ==
    ASSUME NEW place \in Resting, NEW res, NEW kind, NEW r, NEW o, NEW b, NEW k, NEW n
    PROVE  PlaceOK(place, res, kind, r, o, b, k, n)
  BY DEF PlaceOK, Resting, WritePlace, CheckPlace, CommitPlace

\* The parts of the invariant after a step about one call.
LEMMA StepHolds ==
    ASSUME Inv, TypeOK', NEW c \in Calls, OnlyCall(c), CallHolds(c)',
           \A q \in Callers : call[q] = c => PlaceHolds(q)',
           \A q \in Callers : call[q] # c => pc'[q] = pc[q] /\ result'[q] = result[q],
           OneActor', BranchHolds', ToldIsRecorded', WithinBudget', Lawful(c)
    PROVE  Inv' /\ AllLawful
  <1>1. CallsHold'
    BY OtherCallsHold
  <1>2. PlacesHold'
    BY OtherPlacesHold DEF PlacesHold
  <1>3. AllLawful
    BY OthersLawful
  <1> QED
    BY <1>1, <1>2, <1>3 DEF Inv

\* A step of the presentation that acts for its call.
LEMMA ActorStep ==
    ASSUME Inv, TypeOK', NEW p \in Callers, NEW c \in Calls, c = call[p], pc[p] \in Acting,
           OnlyCall(c), OnlyCaller(p), CallHolds(c)', PlaceHolds(p)', Settling(c), Lawful(c),
           op[c] = "SUCCEEDED" => op'[c] = "SUCCEEDED",
           told'[p] = told[p] \/ told'[p] = row'[c], BranchHolds'
    PROVE  Inv' /\ AllLawful
  <1>1. ASSUME NEW q \in Callers, q # p, call[q] = c
        PROVE  pc[q] \notin Acting /\ PlaceHolds(q)'
    <2>1. pc[q] \notin Acting
      BY <1>1 DEF Inv, OneActor
    <2>2. pc[q] \in Place \ Acting /\ PlaceHolds(q)
      BY <2>1 DEF Inv, TypeOK, PlacesHold
    <2>3. PlaceOK(pc[q], result[q], Kind[c], row[c], op[c], pub[c], receipt[c], done[c])
      BY <1>1, <2>2 DEF PlaceHolds
    <2>4. row[c] \notin Fresh => row'[c] \notin Fresh
      BY DEF Settling, Fresh, Verdicts
    <2>5. PlaceOK(pc[q], result[q], Kind[c], row'[c], op'[c], pub'[c], receipt'[c], done'[c])
      BY <2>2, <2>3, <2>4, Bystander
    <2>6. pc'[q] = pc[q] /\ result'[q] = result[q]
      BY <1>1 DEF OnlyCaller
    <2> QED
      BY <1>1, <2>1, <2>5, <2>6 DEF PlaceHolds
  <1>2. \A q \in Callers : call[q] = c => PlaceHolds(q)'
    BY <1>1
  <1>3. OneActor'
    BY <1>1 DEF Inv, OneActor, OnlyCaller
  <1>4. ToldIsRecorded' /\ WithinBudget'
    BY ToldKept, BudgetKept DEF OnlyCaller
  <1>5. \A q \in Callers : call[q] # c => pc'[q] = pc[q] /\ result'[q] = result[q]
    BY DEF OnlyCaller
  <1> QED
    BY <1>2, <1>3, <1>4, <1>5, StepHolds

\* A step about a call that nobody takes to act for it.
LEMMA QuietStep ==
    ASSUME Inv, TypeOK', NEW c \in Calls, OnlyCall(c), CallHolds(c)', Settling(c), Lawful(c),
           \A q \in Callers : call[q] = c => PlaceHolds(q)',
           \A q \in Callers :
                \/ pc'[q] = pc[q] /\ result'[q] = result[q] /\ told'[q] = told[q]
                \/ call[q] = c /\ pc'[q] \notin Acting /\ (told'[q] = told[q] \/ told'[q] = row'[c]),
           BranchHolds'
    PROVE  Inv' /\ AllLawful
  <1>1. OneActor'
    BY DEF Inv, OneActor
  <1>2. ToldIsRecorded' /\ WithinBudget'
    BY ToldKept, BudgetKept
  <1>3. \A q \in Callers : call[q] # c => pc'[q] = pc[q] /\ result'[q] = result[q]
    OBVIOUS
  <1> QED
    BY <1>1, <1>2, <1>3, StepHolds

\* A step that writes the first row of a call.
LEMMA FirstStep ==
    ASSUME Inv, TypeOK', NEW p \in Callers, NEW c \in Calls, c = call[p], row[c] = "none",
           OnlyCall(c), OnlyCaller(p), CallHolds(c)', PlaceHolds(p)',
           row'[c] \in Fresh \/ (Active /\ Current /\ BudgetAvailable),
           pub'[c] = "none", UNCHANGED <<branch, prepared, done>>,
           told'[p] = told[p] \/ told'[p] = row'[c]
    PROVE  Inv' /\ AllLawful
  <1>0. CallHolds(c) /\ pub[c] = "none" /\ done[c] = 0
    BY DEF Inv, CallsHold, CallHolds, CallOK, Fresh
  <1>1. ASSUME NEW q \in Callers, call[q] = c
        PROVE  pc[q] \in Resting /\ told[q] = "none"
    <2>1. PlaceHolds(q)
      BY DEF Inv, PlacesHold
    <2>2. pc[q] \in Resting
      BY <1>1, <2>1 DEF PlaceHolds, PlaceOK, Fresh
    <2>3. told[q] \in Terminal \cup {"none"} /\ (told[q] # "none" => row[c] = told[q])
      BY <1>1 DEF Inv, TypeOK, ToldIsRecorded
    <2> QED
      BY <2>2, <2>3 DEF Terminal
  <1>2. ASSUME NEW q \in Callers, call[q] = c
        PROVE  PlaceHolds(q)'
    <2>1. CASE q = p
      BY <2>1
    <2>2. CASE q # p
      BY <1>1, <1>2, <2>2, AtRest DEF OnlyCaller, PlaceHolds
    <2> QED
      BY <2>1, <2>2
  <1>3. OneActor'
    <2>1. \A q \in Callers : call[q] = c => pc[q] \notin Acting
      BY <1>1 DEF Resting, Acting, CheckPlace, CommitPlace
    <2> QED
      BY <2>1 DEF Inv, OneActor, OnlyCaller
  <1>4. ToldIsRecorded'
    <2> SUFFICES ASSUME NEW q \in Callers, told'[q] # "none"
                 PROVE  row'[call[q]] = told'[q]
      BY DEF ToldIsRecorded
    <2>1. call[q] \in Calls
      BY ToolAssumption
    <2>2. CASE call[q] = c
      BY <1>1, <2>2 DEF OnlyCaller
    <2>3. CASE call[q] # c
      BY <2>1, <2>3 DEF OnlyCaller, OnlyCall, Inv, ToldIsRecorded
    <2> QED
      BY <2>2, <2>3
  <1>5. WithinBudget'
    <2>1. CASE row'[c] \in Fresh
      <3>1. Counted' = Counted
        BY <2>1 DEF Counted, OnlyCall, Fresh
      <3> QED
        BY <3>1 DEF Inv, WithinBudget
    <2>2. CASE row'[c] \notin Fresh
      <3>1. Counted' = Counted \cup {c} /\ c \notin Counted
        BY <2>2 DEF Counted, OnlyCall, Fresh
      <3>2. IsFiniteSet(Counted) /\ Cardinality(Counted) < Budget
        BY <2>2 DEF Inv, WithinBudget, BudgetAvailable, Count, Counted
      <3>3. IsFiniteSet(Counted') /\ Cardinality(Counted') = Cardinality(Counted) + 1
        BY <3>1, <3>2, FS_AddElement
      <3>4. Cardinality(Counted) \in Nat /\ Budget \in Nat
        BY <3>2, FS_CardinalityType, ToolAssumption
      <3> QED
        BY <3>2, <3>3, <3>4 DEF WithinBudget
    <2> QED
      BY <2>1, <2>2
  <1>6. BranchHolds'
    BY <1>0, BranchKept DEF BranchFrame
  <1>7. Lawful(c)
    BY <1>0 DEF Lawful, Terminal, Fresh
  <1>8. \A q \in Callers : call[q] # c => pc'[q] = pc[q] /\ result'[q] = result[q]
    BY DEF OnlyCaller
  <1> QED
    BY <1>2, <1>3, <1>4, <1>5, <1>6, <1>7, <1>8, StepHolds

----------------------------------------------------------------------------
(* Every action keeps the invariant and is lawful.                         *)

\* What is known of a presentation and its call.
LEMMA Here ==
    ASSUME Inv, NEW p \in Callers
    PROVE  /\ call[p] \in Calls /\ Kind[call[p]] \in Kinds /\ p # "none"
           /\ PlaceHolds(p) /\ CallHolds(call[p])
  <1>1. call[p] \in Calls /\ Kind[call[p]] \in Kinds /\ p # "none"
    BY ToolAssumption
  <1> QED
    BY <1>1 DEF Inv, PlacesHold, CallsHold

\* Steps that change no record and no effect, and leave presentations where
\* they are or at rest.
LEMMA RestStep ==
    ASSUME Inv, TypeOK', UNCHANGED <<records, prepared, branch, done, result, told>>,
           \A q \in Callers : pc'[q] = pc[q] \/ pc'[q] \in Resting
    PROVE  Inv' /\ AllLawful
  <1>0. /\ UNCHANGED <<row, op, pub, holder, receipt, prepared, branch, done, result, told>>
    BY DEF records
  <1>1. CallsHold'
    BY <1>0 DEF Inv, CallsHold, CallHolds
  <1>2. ASSUME NEW q \in Callers PROVE PlaceHolds(q)'
    <2>1. PlaceHolds(q)
      BY DEF Inv, PlacesHold
    <2>2. CASE pc'[q] = pc[q]
      BY <1>0, <2>1, <2>2 DEF PlaceHolds
    <2>3. CASE pc'[q] \in Resting
      BY <2>3, AtRest DEF PlaceHolds
    <2> QED
      BY <2>2, <2>3
  <1>3. OneActor'
    BY DEF Inv, OneActor, Resting, Acting, CheckPlace, CommitPlace
  <1>4. BranchHolds' /\ ToldIsRecorded' /\ WithinBudget'
    BY <1>0 DEF Inv, BranchHolds, CommitIsPrepared, ToldIsRecorded, WithinBudget, Counted
  <1>5. AllLawful
    BY <1>0 DEF AllLawful, Lawful
  <1> QED
    BY <1>1, <1>2, <1>3, <1>4, <1>5 DEF Inv, PlacesHold

\* A presentation goes on and nothing else changes.
LEMMA GotoStep ==
    ASSUME Inv, NEW p \in Callers, NEW x \in Place, Goto(p, x),
           UNCHANGED <<control, records, worktree, budget>>,
           PlaceOK(x, result[p], Kind[call[p]], row[call[p]], op[call[p]], pub[call[p]],
                   receipt[call[p]], done[call[p]]),
           x \in Acting => pc[p] \in Acting
    PROVE  Inv' /\ AllLawful
  <1> DEFINE c == call[p]
  <1>0. c \in Calls
    BY Here
  <1>1. /\ UNCHANGED <<row, op, pub, holder, receipt, prepared, branch, done, result, told>>
        /\ UNCHANGED <<run, stopping, attempt, files, index, gone>>
        /\ pc' = [pc EXCEPT ![p] = x]
    BY DEF Goto, control, records, worktree
  <1>2. TypeOK'
    BY <1>1 DEF Inv, TypeOK
  <1>3. pc'[p] = x /\ OnlyCaller(p) /\ OnlyCall(c) /\ Settling(c) /\ Lawful(c)
    BY <1>0, <1>1 DEF Inv, TypeOK, OnlyCaller, OnlyCall, Settling, Lawful
  <1>4. CallHolds(c)'
    BY <1>1, Here DEF CallHolds
  <1>5. PlaceHolds(p)'
    BY <1>1, <1>3 DEF PlaceHolds
  <1>6. BranchHolds'
    BY <1>0, <1>1, <1>3, BranchKept DEF BranchFrame
  <1>7. ASSUME NEW q \in Callers, q # p
        PROVE  PlaceHolds(q)' /\ pc'[q] = pc[q] /\ result'[q] = result[q] /\ told'[q] = told[q]
    BY <1>1, <1>3, <1>7 DEF Inv, PlacesHold, PlaceHolds, OnlyCaller
  <1>8. told'[p] = told[p]
    BY <1>1
  <1>9. CASE x \in Acting
    BY <1>0, <1>1, <1>2, <1>3, <1>4, <1>5, <1>6, <1>8, <1>9, ActorStep
  <1>10. CASE x \notin Acting
    <2>1. \A q \in Callers : call[q] = c => PlaceHolds(q)'
      BY <1>5, <1>7
    <2>2. \A q \in Callers :
            \/ pc'[q] = pc[q] /\ result'[q] = result[q] /\ told'[q] = told[q]
            \/ call[q] = c /\ pc'[q] \notin Acting /\ (told'[q] = told[q] \/ told'[q] = row'[c])
      BY <1>3, <1>7, <1>8, <1>10
    <2> QED
      BY <1>0, <1>2, <1>3, <1>4, <1>6, <2>1, <2>2, QuietStep
  <1> QED
    BY <1>9, <1>10

\* A presentation ends with nothing changed.
LEMMA RaiseStep ==
    ASSUME Inv, NEW p \in Callers, Goto(p, "raised"),
           UNCHANGED <<control, records, worktree, budget>>
    PROVE  Inv' /\ AllLawful
  <1>1. "raised" \in Place /\ "raised" \in Resting /\ "raised" \notin Acting
    BY DEF Place, Ended, Resting, Acting, CheckPlace, CommitPlace
  <1> QED
    BY <1>1, AtRest, GotoStep

\* An earlier row answers.
LEMMA ReplayStep ==
    ASSUME Inv, NEW p \in Callers, Replay(call[p], p)
    PROVE  Inv' /\ AllLawful
  <1> DEFINE c == call[p]
  <1>0. c \in Calls
    BY Here
  <1>1. /\ UNCHANGED <<row, op, pub, holder, receipt, prepared, branch, done, result>>
        /\ UNCHANGED <<run, stopping, attempt, files, index, gone>>
        /\ pc' = [pc EXCEPT ![p] = "answered"] /\ told' = [told EXCEPT ![p] = row[c]]
        /\ row[c] \in Terminal
    BY DEF Replay, Answer, control, records, worktree
  <1>2. TypeOK'
    BY <1>1 DEF Inv, TypeOK, Place, Ended
  <1>3. /\ pc'[p] = "answered" /\ told'[p] = row[c]
        /\ OnlyCaller(p) /\ OnlyCall(c) /\ Settling(c) /\ Lawful(c)
    BY <1>0, <1>1 DEF Inv, TypeOK, OnlyCaller, OnlyCall, Settling, Lawful
  <1>4. CallHolds(c)'
    BY <1>1, Here DEF CallHolds
  <1>5. PlaceHolds(p)'
    BY <1>3, AtRest DEF PlaceHolds, Resting
  <1>6. BranchHolds'
    BY <1>0, <1>1, <1>3, BranchKept DEF BranchFrame
  <1>7. \A q \in Callers : call[q] = c => PlaceHolds(q)'
    BY <1>1, <1>3, <1>5 DEF Inv, PlacesHold, PlaceHolds, OnlyCaller
  <1>8. \A q \in Callers :
            \/ pc'[q] = pc[q] /\ result'[q] = result[q] /\ told'[q] = told[q]
            \/ call[q] = c /\ pc'[q] \notin Acting /\ (told'[q] = told[q] \/ told'[q] = row'[c])
    BY <1>1, <1>3 DEF OnlyCaller, Acting, CheckPlace, CommitPlace
  <1> QED
    BY <1>0, <1>2, <1>3, <1>4, <1>6, <1>7, <1>8, QuietStep

\* record: a first row that is a verdict already.
LEMMA RecordStep ==
    ASSUME Inv, NEW p \in Callers, NEW status \in Terminal, Record(call[p], p, status),
           status = "DENIED" \/ (Active /\ Current /\ BudgetAvailable /\ Kind[call[p]] = "read")
    PROVE  Inv' /\ AllLawful
  <1> DEFINE c == call[p]
  <1>0. c \in Calls /\ CallHolds(c) /\ row[c] = "none"
    BY Here DEF Record
  <1>1. /\ UNCHANGED <<op, pub, holder, receipt, prepared, branch, done, result>>
        /\ UNCHANGED <<run, stopping, attempt, files, index, gone>>
        /\ row' = [row EXCEPT ![c] = status]
        /\ pc' = [pc EXCEPT ![p] = "answered"] /\ told' = [told EXCEPT ![p] = status]
    BY DEF Record, Answer, control, worktree
  <1>2. TypeOK'
    BY <1>1 DEF Inv, TypeOK, Place, Ended
  <1>3. /\ pc'[p] = "answered" /\ told'[p] = status /\ row'[c] = status
        /\ OnlyCaller(p) /\ OnlyCall(c)
    BY <1>0, <1>1 DEF Inv, TypeOK, OnlyCaller, OnlyCall
  <1>4. /\ op[c] = "none" /\ pub[c] = "none" /\ receipt[c] = "none" /\ holder[c] = "none"
        /\ done[c] = 0
    BY <1>0 DEF CallHolds, CallOK, Fresh
  <1>5. CallHolds(c)'
    BY <1>1, <1>3, <1>4 DEF CallHolds, CallOK, Verdicts, Terminal, Repository, Fresh
  <1>6. PlaceHolds(p)'
    BY <1>3, AtRest DEF PlaceHolds, Resting
  <1> QED
    BY <1>0, <1>1, <1>2, <1>3, <1>4, <1>5, <1>6, FirstStep DEF Fresh

\* A fresh admission: the row, the intent and the lease in one unit of work.
LEMMA AdmitStep ==
    ASSUME Inv, NEW p \in Callers, Admit(call[p], p), Kind[call[p]] # "read"
    PROVE  Inv' /\ AllLawful
  <1> DEFINE c == call[p]
             snap == Kind[c] = "snapshot"
             x == IF snap THEN "reading" ELSE "admitted"
  <1>0. c \in Calls /\ CallHolds(c) /\ row[c] = "none" /\ Kind[c] \in Kinds \ {"read"}
        /\ Active /\ Current /\ BudgetAvailable
    BY Here DEF Admit, Admissible
  <1>1. /\ UNCHANGED <<pub, receipt, prepared, branch, done, result, told>>
        /\ UNCHANGED <<run, stopping, attempt, files, index, gone>>
        /\ row' = [row EXCEPT ![c] = "RUNNING"]
        /\ op' = [op EXCEPT ![c] = IF snap THEN "none" ELSE "PENDING"]
        /\ holder' = [holder EXCEPT ![c] = IF snap THEN "none" ELSE p]
        /\ pc' = [pc EXCEPT ![p] = x]
    BY DEF Admit, Reserve, Goto, control, worktree
  <1>2. TypeOK'
    BY <1>1 DEF Inv, TypeOK, Place, Unresolved
  <1>3. /\ pc'[p] = x /\ row'[c] = "RUNNING" /\ op'[c] = IF snap THEN "none" ELSE "PENDING"
        /\ holder'[c] = IF snap THEN "none" ELSE p
        /\ OnlyCaller(p) /\ OnlyCall(c)
    BY <1>0, <1>1 DEF Inv, TypeOK, OnlyCaller, OnlyCall
  <1>4. /\ op[c] = "none" /\ pub[c] = "none" /\ receipt[c] = "none" /\ holder[c] = "none"
        /\ done[c] = 0
    BY <1>0 DEF CallHolds, CallOK, Fresh
  <1>5. CallHolds(c)'
    BY <1>0, <1>1, <1>3, <1>4 DEF CallHolds, CallOK, Verdicts, Unresolved, Repository, Fresh, Kinds
  <1>6. PlaceHolds(p)'
    BY <1>0, <1>1, <1>3, <1>4
       DEF PlaceHolds, PlaceOK, Resting, WritePlace, CheckPlace, CommitPlace, Unresolved,
           Repository, Fresh, Kinds
  <1> QED
    BY <1>0, <1>1, <1>2, <1>3, <1>4, <1>5, <1>6, FirstStep DEF Fresh

\* Presenting a call: admitted, denied, answered, or left to wait or look.
LEMMA InvokeStep ==
    ASSUME Inv, NEW p \in Callers, Invoke(p)
    PROVE  Inv' /\ AllLawful
  <1> DEFINE c == call[p]
  <1>0. c \in Calls /\ pc[p] = "idle"
    BY Here DEF Invoke, InvokeRepositoryWrite, InvokeNamedCheck, InvokeGitCommit,
                InvokeSnapshot, InvokeRead
  <1>1. CASE Replay(c, p)
    BY <1>1, ReplayStep
  <1>2. CASE Raise(p)
    BY <1>2, RaiseStep DEF Raise
  <1>3. CASE Record(c, p, "DENIED")
    BY <1>3, RecordStep DEF Terminal
  <1>4. CASE Admit(c, p) /\ Kind[c] # "read"
    BY <1>4, AdmitStep
  <1>5. ASSUME NEW x \in {"observe", "wait", "reading"}, Goto(p, x), row[c] = "RUNNING",
               UNCHANGED <<control, records, worktree, budget>>,
               x = "observe" => Kind[c] \in Repository, x = "reading" => Kind[c] = "snapshot"
        PROVE  Inv' /\ AllLawful
    <2>1. x \in Place /\ x \notin Acting
      BY DEF Place, WritePlace, Acting, CheckPlace, CommitPlace
    <2>2. PlaceOK(x, result[p], Kind[c], row[c], op[c], pub[c], receipt[c], done[c])
      BY <1>5 DEF PlaceOK, Fresh, Resting, WritePlace, CheckPlace, CommitPlace
    <2> QED
      BY <1>5, <2>1, <2>2, GotoStep
  <1>6. CASE InvokeRepositoryWrite(p)
    BY <1>0, <1>1, <1>2, <1>3, <1>4, <1>5, <1>6
       DEF InvokeRepositoryWrite, Deny, RecordWriteDenial, WriteReplay, Repository
  <1>7. CASE InvokeNamedCheck(p)
    BY <1>0, <1>1, <1>2, <1>3, <1>4, <1>5, <1>7
       DEF InvokeNamedCheck, NamedReplay, JoinOrWatch, Deny, RecordWriteDenial
  <1>8. CASE InvokeGitCommit(p)
    BY <1>0, <1>1, <1>2, <1>3, <1>4, <1>5, <1>8
       DEF InvokeGitCommit, GitReplay, JoinOrWatch, Deny, RecordWriteDenial
  <1>9. CASE InvokeSnapshot(p)
    BY <1>0, <1>1, <1>2, <1>3, <1>4, <1>5, <1>9
       DEF InvokeSnapshot, RecordSubscriptionDenial
  <1>10. CASE InvokeRead(p)
    <2>1. ASSUME Admissible(c), NEW status \in Dispatch, Record(c, p, status), Kind[c] = "read"
          PROVE  Inv' /\ AllLawful
      <3>1. row[c] = "none" /\ Active /\ Current /\ BudgetAvailable /\ status \in Terminal
        BY <2>1 DEF Record, Admissible, Dispatch, Terminal
      <3> QED
        BY <2>1, <3>1, RecordStep
    <2> QED
      BY <1>0, <1>1, <1>2, <1>3, <1>10, <2>1 DEF InvokeRead, RecordSubscriptionDenial
  <1> QED
    BY <1>6, <1>7, <1>8, <1>9, <1>10 DEF Invoke

\* A duplicate is answered by the row it watches, or gives up.
LEMMA WatchStep ==
    ASSUME Inv, NEW p \in Callers, Watch(p)
    PROVE  Inv' /\ AllLawful
  BY ReplayStep, RaiseStep DEF Watch, Raise

----------------------------------------------------------------------------
(* Repository writes.                                                      *)

\* The executor of a new intent invokes or, without its lease, looks.
LEMMA ExecuteWriteStep ==
    ASSUME Inv, NEW p \in Callers, ExecuteWrite(p)
    PROVE  Inv' /\ AllLawful
  <1> DEFINE c == call[p]
  <1>0. PICK x \in {"invoke", "observe"} :
            /\ Goto(p, x) /\ UNCHANGED <<control, records, worktree, budget>>
            /\ pc[p] = "admitted" /\ Kind[c] \in Repository
    BY DEF ExecuteWrite, Repository
  <1>1. x \in Place /\ pc[p] \in Acting
    BY <1>0 DEF Place, WritePlace, Acting
  <1>2. PlaceOK(pc[p], result[p], Kind[c], row[c], op[c], pub[c], receipt[c], done[c])
    BY Here DEF PlaceHolds
  <1>3. PlaceOK(x, result[p], Kind[c], row[c], op[c], pub[c], receipt[c], done[c])
    BY <1>0, <1>2 DEF PlaceOK, Fresh, Resting, WritePlace, CheckPlace, CommitPlace
  <1> QED
    BY <1>0, <1>1, <1>3, GotoStep

\* The file changes once: nothing was done for the call before, and only its
\* actor is here.
LEMMA WriteFileStep ==
    ASSUME Inv, NEW p \in Callers, WriteFile(p)
    PROVE  Inv' /\ AllLawful
  <1> DEFINE c == call[p]
  <1>0. /\ c \in Calls /\ pc[p] = "invoke" /\ Kind[c] \in Repository
        /\ PlaceOK("invoke", result[p], Kind[c], row[c], op[c], pub[c], receipt[c], done[c])
        /\ CallOK(Kind[c], row[c], op[c], pub[c], holder[c], receipt[c], done[c])
    BY Here DEF PlaceHolds, CallHolds, WriteFile, Repository
  <1>a. pc[p] \in Acting
    BY <1>0 DEF Acting
  <1>1. CASE Goto(p, "unsure") /\ UNCHANGED <<control, records, worktree, budget>>
    <2>1. PlaceOK("unsure", result[p], Kind[c], row[c], op[c], pub[c], receipt[c], done[c])
      BY <1>0 DEF PlaceOK, Fresh, Resting, WritePlace, CheckPlace, CommitPlace
    <2>2. "unsure" \in Place
      BY DEF Place, WritePlace
    <2> QED
      BY <1>1, <1>a, <2>1, <2>2, GotoStep
  <1>2. ASSUME NEW x \in {"applied", "unsure"}, Goto(p, x), files' = files + 1,
               done' = [done EXCEPT ![c] = @ + 1],
               UNCHANGED <<control, records, prepared, index, branch, budget>>
        PROVE  Inv' /\ AllLawful
    <2>1. /\ UNCHANGED <<row, op, pub, holder, receipt, prepared, branch, result, told>>
          /\ UNCHANGED <<run, stopping, attempt, index, gone>>
          /\ pc' = [pc EXCEPT ![p] = x]
      BY <1>2 DEF Goto, control, records
    <2>a. files \in Nat /\ done \in [Calls -> Nat] /\ pc \in [Callers -> Place] /\ x \in Place
      BY DEF Inv, TypeOK, Place, WritePlace
    <2>b. files' \in Nat /\ done' \in [Calls -> Nat] /\ pc' \in [Callers -> Place]
      BY <1>0, <1>2, <2>1, <2>a
    <2>2. TypeOK'
      BY <2>b, <2>1 DEF Inv, TypeOK
    <2>3. /\ done[c] = 0 /\ row[c] \notin Terminal /\ op[c] # "SUCCEEDED"
          /\ pub[c] = "none" /\ receipt[c] = "none"
      BY <1>0 DEF PlaceOK, CallOK, Terminal, Verdicts, Fresh, Resting
    <2>4. /\ pc'[p] = x /\ done'[c] = 1
          /\ OnlyCaller(p) /\ OnlyCall(c) /\ Settling(c) /\ Lawful(c)
      BY <1>0, <1>2, <2>1, <2>3 DEF Inv, TypeOK, OnlyCaller, OnlyCall, Settling, Lawful
    <2>5. CallHolds(c)'
      BY <1>0, <2>1, <2>3, <2>4 DEF CallHolds, CallOK, Repository, PlaceOK, Resting
    <2>6. PlaceHolds(p)'
      BY <1>0, <2>1, <2>4 DEF PlaceHolds, PlaceOK, Resting, Fresh, WritePlace, CheckPlace, CommitPlace
    <2>7. BranchHolds'
      BY <1>0, <2>1, <2>3, <2>4, BranchKept DEF BranchFrame
    <2> QED
      BY <1>0, <1>a, <2>1, <2>2, <2>4, <2>5, <2>6, <2>7, ActorStep
  <1> QED
    BY <1>1, <1>2 DEF WriteFile, worktree

\* The live owner stores what it knows of its write.
LEMMA StoreWriteStep ==
    ASSUME Inv, NEW p \in Callers, StoreWrite(p)
    PROVE  Inv' /\ AllLawful
  <1> DEFINE c == call[p]
  <1>0. /\ c \in Calls /\ pc[p] \in {"applied", "unsure"} /\ p # "none"
        /\ PlaceOK(pc[p], result[p], Kind[c], row[c], op[c], pub[c], receipt[c], done[c])
        /\ CallOK(Kind[c], row[c], op[c], pub[c], holder[c], receipt[c], done[c])
    BY Here DEF PlaceHolds, CallHolds, StoreWrite
  <1>a. pc[p] \in Acting /\ Kind[c] \in Repository /\ row[c] \notin Fresh /\ pub[c] = "none"
        /\ receipt[c] = "none"
    BY <1>0 DEF Acting, PlaceOK, CallOK, WritePlace, Resting, Repository
  <1>1. CASE Goto(p, "raised") /\ UNCHANGED <<control, records, worktree, budget>>
    BY <1>1, RaiseStep
  <1>2. CASE Goto(p, "proved") /\ op[c] = "SUCCEEDED" /\ UNCHANGED <<control, records, worktree, budget>>
    <2>1. PlaceOK("proved", result[p], Kind[c], row[c], op[c], pub[c], receipt[c], done[c])
      BY <1>a, <1>2 DEF PlaceOK, Resting, WritePlace, CheckPlace, CommitPlace
    <2>2. "proved" \in Place
      BY DEF Place, WritePlace
    <2> QED
      BY <1>2, <1>a, <2>1, <2>2, GotoStep
  <1>3. ASSUME NEW o \in {"SUCCEEDED", "NEEDS_RECONCILIATION"}, NEW x \in {"proved", "raised"},
               op' = [op EXCEPT ![c] = o], holder' = [holder EXCEPT ![c] = "none"],
               Goto(p, x), Held(c, p), UNCHANGED <<row, pub, receipt, control, worktree>>,
               o = "SUCCEEDED" => pc[p] = "applied", x = "proved" => o = "SUCCEEDED"
        PROVE  Inv' /\ AllLawful
    <2>1. /\ UNCHANGED <<row, pub, receipt, prepared, branch, done, result, told>>
          /\ UNCHANGED <<run, stopping, attempt, files, index, gone>>
          /\ pc' = [pc EXCEPT ![p] = x]
      BY <1>3 DEF Goto, control, worktree
    <2>2. TypeOK'
      BY <1>3, <2>1 DEF Inv, TypeOK, Place, WritePlace, Ended, Unresolved
    <2>3. op[c] \in Unresolved
      BY <1>0, <1>3, <1>a DEF CallOK, Held, Unresolved
    <2>4. /\ pc'[p] = x /\ op'[c] = o /\ holder'[c] = "none"
          /\ OnlyCaller(p) /\ OnlyCall(c) /\ Settling(c) /\ Lawful(c)
      BY <1>0, <1>3, <2>1 DEF Inv, TypeOK, OnlyCaller, OnlyCall, Settling, Lawful
    <2>5. CallHolds(c)'
      BY <1>0, <1>3, <1>a, <2>1, <2>3, <2>4
         DEF CallHolds, CallOK, PlaceOK, Repository, Fresh, Unresolved
    <2>6. PlaceHolds(p)'
      BY <1>0, <1>3, <1>a, <2>1, <2>4 DEF PlaceHolds, PlaceOK, Resting, WritePlace, CheckPlace, CommitPlace
    <2>7. BranchHolds'
      BY <1>0, <2>1, <2>4, BranchKept DEF BranchFrame
    <2> QED
      BY <1>0, <1>a, <2>1, <2>2, <2>3, <2>4, <2>5, <2>6, <2>7, ActorStep DEF Unresolved
  <1>4. CASE pc[p] = "applied" /\ Held(c, p) /\ CompleteOp(c) /\ Goto(p, "proved")
             /\ UNCHANGED <<pub, row, receipt, control, worktree>>
    BY <1>3, <1>4 DEF CompleteOp
  <1>5. CASE pc[p] = "unsure" /\ Held(c, p) /\ LeaveUnresolved(c) /\ Goto(p, "raised")
             /\ UNCHANGED <<control, worktree>>
    BY <1>3, <1>5, <1>a DEF LeaveUnresolved, Unresolved
  <1> QED
    BY <1>1, <1>2, <1>4, <1>5 DEF StoreWrite, control, worktree, records

\* An observer claims an intent nobody holds and records what it sees; the
\* actor of the call, if there still is one, has not finished.
LEMMA ObserveWriteStep ==
    ASSUME Inv, NEW p \in Callers, ObserveWrite(p)
    PROVE  Inv' /\ AllLawful
  <1> DEFINE c == call[p]
  <1>0. /\ c \in Calls /\ pc[p] = "observe" /\ Kind[c] \in Repository /\ row[c] \notin Fresh
        /\ CallOK(Kind[c], row[c], op[c], pub[c], holder[c], receipt[c], done[c])
        /\ pub[c] = "none" /\ receipt[c] = "none"
    BY Here DEF PlaceHolds, PlaceOK, CallHolds, CallOK, ObserveWrite, WritePlace, Resting
  <1>1. CASE Goto(p, "proved") /\ op[c] = "SUCCEEDED" /\ UNCHANGED <<control, records, worktree, budget>>
    <2>1. PlaceOK("proved", result[p], Kind[c], row[c], op[c], pub[c], receipt[c], done[c])
      BY <1>0, <1>1 DEF PlaceOK, Resting, WritePlace, CheckPlace, CommitPlace
    <2>2. "proved" \in Place /\ "proved" \notin Acting
      BY DEF Place, WritePlace, Acting, CheckPlace, CommitPlace
    <2> QED
      BY <1>1, <2>1, <2>2, GotoStep
  <1>2. ASSUME NEW o \in {"SUCCEEDED", "NEEDS_RECONCILIATION"}, NEW x \in {"proved", "raised"},
               op' = [op EXCEPT ![c] = o], holder' = [holder EXCEPT ![c] = "none"],
               Goto(p, x), op[c] \in Unresolved, UNCHANGED <<row, pub, receipt, control, worktree>>,
               o = "SUCCEEDED" => done[c] > 0, x = "proved" => o = "SUCCEEDED"
        PROVE  Inv' /\ AllLawful
    <2>1. /\ UNCHANGED <<row, pub, receipt, prepared, branch, done, result, told>>
          /\ UNCHANGED <<run, stopping, attempt, files, index, gone>>
          /\ pc' = [pc EXCEPT ![p] = x]
      BY <1>2 DEF Goto, control, worktree
    <2>2. TypeOK'
      BY <1>2, <2>1 DEF Inv, TypeOK, Place, WritePlace, Ended, Unresolved
    <2>4. /\ pc'[p] = x /\ op'[c] = o /\ holder'[c] = "none"
          /\ OnlyCaller(p) /\ OnlyCall(c) /\ Settling(c) /\ Lawful(c)
      BY <1>0, <1>2, <2>1 DEF Inv, TypeOK, OnlyCaller, OnlyCall, Settling, Lawful
    <2>5. CallHolds(c)'
      BY <1>0, <1>2, <2>1, <2>4 DEF CallHolds, CallOK, Repository, Fresh, Unresolved
    <2>6. PlaceHolds(p)'
      BY <1>0, <1>2, <2>1, <2>4 DEF PlaceHolds, PlaceOK, Resting, WritePlace, CheckPlace, CommitPlace
    <2>7. ASSUME NEW q \in Callers, q # p, call[q] = c
          PROVE  PlaceHolds(q)'
      <3>1. PlaceOK(pc[q], result[q], Kind[c], row[c], op[c], pub[c], receipt[c], done[c])
        BY <2>7, Here DEF PlaceHolds
      <3>2. PlaceOK(pc[q], result[q], Kind[c], row[c], o, pub[c], receipt[c], done[c])
        BY <3>1, <1>0, <1>2 DEF PlaceOK, Repository, Unresolved, WritePlace, CheckPlace, CommitPlace, CallOK
      <3> QED
        BY <2>1, <2>4, <2>7, <3>2 DEF PlaceHolds, OnlyCaller
    <2>8. BranchHolds'
      BY <1>0, <2>1, <2>4, BranchKept DEF BranchFrame
    <2>9. \A q \in Callers :
            \/ pc'[q] = pc[q] /\ result'[q] = result[q] /\ told'[q] = told[q]
            \/ call[q] = c /\ pc'[q] \notin Acting /\ (told'[q] = told[q] \/ told'[q] = row'[c])
      BY <2>1, <2>4 DEF OnlyCaller, Acting, CheckPlace, CommitPlace
    <2>10. \A q \in Callers : call[q] = c => PlaceHolds(q)'
      BY <2>6, <2>7
    <2> QED
      BY <1>0, <2>2, <2>4, <2>5, <2>8, <2>9, <2>10, QuietStep
  <1>3. CASE op[c] \in Unresolved /\ ReconcileWrite(c) /\ CompleteOp(c) /\ Goto(p, "proved")
             /\ UNCHANGED <<pub, row, receipt, control, worktree>>
    BY <1>2, <1>3 DEF CompleteOp, ReconcileWrite
  <1>4. CASE op[c] \in Unresolved /\ LeaveUnresolved(c) /\ Goto(p, "raised")
             /\ UNCHANGED <<control, worktree>>
    BY <1>0, <1>2, <1>4 DEF LeaveUnresolved, Unresolved
  <1> QED
    BY <1>1, <1>3, <1>4 DEF ObserveWrite, control, worktree, records

\* A verdict for a call whose outcome is known, by whoever brings it: the row
\* alone changes.  The actor of the call relies on its being RUNNING only where
\* the outcome is not known yet.
LEMMA VerdictStep ==
    ASSUME Inv, TypeOK', NEW c \in Calls, NEW v \in Verdicts,
           row[c] = "RUNNING", row' = [row EXCEPT ![c] = v],
           UNCHANGED <<op, pub, holder, receipt, prepared, branch, done, result>>,
           CallOK(Kind[c], v, op[c], pub[c], holder[c], receipt[c], done[c]),
           \A q \in Callers : call[q] = c =>
                pc[q] \notin {"admitted", "launch", "ran", "unprepared", "prepared", "publish", "committing"},
           \A q \in Callers :
                \/ pc'[q] = pc[q] /\ told'[q] = told[q]
                \/ call[q] = c /\ pc'[q] \in Resting /\ (told'[q] = told[q] \/ told'[q] = v)
    PROVE  Inv' /\ AllLawful
  <1>1. row'[c] = v /\ OnlyCall(c) /\ Settling(c) /\ Lawful(c) /\ CallHolds(c)'
    BY DEF Inv, TypeOK, OnlyCall, Settling, Lawful, CallHolds, Terminal, Verdicts
  <1>2. ASSUME NEW q \in Callers, call[q] = c
        PROVE  PlaceHolds(q)'
    <2>1. CASE pc'[q] \in Resting
      BY <2>1, AtRest DEF PlaceHolds
    <2>2. CASE pc'[q] = pc[q]
      <3>1. PlaceOK(pc[q], result[q], Kind[c], row[c], op[c], pub[c], receipt[c], done[c])
        BY <1>2, Here DEF PlaceHolds
      <3>2. PlaceOK(pc[q], result[q], Kind[c], v, op[c], pub[c], receipt[c], done[c])
        BY <1>2, <3>1 DEF PlaceOK, Fresh, Verdicts
      <3> QED
        BY <1>1, <1>2, <2>2, <3>2 DEF PlaceHolds
    <2> QED
      BY <2>1, <2>2
  <1>3. BranchHolds'
    BY <1>1, BranchKept DEF BranchFrame
  <1>4. \A q \in Callers :
            \/ pc'[q] = pc[q] /\ result'[q] = result[q] /\ told'[q] = told[q]
            \/ call[q] = c /\ pc'[q] \notin Acting /\ (told'[q] = told[q] \/ told'[q] = row'[c])
    BY <1>1 DEF Resting, Acting, CheckPlace, CommitPlace
  <1> QED
    BY <1>1, <1>2, <1>3, <1>4, QuietStep

\* A proved write gets its verdict, or the one it already has.
LEMMA CompleteRepositoryWriteStep ==
    ASSUME Inv, NEW p \in Callers, CompleteRepositoryWrite(p)
    PROVE  Inv' /\ AllLawful
  <1> DEFINE c == call[p]
  <1>0. /\ c \in Calls /\ pc[p] = "proved" /\ Kind[c] \in Repository /\ op[c] = "SUCCEEDED"
        /\ CallOK(Kind[c], row[c], op[c], pub[c], holder[c], receipt[c], done[c])
    BY Here DEF PlaceHolds, PlaceOK, CallHolds, CompleteRepositoryWrite, WritePlace
  <1>1. CASE WriteReplay(c, p)
    BY <1>1, ReplayStep DEF WriteReplay
  <1>2. CASE Finalize(c, "SUCCEEDED") /\ Answer(p, "SUCCEEDED")
             /\ UNCHANGED <<control, op, pub, holder, receipt, worktree, budget>>
    <2>1. /\ row[c] = "RUNNING" /\ row' = [row EXCEPT ![c] = "SUCCEEDED"]
          /\ UNCHANGED <<op, pub, holder, receipt, prepared, branch, done, result>>
          /\ UNCHANGED <<run, stopping, attempt, files, index, gone>>
          /\ pc' = [pc EXCEPT ![p] = "answered"] /\ told' = [told EXCEPT ![p] = "SUCCEEDED"]
      BY <1>2 DEF Finalize, Answer, control, worktree
    <2>2. TypeOK'
      BY <2>1 DEF Inv, TypeOK, Place, Ended, Terminal
    <2>3. CallOK(Kind[c], "SUCCEEDED", op[c], pub[c], holder[c], receipt[c], done[c])
      BY <1>0, <2>1 DEF CallOK, Repository, Fresh, Verdicts
    <2>4. ASSUME NEW q \in Callers, call[q] = c
          PROVE  pc[q] \notin {"admitted", "launch", "ran", "unprepared", "prepared", "publish", "committing"}
      <3>1. PlaceOK(pc[q], result[q], Kind[c], row[c], op[c], pub[c], receipt[c], done[c])
        BY <2>4, Here DEF PlaceHolds
      <3> QED
        BY <3>1, <1>0 DEF PlaceOK, Repository, CheckPlace, CommitPlace, Unresolved
    <2>5. \A q \in Callers :
            \/ pc'[q] = pc[q] /\ told'[q] = told[q]
            \/ call[q] = c /\ pc'[q] \in Resting /\ (told'[q] = told[q] \/ told'[q] = "SUCCEEDED")
      BY <2>1 DEF Inv, TypeOK, Resting
    <2> QED
      BY <1>0, <2>1, <2>2, <2>3, <2>4, <2>5, VerdictStep DEF Verdicts
  <1> QED
    BY <1>1, <1>2 DEF CompleteRepositoryWrite

----------------------------------------------------------------------------
(* Named checks.                                                           *)

\* A receipt stands for a verdict.
LEMMA NamedVerdict == \A k : NamedResult(k) \in Verdicts
  BY DEF NamedResult, Verdicts

\* The intent's outcome, the receipt and the verdict are stored together.
LEMMA CompleteNamedStep ==
    ASSUME Inv, NEW p \in Callers, NEW kept \in Outcome \ {"none"}, Kind[call[p]] = "check",
           CompleteNamed(call[p], p, kept), UNCHANGED <<pub, control, worktree, budget>>,
           \/ pc[p] = "admitted" /\ kept = "unlaunched"
           \/ pc[p] = "kept" /\ kept = result[p]
    PROVE  Inv' /\ AllLawful
  <1> DEFINE c == call[p]
             v == NamedResult(kept)
  <1>0. /\ c \in Calls
        /\ PlaceOK(pc[p], result[p], Kind[c], row[c], op[c], pub[c], receipt[c], done[c])
        /\ CallOK(Kind[c], row[c], op[c], pub[c], holder[c], receipt[c], done[c])
    BY Here DEF PlaceHolds, CallHolds
  <1>1. /\ row[c] = "RUNNING" /\ row' = [row EXCEPT ![c] = v]
        /\ op' = [op EXCEPT ![c] = "SUCCEEDED"] /\ holder' = [holder EXCEPT ![c] = "none"]
        /\ receipt' = [receipt EXCEPT ![c] = kept]
        /\ UNCHANGED <<pub, prepared, branch, done, result>>
        /\ UNCHANGED <<run, stopping, attempt, files, index, gone>>
        /\ pc' = [pc EXCEPT ![p] = "answered"] /\ told' = [told EXCEPT ![p] = v]
    BY DEF CompleteNamed, Finalize, CompleteOp, Answer, control, worktree
  <1>2. v \in Verdicts /\ v = NamedResult(kept)
    BY NamedVerdict
  <1> HIDE DEF v
  <1>3. TypeOK'
    BY <1>1, <1>2 DEF Inv, TypeOK, Place, Ended, Terminal, Verdicts
  <1>4. /\ pc'[p] = "answered" /\ told'[p] = v /\ row'[c] = v /\ op'[c] = "SUCCEEDED"
        /\ holder'[c] = "none" /\ receipt'[c] = kept
        /\ OnlyCaller(p) /\ OnlyCall(c) /\ Settling(c) /\ Lawful(c)
    BY <1>0, <1>1, <1>2 DEF Inv, TypeOK, OnlyCaller, OnlyCall, Settling, Lawful, Terminal, Verdicts
  <1>5. done[c] = Launched(kept) /\ done[c] \in {0, 1} /\ pub[c] = "none"
    BY <1>0 DEF PlaceOK, CallOK, Launched
  <1>6. CallHolds(c)'
    BY <1>1, <1>2, <1>4, <1>5 DEF CallHolds, CallOK, Fresh, Verdicts, Repository, Unresolved
  <1>7. PlaceHolds(p)'
    BY <1>4, AtRest DEF PlaceHolds, Resting
  <1>8. BranchHolds'
    BY <1>0, <1>1, <1>4, BranchKept DEF BranchFrame
  <1>9. pc[p] \in Acting
    BY DEF Acting, CheckPlace
  <1> QED
    BY <1>0, <1>3, <1>4, <1>6, <1>7, <1>8, <1>9, ActorStep

\* The preflight ends the call, launches its command, or gives up.
LEMMA PreflightStep ==
    ASSUME Inv, NEW p \in Callers, Preflight(p)
    PROVE  Inv' /\ AllLawful
  <1> DEFINE c == call[p]
  <1>0. /\ c \in Calls /\ pc[p] = "admitted" /\ Kind[c] = "check"
        /\ UNCHANGED <<control, worktree, budget>>
        /\ PlaceOK(pc[p], result[p], Kind[c], row[c], op[c], pub[c], receipt[c], done[c])
    BY Here DEF PlaceHolds, Preflight
  <1>1. CASE CompleteNamed(c, p, "unlaunched") /\ UNCHANGED pub
    BY <1>0, <1>1, CompleteNamedStep DEF Outcome
  <1>2. CASE Goto(p, "raised") /\ UNCHANGED records
    BY <1>0, <1>2, RaiseStep
  <1>3. CASE Goto(p, "launch") /\ UNCHANGED records
    <2>1. PlaceOK("launch", result[p], Kind[c], row[c], op[c], pub[c], receipt[c], done[c])
      BY <1>0 DEF PlaceOK, Resting, Fresh, WritePlace, CheckPlace, CommitPlace
    <2>2. "launch" \in Place /\ pc[p] \in Acting
      BY <1>0 DEF Place, CheckPlace, Acting
    <2> QED
      BY <1>0, <1>3, <2>1, <2>2, GotoStep
  <1> QED
    BY <1>1, <1>2, <1>3 DEF Preflight

\* The command of a check is launched once.
LEMMA RunCheckStep ==
    ASSUME Inv, NEW p \in Callers, RunCheck(p)
    PROVE  Inv' /\ AllLawful
  <1> DEFINE c == call[p]
  <1>0. /\ c \in Calls /\ pc[p] = "launch"
        /\ PlaceOK("launch", result[p], Kind[c], row[c], op[c], pub[c], receipt[c], done[c])
        /\ CallOK(Kind[c], row[c], op[c], pub[c], holder[c], receipt[c], done[c])
        /\ UNCHANGED <<row, op, pub, holder, receipt, prepared, branch, told>>
        /\ UNCHANGED <<run, stopping, attempt, files, index, gone>>
        /\ pc' = [pc EXCEPT ![p] = "ran"]
    BY Here DEF PlaceHolds, CallHolds, RunCheck, control, records
  <1>1. /\ row[c] = "RUNNING" /\ done[c] = 0 /\ pub[c] = "none" /\ receipt[c] = "none"
        /\ op[c] \in Unresolved /\ Kind[c] = "check"
    BY <1>0 DEF PlaceOK, CheckPlace
  <1>2. PICK v \in Outcome \ {"none"} :
            /\ result' = [result EXCEPT ![p] = v]
            /\ done' = [done EXCEPT ![c] = Launched(v)]
    <2>0. done \in [Calls -> Nat]
      BY DEF Inv, TypeOK
    <2>1. CASE result' = [result EXCEPT ![p] = "unlaunched"] /\ UNCHANGED done
      <3>1. done' = [done EXCEPT ![c] = Launched("unlaunched")]
        BY <1>0, <1>1, <2>0, <2>1 DEF Launched
      <3> QED
        BY <2>1, <3>1 DEF Outcome
    <2>2. ASSUME NEW v \in {"passed", "failed", "stopped"}, result' = [result EXCEPT ![p] = v],
                 done' = [done EXCEPT ![c] = @ + 1]
          PROVE  done' = [done EXCEPT ![c] = Launched(v)] /\ v \in Outcome \ {"none"}
      <3>1. Launched(v) = 1 /\ v \in Outcome \ {"none"}
        BY DEF Launched, Outcome
      <3>2. done[c] + 1 = 1
        BY <1>1
      <3> QED
        BY <2>2, <3>1, <3>2
    <2> QED
      BY <2>1, <2>2 DEF RunCheck
  <1> DEFINE n == Launched(v)
  <1>3. n \in {0, 1} /\ n \in Nat /\ n = Launched(v)
    BY DEF Launched
  <1> HIDE DEF n
  <1>4. TypeOK'
    <2>1. done' \in [Calls -> Nat] /\ result' \in [Callers -> Outcome] /\ pc' \in [Callers -> Place]
      BY <1>0, <1>2, <1>3 DEF Inv, TypeOK, Place, CheckPlace, n
    <2> QED
      BY <1>0, <2>1 DEF Inv, TypeOK
  <1>5. /\ pc'[p] = "ran" /\ result'[p] = v /\ done'[c] = n
        /\ OnlyCaller(p) /\ OnlyCall(c) /\ Settling(c) /\ Lawful(c)
    BY <1>0, <1>1, <1>2 DEF Inv, TypeOK, OnlyCaller, OnlyCall, Settling, Lawful, Terminal, n
  <1>6. CallHolds(c)'
    BY <1>0, <1>1, <1>3, <1>5 DEF CallHolds, CallOK, Fresh, Verdicts, Repository, Unresolved
  <1>7. PlaceHolds(p)'
    BY <1>0, <1>1, <1>2, <1>3, <1>5 DEF PlaceHolds, PlaceOK, Fresh, Resting, WritePlace, CheckPlace, CommitPlace
  <1>8. BranchHolds'
    BY <1>0, <1>1, <1>5, BranchKept DEF BranchFrame
  <1>9. pc[p] \in Acting
    BY <1>0 DEF Acting, CheckPlace
  <1> QED
    BY <1>0, <1>4, <1>5, <1>6, <1>7, <1>8, <1>9, ActorStep

\* The receipt is kept before the call is settled.
LEMMA PersistReceiptStep ==
    ASSUME Inv, NEW p \in Callers, PersistReceipt(p)
    PROVE  Inv' /\ AllLawful
  <1> DEFINE c == call[p]
  <1>0. /\ c \in Calls /\ pc[p] = "ran" /\ result[p] \in Outcome
        /\ PlaceOK("ran", result[p], Kind[c], row[c], op[c], pub[c], receipt[c], done[c])
        /\ CallOK(Kind[c], row[c], op[c], pub[c], holder[c], receipt[c], done[c])
        /\ UNCHANGED <<row, op, pub, holder, prepared, branch, done, result, told>>
        /\ UNCHANGED <<run, stopping, attempt, files, index, gone>>
        /\ receipt' = [receipt EXCEPT ![c] = result[p]] /\ pc' = [pc EXCEPT ![p] = "kept"]
    BY Here DEF PlaceHolds, CallHolds, PersistReceipt, Goto, control, worktree, Inv, TypeOK
  <1>1. /\ row[c] = "RUNNING" /\ done[c] = Launched(result[p]) /\ pub[c] = "none"
        /\ op[c] \in Unresolved /\ Kind[c] = "check" /\ result[p] # "none"
    BY <1>0 DEF PlaceOK, CheckPlace
  <1>2. TypeOK'
    BY <1>0 DEF Inv, TypeOK, Place, CheckPlace
  <1>3. /\ pc'[p] = "kept" /\ receipt'[c] = result[p]
        /\ OnlyCaller(p) /\ OnlyCall(c) /\ Settling(c) /\ Lawful(c)
    BY <1>0 DEF Inv, TypeOK, OnlyCaller, OnlyCall, Settling, Lawful
  <1>4. CallHolds(c)'
    BY <1>0, <1>1, <1>3 DEF CallHolds, CallOK, Fresh, Verdicts, Repository, Unresolved
  <1>5. PlaceHolds(p)'
    BY <1>0, <1>1, <1>3 DEF PlaceHolds, PlaceOK, Fresh, Resting, WritePlace, CheckPlace, CommitPlace
  <1>6. BranchHolds'
    BY <1>0, <1>3, BranchKept DEF BranchFrame
  <1>7. pc[p] \in Acting
    BY <1>0 DEF Acting, CheckPlace
  <1> QED
    BY <1>0, <1>2, <1>3, <1>4, <1>5, <1>6, <1>7, ActorStep

\* The settlement of a call that is still RUNNING.
LEMMA SettleNamedCheckStep ==
    ASSUME Inv, NEW p \in Callers, SettleNamedCheck(p)
    PROVE  Inv' /\ AllLawful
  <1> DEFINE c == call[p]
  <1>0. /\ c \in Calls /\ pc[p] = "kept" /\ UNCHANGED <<control, worktree, budget>>
        /\ PlaceOK("kept", result[p], Kind[c], row[c], op[c], pub[c], receipt[c], done[c])
        /\ result[p] \in Outcome
    BY Here DEF PlaceHolds, SettleNamedCheck, Inv, TypeOK
  <1>1. Kind[c] = "check" /\ result[p] \in Outcome \ {"none"}
    BY <1>0 DEF PlaceOK, CheckPlace
  <1>2. CASE CompleteNamed(c, p, result[p]) /\ UNCHANGED pub
    BY <1>0, <1>1, <1>2, CompleteNamedStep
  <1>3. CASE Goto(p, "raised") /\ UNCHANGED records
    BY <1>0, <1>3, RaiseStep
  <1> QED
    BY <1>2, <1>3 DEF SettleNamedCheck

----------------------------------------------------------------------------
(* Snapshots.                                                              *)

\* Reading changes only what the reader knows.
LEMMA ReadSnapshotStep ==
    ASSUME Inv, NEW p \in Callers, ReadSnapshot(p)
    PROVE  Inv' /\ AllLawful
  <1> DEFINE c == call[p]
  <1>0. PICK v \in {"passed", "failed"} :
        /\ c \in Calls /\ pc[p] = "reading"
        /\ PlaceOK("reading", result[p], Kind[c], row[c], op[c], pub[c], receipt[c], done[c])
        /\ CallHolds(c)
        /\ UNCHANGED <<row, op, pub, holder, receipt, prepared, branch, done, told>>
        /\ UNCHANGED <<run, stopping, attempt, files, index, gone>>
        /\ pc' = [pc EXCEPT ![p] = "read"] /\ result' = [result EXCEPT ![p] = v]
    BY Here DEF PlaceHolds, ReadSnapshot, control, records, worktree
  <1>1. TypeOK'
    BY <1>0 DEF Inv, TypeOK, Place, Outcome
  <1>2. /\ pc'[p] = "read" /\ OnlyCaller(p) /\ OnlyCall(c) /\ Settling(c) /\ Lawful(c)
        /\ CallHolds(c)'
    BY <1>0 DEF Inv, TypeOK, OnlyCaller, OnlyCall, Settling, Lawful, CallHolds
  <1>3. PlaceHolds(p)'
    BY <1>0, <1>2 DEF PlaceHolds, PlaceOK, Resting, WritePlace, CheckPlace, CommitPlace
  <1>4. \A q \in Callers : call[q] = c => PlaceHolds(q)'
    BY <1>0, <1>2, <1>3 DEF Inv, PlacesHold, PlaceHolds, OnlyCaller
  <1>5. BranchHolds'
    BY <1>0, <1>2, BranchKept DEF BranchFrame
  <1>6. \A q \in Callers :
            \/ pc'[q] = pc[q] /\ result'[q] = result[q] /\ told'[q] = told[q]
            \/ call[q] = c /\ pc'[q] \notin Acting /\ (told'[q] = told[q] \/ told'[q] = row'[c])
    BY <1>0, <1>2 DEF OnlyCaller, Acting, CheckPlace, CommitPlace
  <1> QED
    BY <1>0, <1>1, <1>2, <1>4, <1>5, <1>6, QuietStep

\* A snapshot that was read gets its verdict, or the one it already has.
LEMMA CompleteSnapshotStep ==
    ASSUME Inv, NEW p \in Callers, CompleteSnapshot(p)
    PROVE  Inv' /\ AllLawful
  <1> DEFINE c == call[p]
  <1>0. /\ c \in Calls /\ pc[p] = "read" /\ Kind[c] = "snapshot"
        /\ CallOK(Kind[c], row[c], op[c], pub[c], holder[c], receipt[c], done[c])
    BY Here DEF PlaceHolds, PlaceOK, CallHolds, CompleteSnapshot
  <1>1. CASE Replay(c, p)
    BY <1>1, ReplayStep
  <1>2. ASSUME NEW v \in Verdicts, Finalize(c, v), Answer(p, v),
               UNCHANGED <<control, op, pub, holder, receipt, worktree, budget>>
        PROVE  Inv' /\ AllLawful
    <2>1. /\ row[c] = "RUNNING" /\ row' = [row EXCEPT ![c] = v]
          /\ UNCHANGED <<op, pub, holder, receipt, prepared, branch, done, result>>
          /\ UNCHANGED <<run, stopping, attempt, files, index, gone>>
          /\ pc' = [pc EXCEPT ![p] = "answered"] /\ told' = [told EXCEPT ![p] = v]
      BY <1>2 DEF Finalize, Answer, control, worktree
    <2>2. TypeOK'
      BY <2>1 DEF Inv, TypeOK, Place, Ended, Terminal, Verdicts
    <2>3. CallOK(Kind[c], v, op[c], pub[c], holder[c], receipt[c], done[c])
      BY <1>0, <2>1 DEF CallOK, Repository, Fresh, Verdicts
    <2>4. ASSUME NEW q \in Callers, call[q] = c
          PROVE  pc[q] \notin {"admitted", "launch", "ran", "unprepared", "prepared", "publish", "committing"}
      <3>1. PlaceOK(pc[q], result[q], Kind[c], row[c], op[c], pub[c], receipt[c], done[c])
        BY <2>4, Here DEF PlaceHolds
      <3> QED
        BY <3>1, <1>0 DEF PlaceOK, Repository, CheckPlace, CommitPlace
    <2>5. \A q \in Callers :
            \/ pc'[q] = pc[q] /\ told'[q] = told[q]
            \/ call[q] = c /\ pc'[q] \in Resting /\ (told'[q] = told[q] \/ told'[q] = v)
      BY <2>1 DEF Inv, TypeOK, Resting
    <2> QED
      BY <1>0, <2>1, <2>2, <2>3, <2>4, <2>5, VerdictStep
  <1> DEFINE status == IF gone[p] \/ ~ (Active /\ Current) THEN "CANCELLED" ELSE NamedResult(result[p])
  <1>3. status \in Verdicts
    BY NamedVerdict DEF Verdicts
  <1>4. \/ Replay(c, p)
        \/ /\ Finalize(c, status) /\ Answer(p, status)
           /\ UNCHANGED <<control, op, pub, holder, receipt, worktree, budget>>
    BY DEF CompleteSnapshot
  <1> HIDE DEF status
  <1> QED
    BY <1>1, <1>2, <1>3, <1>4

----------------------------------------------------------------------------
(* Commits.                                                                *)

\* The preparation binds the parent and the tree before the call has a commit.
LEMMA PrepareCommitStep ==
    ASSUME Inv, NEW p \in Callers, PrepareCommit(p)
    PROVE  Inv' /\ AllLawful
  <1> DEFINE c == call[p]
  <1>0. /\ c \in Calls /\ pc[p] = "admitted" /\ Kind[c] = "commit"
        /\ PlaceOK("admitted", result[p], Kind[c], row[c], op[c], pub[c], receipt[c], done[c])
        /\ CallHolds(c)
        /\ UNCHANGED <<row, op, pub, holder, receipt, files, branch, done>>
        /\ UNCHANGED <<run, stopping, attempt>>
    BY Here DEF PlaceHolds, PrepareCommit, control, records
  <1>1. CASE Goto(p, "raised") /\ UNCHANGED <<index, prepared>>
    <2>1. UNCHANGED <<control, records, worktree, budget>>
      BY <1>1 DEF PrepareCommit, worktree
    <2> QED
      BY <1>1, <2>1, RaiseStep
  <1>2. ASSUME NEW x \in {"prepared", "unprepared"}, Goto(p, x), index' \in Nat,
               prepared' \in [Calls -> [parent : Nat, tree : Nat]],
               \A d \in Calls \ {c} : prepared'[d] = prepared[d]
        PROVE  Inv' /\ AllLawful
    <2>1. pc' = [pc EXCEPT ![p] = x] /\ UNCHANGED <<result, gone, told>>
      BY <1>2 DEF Goto
    <2>2. TypeOK'
      <3>1. pc' \in [Callers -> Place]
        BY <2>1 DEF Inv, TypeOK, Place, CommitPlace
      <3> QED
        BY <1>0, <1>2, <2>1, <3>1 DEF Inv, TypeOK
    <2>3. /\ pc'[p] = x /\ OnlyCaller(p) /\ OnlyCall(c) /\ Settling(c) /\ Lawful(c)
          /\ CallHolds(c)'
      BY <1>0, <2>1 DEF Inv, TypeOK, OnlyCaller, OnlyCall, Settling, Lawful, CallHolds
    <2>4. PlaceHolds(p)'
      BY <1>0, <2>1, <2>3 DEF PlaceHolds, PlaceOK, Resting, Fresh, WritePlace, CheckPlace, CommitPlace
    <2>5. BranchHolds'
      <3>1. done[c] = 0
        BY <1>0 DEF PlaceOK
      <3>2. \A i \in DOMAIN branch : branch[i].by \in Calls \ {c}
        BY <3>1, CommitTyped DEF Inv, BranchHolds
      <3> QED
        BY <1>0, <1>2, <3>2 DEF Inv, BranchHolds, CommitIsPrepared
    <2>6. pc[p] \in Acting
      BY <1>0 DEF Acting
    <2> QED
      BY <1>0, <2>1, <2>2, <2>3, <2>4, <2>5, <2>6, ActorStep
  <1>3. files \in Nat /\ index \in Nat /\ prepared \in [Calls -> [parent : Nat, tree : Nat]]
    BY DEF Inv, TypeOK
  <1>4. CASE /\ index' = files /\ Goto(p, "prepared")
             /\ prepared' = [prepared EXCEPT ![c] = [parent |-> Len(branch), tree |-> files]]
    <2>1. Len(branch) \in Nat
      <3> DEFINE S == [by : Calls, tree : Nat, parent : Nat]
      <3>1. branch \in Seq(S)
        BY DEF Inv, TypeOK
      <3> HIDE DEF S
      <3> QED
        BY <3>1
    <2>2. /\ prepared' \in [Calls -> [parent : Nat, tree : Nat]]
          /\ \A d \in Calls \ {c} : prepared'[d] = prepared[d]
      BY <1>0, <1>3, <1>4, <2>1
    <2> QED
      BY <1>2, <1>3, <1>4, <2>2
  <1>5. CASE index' \in {index, files} /\ Goto(p, "unprepared") /\ UNCHANGED prepared
    BY <1>2, <1>3, <1>5
  <1> QED
    BY <1>1, <1>4, <1>5 DEF PrepareCommit

\* A preparation that failed is settled for good.
LEMMA FailPreparationStep ==
    ASSUME Inv, NEW p \in Callers, FailPreparation(p)
    PROVE  Inv' /\ AllLawful
  <1> DEFINE c == call[p]
  <1>0. /\ c \in Calls /\ pc[p] = "unprepared" /\ UNCHANGED <<control, worktree, budget>>
        /\ PlaceOK("unprepared", result[p], Kind[c], row[c], op[c], pub[c], receipt[c], done[c])
        /\ CallOK(Kind[c], row[c], op[c], pub[c], holder[c], receipt[c], done[c])
    BY Here DEF PlaceHolds, CallHolds, FailPreparation
  <1>1. CASE Goto(p, "raised") /\ UNCHANGED records
    BY <1>0, <1>1, RaiseStep
  <1>2. CASE /\ op' = [op EXCEPT ![c] = "FAILED"] /\ holder' = [holder EXCEPT ![c] = "none"]
             /\ Goto(p, "failed") /\ UNCHANGED <<row, pub, receipt>>
    <2>1. /\ UNCHANGED <<row, pub, receipt, prepared, branch, done, result, told>>
          /\ UNCHANGED <<run, stopping, attempt, files, index, gone>>
          /\ pc' = [pc EXCEPT ![p] = "failed"]
      BY <1>0, <1>2 DEF Goto, control, worktree
    <2>2. TypeOK'
      BY <1>2, <2>1 DEF Inv, TypeOK, Place, CommitPlace
    <2>3. /\ pc'[p] = "failed" /\ op'[c] = "FAILED" /\ holder'[c] = "none"
          /\ OnlyCaller(p) /\ OnlyCall(c) /\ Settling(c) /\ Lawful(c)
      BY <1>0, <1>2, <2>1 DEF Inv, TypeOK, OnlyCaller, OnlyCall, Settling, Lawful
    <2>4. /\ Kind[c] = "commit" /\ row[c] = "RUNNING" /\ op[c] \in Unresolved /\ pub[c] = "none"
          /\ receipt[c] = "none" /\ done[c] = 0
      BY <1>0 DEF PlaceOK, CommitPlace
    <2>5. CallHolds(c)'
      BY <2>1, <2>3, <2>4 DEF CallHolds, CallOK, Fresh, Repository, Verdicts
    <2>6. PlaceHolds(p)'
      BY <2>1, <2>3, <2>4 DEF PlaceHolds, PlaceOK, Resting, Fresh, WritePlace, CheckPlace, CommitPlace
    <2>7. BranchHolds'
      BY <1>0, <2>1, <2>3, BranchKept DEF BranchFrame
    <2>8. pc[p] \in Acting /\ op[c] # "SUCCEEDED"
      BY <1>0, <2>4 DEF Acting, CommitPlace, Unresolved
    <2> QED
      BY <1>0, <2>1, <2>2, <2>3, <2>5, <2>6, <2>7, <2>8, ActorStep
  <1> QED
    BY <1>1, <1>2 DEF FailPreparation

\* The publication is admitted with the preparation completed, or the call of a
\* cancelled run ends.
LEMMA AdmitPublicationStep ==
    ASSUME Inv, NEW p \in Callers, AdmitPublication(p)
    PROVE  Inv' /\ AllLawful
  <1> DEFINE c == call[p]
  <1>0. /\ c \in Calls /\ pc[p] = "prepared" /\ UNCHANGED <<control, worktree, budget>>
        /\ PlaceOK("prepared", result[p], Kind[c], row[c], op[c], pub[c], receipt[c], done[c])
        /\ CallOK(Kind[c], row[c], op[c], pub[c], holder[c], receipt[c], done[c])
    BY Here DEF PlaceHolds, CallHolds, AdmitPublication
  <1>a. /\ Kind[c] = "commit" /\ row[c] = "RUNNING" /\ op[c] \in Unresolved /\ pub[c] = "none"
        /\ receipt[c] = "none" /\ done[c] = 0 /\ pc[p] \in Acting
    BY <1>0 DEF PlaceOK, CommitPlace, Acting
  <1>1. CASE Goto(p, "raised") /\ UNCHANGED records
    BY <1>0, <1>1, RaiseStep
  <1>2. CASE /\ Finalize(c, "CANCELLED") /\ CompleteOp(c) /\ Answer(p, "CANCELLED")
             /\ UNCHANGED <<pub, receipt>>
    <2>1. /\ UNCHANGED <<pub, receipt, prepared, branch, done, result>>
          /\ UNCHANGED <<run, stopping, attempt, files, index, gone>>
          /\ row' = [row EXCEPT ![c] = "CANCELLED"] /\ op' = [op EXCEPT ![c] = "SUCCEEDED"]
          /\ holder' = [holder EXCEPT ![c] = "none"]
          /\ pc' = [pc EXCEPT ![p] = "answered"] /\ told' = [told EXCEPT ![p] = "CANCELLED"]
      BY <1>0, <1>2 DEF Finalize, CompleteOp, Answer, control, worktree
    <2>2. TypeOK'
      BY <2>1 DEF Inv, TypeOK, Place, Ended, Terminal
    <2>3. /\ pc'[p] = "answered" /\ told'[p] = "CANCELLED" /\ row'[c] = "CANCELLED"
          /\ op'[c] = "SUCCEEDED" /\ holder'[c] = "none"
          /\ OnlyCaller(p) /\ OnlyCall(c) /\ Settling(c) /\ Lawful(c)
      BY <1>0, <1>a, <2>1 DEF Inv, TypeOK, OnlyCaller, OnlyCall, Settling, Lawful, Terminal, Verdicts
    <2>4. CallHolds(c)'
      BY <1>a, <2>1, <2>3 DEF CallHolds, CallOK, Fresh, Repository, Verdicts
    <2>5. PlaceHolds(p)'
      BY <2>3, AtRest DEF PlaceHolds, Resting
    <2>6. BranchHolds'
      BY <1>0, <2>1, <2>3, BranchKept DEF BranchFrame
    <2> QED
      BY <1>0, <1>a, <2>1, <2>2, <2>3, <2>4, <2>5, <2>6, ActorStep
  <1>3. CASE /\ Active /\ Current
             /\ op' = [op EXCEPT ![c] = "SUCCEEDED"] /\ pub' = [pub EXCEPT ![c] = "PENDING"]
             /\ Goto(p, "publish") /\ UNCHANGED <<row, holder, receipt>>
    <2>1. /\ UNCHANGED <<row, holder, receipt, prepared, branch, done, result, told>>
          /\ UNCHANGED <<run, stopping, attempt, files, index, gone>>
          /\ pc' = [pc EXCEPT ![p] = "publish"]
      BY <1>0, <1>3 DEF Goto, control, worktree
    <2>2. TypeOK'
      BY <1>3, <2>1 DEF Inv, TypeOK, Place, CommitPlace, Unresolved
    <2>3. /\ pc'[p] = "publish" /\ op'[c] = "SUCCEEDED" /\ pub'[c] = "PENDING"
          /\ OnlyCaller(p) /\ OnlyCall(c) /\ Settling(c) /\ Lawful(c)
      BY <1>0, <1>3, <1>a, <2>1 DEF Inv, TypeOK, OnlyCaller, OnlyCall, Settling, Lawful
    <2>4. CallHolds(c)'
      BY <1>a, <2>1, <2>3 DEF CallHolds, CallOK, Fresh, Repository, Verdicts, Unresolved
    <2>5. PlaceHolds(p)'
      BY <1>a, <2>1, <2>3
         DEF PlaceHolds, PlaceOK, Resting, Fresh, WritePlace, CheckPlace, CommitPlace, Unresolved
    <2>6. BranchHolds'
      BY <1>0, <2>1, <2>3, BranchKept DEF BranchFrame
    <2> QED
      BY <1>0, <1>a, <2>1, <2>2, <2>3, <2>4, <2>5, <2>6, ActorStep
  <1> QED
    BY <1>1, <1>2, <1>3 DEF AdmitPublication

\* The lease is renewed before the commit, or the publication is given up.
LEMMA RenewPublicationStep ==
    ASSUME Inv, NEW p \in Callers, RenewPublication(p)
    PROVE  Inv' /\ AllLawful
  <1> DEFINE c == call[p]
  <1>0. /\ pc[p] = "publish" /\ UNCHANGED <<control, records, worktree, budget>>
        /\ PlaceOK("publish", result[p], Kind[c], row[c], op[c], pub[c], receipt[c], done[c])
        /\ Goto(p, "committing") \/ Goto(p, "raised")
    BY Here DEF PlaceHolds, RenewPublication
  <1>1. CASE Goto(p, "committing")
    <2>1. PlaceOK("committing", result[p], Kind[c], row[c], op[c], pub[c], receipt[c], done[c])
      BY <1>0 DEF PlaceOK, Resting, Fresh, WritePlace, CheckPlace, CommitPlace
    <2>2. "committing" \in Place /\ pc[p] \in Acting
      BY <1>0 DEF Place, CommitPlace, Acting
    <2> QED
      BY <1>0, <1>1, <2>1, <2>2, GotoStep
  <1>2. CASE Goto(p, "raised")
    BY <1>0, <1>2, RaiseStep
  <1> QED
    BY <1>0, <1>1, <1>2

\* A commit is made once, of what was prepared, on what was prepared.
LEMMA PublishCommitStep ==
    ASSUME Inv, NEW p \in Callers, PublishCommit(p)
    PROVE  Inv' /\ AllLawful
  <1> DEFINE c == call[p]
  <1>0. /\ c \in Calls /\ pc[p] = "committing" /\ UNCHANGED <<control, records, prepared, files, index, budget>>
        /\ PlaceOK("committing", result[p], Kind[c], row[c], op[c], pub[c], receipt[c], done[c])
        /\ CallOK(Kind[c], row[c], op[c], pub[c], holder[c], receipt[c], done[c])
    BY Here DEF PlaceHolds, CallHolds, PublishCommit
  <1>a. /\ Kind[c] = "commit" /\ row[c] = "RUNNING" /\ op[c] = "SUCCEEDED" /\ pub[c] \in Unresolved
        /\ receipt[c] = "none" /\ done[c] = 0 /\ pc[p] \in Acting
    BY <1>0 DEF PlaceOK, CallOK, CommitPlace, Acting
  <1>1. CASE Goto(p, "raised") /\ UNCHANGED <<branch, done>>
    BY <1>0, <1>1, RaiseStep DEF worktree
  <1>2. ASSUME NEW x \in {"published", "raised"}, Goto(p, x), MatchesPrepared(c),
               branch' = Append(branch, [by |-> c, tree |-> index, parent |-> Len(branch)]),
               done' = [done EXCEPT ![c] = @ + 1]
        PROVE  Inv' /\ AllLawful
    <2> DEFINE S == [by : Calls, tree : Nat, parent : Nat]
               b == [by |-> c, tree |-> index, parent |-> Len(branch)]
    <2>1. /\ UNCHANGED <<row, op, pub, holder, receipt, prepared, result, told>>
          /\ UNCHANGED <<run, stopping, attempt, files, index, gone>>
          /\ pc' = [pc EXCEPT ![p] = x]
      BY <1>0, <1>2 DEF Goto, control, records
    <2>2. branch \in Seq(S) /\ index \in Nat /\ done \in [Calls -> Nat] /\ pc \in [Callers -> Place]
      BY DEF Inv, TypeOK
    <2>3. Len(branch) \in Nat
      <3> HIDE DEF S
      <3> QED
        BY <2>2
    <2>4. b \in S /\ b.by = c /\ b.tree = index /\ b.parent = Len(branch)
      BY <1>0, <2>2, <2>3
    <2>5. branch' = Append(branch, b)
      BY <1>2
    <2>6. /\ branch' \in Seq(S)
          /\ DOMAIN branch' = DOMAIN branch \cup {Len(branch) + 1}
          /\ \A i \in DOMAIN branch : branch'[i] = branch[i]
          /\ branch'[Len(branch) + 1] = b
      <3> HIDE DEF S, b
      <3> QED
        BY <2>2, <2>4, <2>5
    <2> HIDE DEF b
    <2>7. done' \in [Calls -> Nat] /\ pc' \in [Callers -> Place] /\ done'[c] = 1
          /\ \A d \in Calls \ {c} : done'[d] = done[d]
      BY <1>0, <1>2, <1>a, <2>1, <2>2 DEF Place, CommitPlace, Ended
    <2>8. TypeOK'
      BY <2>1, <2>6, <2>7 DEF Inv, TypeOK
    <2>9. /\ pc'[p] = x /\ OnlyCaller(p) /\ OnlyCall(c) /\ Settling(c) /\ Lawful(c)
      BY <1>0, <1>a, <2>1, <2>2, <2>7 DEF OnlyCaller, OnlyCall, Settling, Lawful, Terminal
    <2>10. CallHolds(c)'
      BY <1>0, <1>a, <2>1, <2>7 DEF CallHolds, CallOK, Fresh, Repository, Verdicts, Unresolved
    <2>11. PlaceHolds(p)'
      BY <1>a, <2>1, <2>7, <2>9
         DEF PlaceHolds, PlaceOK, Resting, Fresh, WritePlace, CheckPlace, CommitPlace, Unresolved
    <2>12. BranchHolds'
      <3>1. ASSUME NEW i \in DOMAIN branch
            PROVE  /\ branch'[i].tree = prepared'[branch'[i].by].tree
                   /\ branch'[i].parent = prepared'[branch'[i].by].parent
                   /\ pub'[branch'[i].by] # "none" /\ done'[branch'[i].by] = 1
        <4>1. branch[i].by \in Calls
          BY CommitTyped DEF Inv
        <4> QED
          BY <2>1, <2>6, <2>7, <4>1 DEF Inv, BranchHolds, CommitIsPrepared
      <3>2. /\ b.tree = prepared'[b.by].tree /\ b.parent = prepared'[b.by].parent
            /\ pub'[b.by] # "none" /\ done'[b.by] = 1
        BY <1>2, <1>a, <2>1, <2>4, <2>7 DEF MatchesPrepared, Unresolved
      <3> QED
        BY <2>6, <3>1, <3>2 DEF BranchHolds, CommitIsPrepared
    <2> QED
      BY <1>0, <1>a, <2>1, <2>8, <2>9, <2>10, <2>11, <2>12, ActorStep
  <1> QED
    BY <1>1, <1>2 DEF PublishCommit

\* The verdict of a commit follows its publication or its failed preparation.
LEMMA FinalizeGitCommitStep ==
    ASSUME Inv, NEW p \in Callers, FinalizeGitCommit(p)
    PROVE  Inv' /\ AllLawful
  <1> DEFINE c == call[p]
  <1>0. /\ c \in Calls /\ pc[p] \in {"failed", "published"} /\ UNCHANGED <<control, worktree, budget>>
        /\ PlaceOK(pc[p], result[p], Kind[c], row[c], op[c], pub[c], receipt[c], done[c])
        /\ CallOK(Kind[c], row[c], op[c], pub[c], holder[c], receipt[c], done[c])
    BY Here DEF PlaceHolds, CallHolds, FinalizeGitCommit
  <1>a. Kind[c] = "commit" /\ pc[p] \in Acting
    BY <1>0 DEF PlaceOK, CommitPlace, Acting
  <1>1. CASE Goto(p, "raised") /\ UNCHANGED records
    BY <1>0, <1>1, RaiseStep
  <1>2. ASSUME NEW v \in Verdicts, NEW b \in {"none", "SUCCEEDED"}, NEW h \in {"none", holder[c]},
               Finalize(c, v), Answer(p, v), pub' = [pub EXCEPT ![c] = b],
               holder' = [holder EXCEPT ![c] = h], UNCHANGED <<op, receipt>>,
               \/ pc[p] = "failed" /\ v = "FAILED" /\ b = "none" /\ h = holder[c]
               \/ pc[p] = "published" /\ v = "SUCCEEDED" /\ b = "SUCCEEDED" /\ h = "none"
        PROVE  Inv' /\ AllLawful
    <2>1. /\ UNCHANGED <<op, receipt, prepared, branch, done, result>>
          /\ UNCHANGED <<run, stopping, attempt, files, index, gone>>
          /\ row[c] = "RUNNING" /\ row' = [row EXCEPT ![c] = v]
          /\ pc' = [pc EXCEPT ![p] = "answered"] /\ told' = [told EXCEPT ![p] = v]
      BY <1>0, <1>2 DEF Finalize, Answer, control, worktree
    <2>2. TypeOK'
      BY <1>0, <1>2, <2>1 DEF Inv, TypeOK, Place, Ended, Terminal, Verdicts
    <2>3. /\ pc'[p] = "answered" /\ told'[p] = v /\ row'[c] = v /\ pub'[c] = b /\ holder'[c] = h
          /\ OnlyCaller(p) /\ OnlyCall(c) /\ Settling(c) /\ Lawful(c)
      BY <1>0, <1>2, <2>1 DEF Inv, TypeOK, OnlyCaller, OnlyCall, Settling, Lawful, Terminal, Verdicts
    <2>4. CallHolds(c)'
      BY <1>0, <1>2, <1>a, <2>1, <2>3 DEF CallHolds, CallOK, PlaceOK, Fresh, Repository, Verdicts
    <2>5. PlaceHolds(p)'
      BY <2>3, AtRest DEF PlaceHolds, Resting
    <2>6. pub[c] # "none" => pub'[c] # "none"
      BY <1>0, <1>2, <1>a, <2>3 DEF CallOK, PlaceOK
    <2>7. BranchHolds'
      BY <1>0, <2>1, <2>3, <2>6, BranchKept DEF BranchFrame
    <2> QED
      BY <1>0, <1>a, <2>1, <2>2, <2>3, <2>4, <2>5, <2>7, ActorStep
  <1>3. CASE /\ pc[p] = "failed" /\ Finalize(c, "FAILED") /\ Answer(p, "FAILED")
             /\ UNCHANGED <<op, pub, holder, receipt>>
    <2>1. pub[c] = "none"
      BY <1>0, <1>3, <1>a DEF CallOK, PlaceOK
    <2>2. pub' = [pub EXCEPT ![c] = "none"] /\ holder' = [holder EXCEPT ![c] = holder[c]]
      BY <1>0, <1>3, <2>1 DEF Inv, TypeOK
    <2> QED
      BY <1>2, <1>3, <2>2 DEF Verdicts
  <1>4. CASE /\ pc[p] = "published" /\ Finalize(c, "SUCCEEDED") /\ Answer(p, "SUCCEEDED")
             /\ pub' = [pub EXCEPT ![c] = "SUCCEEDED"] /\ holder' = [holder EXCEPT ![c] = "none"]
             /\ UNCHANGED <<op, receipt>>
    BY <1>2, <1>4 DEF Verdicts
  <1> QED
    BY <1>1, <1>3, <1>4 DEF FinalizeGitCommit

----------------------------------------------------------------------------
(* Recovery and the rest of the world.                                     *)

\* A commit that inspection finds is the one effect of its call.
LEMMA Inspected ==
    ASSUME Inv, NEW c \in Calls, InspectPrepared(c)
    PROVE  done[c] = 1
  <1> DEFINE S == [by : Calls, tree : Nat, parent : Nat]
             i == prepared[c].parent + 1
  <1>1. branch \in Seq(S) /\ prepared[c].parent \in Nat
    BY DEF Inv, TypeOK
  <1>2. Len(branch) > prepared[c].parent /\ branch[i].by = c
    BY DEF InspectPrepared
  <1>3. i \in DOMAIN branch
    <2> HIDE DEF S
    <2> QED
      BY <1>1, <1>2
  <1> QED
    BY <1>2, <1>3 DEF Inv, BranchHolds

\* Recovery settles an intent nobody holds only by its evidence.
LEMMA ReconcileIntentStep ==
    ASSUME Inv, NEW c \in Calls, ReconcileIntent(c)
    PROVE  Inv' /\ AllLawful
  <1>0. /\ CallOK(Kind[c], row[c], op[c], pub[c], holder[c], receipt[c], done[c])
        /\ holder[c] = "none" /\ Kind[c] \in Kinds
        /\ UNCHANGED <<run, stopping, attempt, prepared, files, index, branch, done>>
        /\ UNCHANGED <<pc, result, gone, told>>
    BY ToolAssumption DEF Inv, CallsHold, CallHolds, ReconcileIntent, control, worktree, callers
  <1>a. op[c] \in Unresolved => pub[c] = "none"
    BY <1>0 DEF CallOK, Kinds, Repository, Unresolved
  <1>1. ASSUME NEW o, NEW b,
               op' = [op EXCEPT ![c] = o], pub' = [pub EXCEPT ![c] = b],
               holder' = [holder EXCEPT ![c] = "none"], UNCHANGED <<row, receipt>>,
               \/ o = "SUCCEEDED" /\ b = pub[c] /\ op[c] \in Unresolved
                  /\ (ReconcileWrite(c) \/ ReconcileCheck(c))
               \/ o = "NEEDS_RECONCILIATION" /\ b = pub[c] /\ op[c] \in Unresolved
               \/ o = op[c] /\ b = "SUCCEEDED" /\ pub[c] \in Unresolved /\ done[c] = 1
               \/ o = op[c] /\ b = "NEEDS_RECONCILIATION" /\ pub[c] \in Unresolved
        PROVE  Inv' /\ AllLawful
    <2>1. /\ o \in Unresolved \cup {"none", "SUCCEEDED", "FAILED"}
          /\ b \in Unresolved \cup {"none", "SUCCEEDED"}
      BY <1>1 DEF Inv, TypeOK, Unresolved
    <2>2. TypeOK'
      BY <1>0, <1>1, <2>1 DEF Inv, TypeOK
    <2>3. /\ op'[c] = o /\ pub'[c] = b /\ holder'[c] = "none"
          /\ OnlyCall(c) /\ Settling(c)
      BY <1>0, <1>1 DEF Inv, TypeOK, OnlyCall, Settling
    <2>4. Lawful(c)
      BY <1>0, <1>1, <2>3 DEF Lawful
    <2>5. CallHolds(c)'
      <3>1. CallOK(Kind[c], row[c], o, b, "none", receipt[c], done[c])
        BY <1>0, <1>1 DEF CallOK, Kinds, Repository, Unresolved, ReconcileWrite, ReconcileCheck, Fresh
      <3> QED
        BY <1>0, <1>1, <2>3, <3>1 DEF CallHolds
    <2>6. ASSUME NEW q \in Callers, call[q] = c
          PROVE  PlaceHolds(q)'
      <3>1. PlaceOK(pc[q], result[q], Kind[c], row[c], op[c], pub[c], receipt[c], done[c])
        BY <2>6, Here DEF PlaceHolds
      <3>2. PlaceOK(pc[q], result[q], Kind[c], row[c], o, b, receipt[c], done[c])
        BY <1>0, <1>1, <1>a, <3>1
           DEF PlaceOK, Unresolved, ReconcileWrite, ReconcileCheck, CheckPlace, CommitPlace, WritePlace, Repository
      <3> QED
        BY <1>0, <1>1, <2>3, <2>6, <3>2 DEF PlaceHolds
    <2>7. BranchHolds'
      <3>1. pub[c] # "none" => pub'[c] # "none"
        BY <1>1, <2>3
      <3> QED
        BY <1>0, <2>3, <3>1, BranchKept DEF BranchFrame
    <2>8. \A q \in Callers : call[q] = c => PlaceHolds(q)'
      BY <2>6
    <2> QED
      BY <1>0, <2>2, <2>3, <2>4, <2>5, <2>7, <2>8, QuietStep
  <1>b. /\ op = [op EXCEPT ![c] = op[c]] /\ pub = [pub EXCEPT ![c] = pub[c]]
        /\ holder = [holder EXCEPT ![c] = "none"]
    BY <1>0 DEF Inv, TypeOK
  <1>2. CASE op[c] \in Unresolved /\ (ReconcileWrite(c) \/ ReconcileCheck(c))
             /\ CompleteOp(c) /\ UNCHANGED <<row, pub, receipt>>
    BY <1>1, <1>2, <1>b DEF CompleteOp
  <1>3. CASE op[c] \in Unresolved /\ LeaveUnresolved(c)
    BY <1>1, <1>3, <1>a, <1>b DEF LeaveUnresolved, Unresolved
  <1>4. CASE /\ pub[c] \in Unresolved /\ InspectPrepared(c) /\ pub' = [pub EXCEPT ![c] = "SUCCEEDED"]
             /\ UNCHANGED <<row, op, holder, receipt>>
    BY <1>1, <1>4, <1>b, Inspected
  <1>5. CASE pub[c] \in Unresolved /\ LeaveUnresolved(c)
    BY <1>1, <1>5, <1>b DEF LeaveUnresolved
  <1> QED
    BY <1>2, <1>3, <1>4, <1>5 DEF ReconcileIntent

\* Recovery gives a call the verdict its records prove.
LEMMA RecoverOneStep ==
    ASSUME Inv, NEW c \in Calls, RecoverOne(c)
    PROVE  Inv' /\ AllLawful
  <1>0. /\ CallOK(Kind[c], row[c], op[c], pub[c], holder[c], receipt[c], done[c])
        /\ UNCHANGED <<run, stopping, attempt, op, pub, holder, receipt>>
        /\ UNCHANGED <<prepared, files, index, branch, done, pc, result, gone, told>>
    BY DEF Inv, CallsHold, CallHolds, RecoverOne, control, worktree, callers
  <1>1. ASSUME NEW v \in Verdicts, Finalize(c, v),
               \/ Kind[c] = "snapshot" /\ v = "CANCELLED"
               \/ Kind[c] \in Repository /\ op[c] = "SUCCEEDED" /\ v = "SUCCEEDED"
               \/ Kind[c] = "check" /\ op[c] = "SUCCEEDED" /\ receipt[c] # "none"
                  /\ v = NamedResult(receipt[c])
               \/ Kind[c] = "commit" /\ pub[c] = "SUCCEEDED" /\ v = "SUCCEEDED"
               \/ Kind[c] = "commit" /\ op[c] = "FAILED" /\ v = "FAILED"
        PROVE  Inv' /\ AllLawful
    <2>1. row[c] = "RUNNING" /\ row' = [row EXCEPT ![c] = v]
      BY <1>1 DEF Finalize
    <2>2. TypeOK'
      BY <1>0, <1>1, <2>1 DEF Inv, TypeOK, Terminal, Verdicts
    <2>3. CallOK(Kind[c], v, op[c], pub[c], holder[c], receipt[c], done[c])
      BY <1>0, <1>1, <2>1 DEF CallOK, Repository, Fresh, Verdicts
    <2>4. ASSUME NEW q \in Callers, call[q] = c
          PROVE  pc[q] \notin {"admitted", "launch", "ran", "unprepared", "prepared", "publish", "committing"}
      <3>1. PlaceOK(pc[q], result[q], Kind[c], row[c], op[c], pub[c], receipt[c], done[c])
        BY <2>4, Here DEF PlaceHolds
      <3> QED
        BY <1>0, <1>1, <3>1 DEF PlaceOK, CallOK, Repository, CheckPlace, CommitPlace, Unresolved
    <2> QED
      BY <1>0, <1>1, <2>1, <2>2, <2>3, <2>4, VerdictStep
  <1>2. CASE RecoverNamed(c)
    BY <1>1, <1>2, NamedVerdict DEF RecoverNamed
  <1>3. CASE RecoverGit(c)
    BY <1>1, <1>3 DEF RecoverGit, Verdicts
  <1>4. CASE \/ Kind[c] = "snapshot" /\ Finalize(c, "CANCELLED")
             \/ Kind[c] \in {"write", "delete"} /\ op[c] = "SUCCEEDED" /\ Finalize(c, "SUCCEEDED")
    BY <1>1, <1>4 DEF Verdicts, Repository
  <1> QED
    BY <1>2, <1>3, <1>4 DEF RecoverOne

\* A lease that runs out takes nothing with it.
LEMMA LapseStep ==
    ASSUME Inv, NEW c \in Calls, Lapse(c)
    PROVE  Inv' /\ AllLawful
  <1>0. /\ UNCHANGED <<run, stopping, attempt, row, op, pub, receipt>>
        /\ UNCHANGED <<prepared, files, index, branch, done, pc, result, gone, told>>
        /\ holder' = [holder EXCEPT ![c] = "none"]
    BY DEF Lapse, control, worktree, callers
  <1>1. TypeOK'
    BY <1>0 DEF Inv, TypeOK
  <1>2. holder'[c] = "none" /\ OnlyCall(c) /\ Settling(c) /\ Lawful(c)
    BY <1>0 DEF Inv, TypeOK, OnlyCall, Settling, Lawful
  <1>3. CallHolds(c)'
    BY <1>0, <1>2 DEF Inv, CallsHold, CallHolds, CallOK
  <1>4. \A q \in Callers : PlaceHolds(q)'
    BY <1>0 DEF Inv, PlacesHold, PlaceHolds
  <1>5. BranchHolds'
    BY <1>0, <1>2, BranchKept DEF BranchFrame
  <1> QED
    BY <1>0, <1>1, <1>2, <1>3, <1>4, <1>5, QuietStep

\* Cancellations, deaths, stops and edits touch no record and no effect.
LEMMA WorldStep ==
    ASSUME Inv,
           \/ \E p \in Callers : CancelCaller(p)
           \/ Crash \/ Control \/ Edit \/ UNCHANGED vars
    PROVE  Inv' /\ AllLawful
  <1>1. ASSUME NEW p \in Callers, CancelCaller(p) PROVE Inv' /\ AllLawful
    <2>1. /\ UNCHANGED <<run, stopping, attempt, files, index, pc>>
          /\ UNCHANGED <<records, prepared, branch, done, result, told>>
          /\ gone' = [gone EXCEPT ![p] = TRUE]
      BY <1>1 DEF CancelCaller, control, worktree
    <2>2. TypeOK'
      BY <2>1 DEF Inv, TypeOK, records
    <2> QED
      BY <2>1, <2>2, RestStep
  <1>2. CASE Crash
    <2>1. /\ UNCHANGED <<run, stopping, attempt, files, index, gone>>
          /\ UNCHANGED <<records, prepared, branch, done, result, told>>
          /\ pc' = [p \in Callers |-> IF pc[p] \in {"idle"} \cup Ended THEN pc[p] ELSE "dead"]
      BY <1>2 DEF Crash, control, worktree
    <2>2. TypeOK'
      BY <2>1 DEF Inv, TypeOK, records, Place, Ended
    <2>3. \A q \in Callers : pc'[q] = pc[q] \/ pc'[q] \in Resting
      BY <2>1 DEF Resting
    <2> QED
      BY <2>1, <2>2, <2>3, RestStep
  <1>3. CASE Control
    <2>1. /\ UNCHANGED <<files, index, gone, pc>>
          /\ UNCHANGED <<records, prepared, branch, done, result, told>>
      BY <1>3 DEF Control, worktree, callers
    <2>2. run' \in {"work", "held", "CANCELLED"} /\ stopping' \in BOOLEAN /\ attempt' \in BOOLEAN
      BY <1>3 DEF Control, Inv, TypeOK
    <2>3. TypeOK'
      BY <2>1, <2>2 DEF Inv, TypeOK, records
    <2> QED
      BY <2>1, <2>3, RestStep
  <1>4. CASE Edit
    <2>1. /\ UNCHANGED <<run, stopping, attempt, index, gone, pc>> /\ files' = files + 1
          /\ UNCHANGED <<records, prepared, branch, done, result, told>>
      BY <1>4 DEF Edit, control, callers
    <2>2. TypeOK'
      BY <2>1 DEF Inv, TypeOK, records
    <2> QED
      BY <2>1, <2>2, RestStep
  <1>5. CASE UNCHANGED vars
    <2>1. /\ UNCHANGED <<run, stopping, attempt, files, index, gone, pc>>
          /\ UNCHANGED <<records, prepared, branch, done, result, told>>
      BY <1>5 DEF vars, control, worktree, callers
    <2>2. TypeOK'
      BY <2>1 DEF Inv, TypeOK, records
    <2> QED
      BY <2>1, <2>2, RestStep
  <1> QED
    BY <1>1, <1>2, <1>3, <1>4, <1>5

----------------------------------------------------------------------------
(* The theorems.                                                           *)

\* Nothing has been presented.
LEMMA InvInit == Init => Inv
  <1> SUFFICES ASSUME Init PROVE Inv
    OBVIOUS
  <1>1. TypeOK
    <2> DEFINE S == [by : Calls, tree : Nat, parent : Nat]
    <2>1. branch \in Seq(S)
      <3> HIDE DEF S
      <3> QED
        BY DEF Init
    <2>2. prepared \in [Calls -> [parent : Nat, tree : Nat]]
      <3>1. Nothing \in [parent : Nat, tree : Nat]
        BY DEF Nothing
      <3> QED
        BY <3>1 DEF Init
    <2> QED
      BY <2>1, <2>2 DEF Init, TypeOK, Terminal, Unresolved, Outcome, Place
  <1>2. CallsHold
    BY ToolAssumption DEF Init, CallsHold, CallHolds, CallOK, Fresh, Verdicts, Repository
  <1>3. PlacesHold
    BY AtRest DEF Init, PlacesHold, PlaceHolds, Resting
  <1>4. OneActor
    BY DEF Init, OneActor, Acting, CheckPlace, CommitPlace
  <1>5. BranchHolds /\ ToldIsRecorded
    BY DEF Init, BranchHolds, CommitIsPrepared, ToldIsRecorded
  <1>6. WithinBudget
    <2>1. Counted = {}
      BY DEF Init, Counted
    <2> QED
      BY <2>1, FS_EmptySet, ToolAssumption DEF WithinBudget
  <1> QED
    BY <1>1, <1>2, <1>3, <1>4, <1>5, <1>6 DEF Inv

\* Every step keeps the invariant and is lawful.
LEMMA InvNext == Inv /\ [Next]_vars => Inv' /\ AllLawful
  <1> SUFFICES ASSUME Inv, [Next]_vars PROVE Inv' /\ AllLawful
    OBVIOUS
  <1>1. ASSUME NEW p \in Callers, Invoke(p) PROVE Inv' /\ AllLawful
    BY <1>1, InvokeStep
  <1>2. ASSUME NEW p \in Callers, Proceed(p) PROVE Inv' /\ AllLawful
    <2>1. CASE Watch(p) \/ ReadSnapshot(p) \/ CompleteSnapshot(p)
      BY <2>1, WatchStep, ReadSnapshotStep, CompleteSnapshotStep
    <2>2. CASE ExecuteWrite(p) \/ WriteFile(p) \/ StoreWrite(p) \/ ObserveWrite(p)
               \/ CompleteRepositoryWrite(p)
      BY <2>2, ExecuteWriteStep, WriteFileStep, StoreWriteStep, ObserveWriteStep,
         CompleteRepositoryWriteStep
    <2>3. CASE Preflight(p) \/ RunCheck(p) \/ PersistReceipt(p) \/ SettleNamedCheck(p)
      BY <2>3, PreflightStep, RunCheckStep, PersistReceiptStep, SettleNamedCheckStep
    <2>4. CASE PrepareCommit(p) \/ FailPreparation(p) \/ AdmitPublication(p)
               \/ RenewPublication(p) \/ PublishCommit(p) \/ FinalizeGitCommit(p)
      BY <2>4, PrepareCommitStep, FailPreparationStep, AdmitPublicationStep,
         RenewPublicationStep, PublishCommitStep, FinalizeGitCommitStep
    <2> QED
      BY <1>2, <2>1, <2>2, <2>3, <2>4 DEF Proceed
  <1>3. ASSUME NEW c \in Calls, ReconcileIntent(c) \/ RecoverOne(c) \/ Lapse(c)
        PROVE  Inv' /\ AllLawful
    BY <1>3, ReconcileIntentStep, RecoverOneStep, LapseStep
  <1>4. CASE \/ \E p \in Callers : CancelCaller(p)
             \/ Crash \/ Control \/ Edit \/ UNCHANGED vars
    BY <1>4, WorldStep
  <1> QED
    BY <1>1, <1>2, <1>3, <1>4 DEF Next

\* What the invariant says of the properties.
LEMMA InvActOnce == Inv => ToolsActOnce
  <1> SUFFICES ASSUME Inv PROVE ToolsActOnce
    OBVIOUS
  <1>1. EffectOnce
    BY DEF Inv, CallsHold, CallHolds, CallOK, EffectOnce
  <1>2. CommitIsPrepared /\ TypeOK
    BY DEF Inv, BranchHolds
  <1>3. BudgetHolds
    BY DEF Inv, WithinBudget, Counted, BudgetHolds, Count
  <1> QED
    BY <1>1, <1>2, <1>3 DEF ToolsActOnce

LEMMA InvVerdictTrue == Inv => VerdictTrue /\ ToldIsRecorded
  <1> SUFFICES ASSUME Inv PROVE VerdictTrue
    BY DEF Inv
  <1> SUFFICES ASSUME NEW c \in Calls
               PROVE  /\ row[c] = "SUCCEEDED" /\ Kind[c] \notin {"read", "snapshot"} => done[c] = 1
                      /\ row[c] = "SUCCEEDED" /\ Kind[c] = "check" => receipt[c] = "passed"
                      /\ row[c] \in {"FAILED", "CANCELLED"} /\ Kind[c] = "commit" => done[c] = 0
                      /\ row[c] \in Terminal /\ receipt[c] = "unlaunched" => done[c] = 0
                      /\ row[c] \in {"none", "DENIED"} => done[c] = 0
    BY DEF VerdictTrue
  <1>1. CallOK(Kind[c], row[c], op[c], pub[c], holder[c], receipt[c], done[c]) /\ Kind[c] \in Kinds
    BY ToolAssumption DEF Inv, CallsHold, CallHolds
  <1>2. NamedResult(receipt[c]) = "SUCCEEDED" => receipt[c] = "passed"
    BY DEF NamedResult
  <1> QED
    BY <1>1, <1>2 DEF CallOK, Kinds, Repository, Verdicts, Fresh, Launched, Terminal

\* However often a call is presented, lost, cancelled or recovered, it acts at
\* most once and within the budget, and a commit is what was prepared for it
\* (ToolService, ControlledGit).
THEOREM ToolsActOnceAlways == Spec => []ToolsActOnce
  <1>1. Spec => []Inv
    BY InvInit, InvNext, PTL DEF Spec
  <1> QED
    BY <1>1, InvActOnce, PTL

\* The verdict of a call is true of its effect and final, its callers are told
\* what is recorded, and nothing is admitted under a stop (ToolService,
\* ToolRecoveryService).
THEOREM VerdictsTrueAlways == Spec => VerdictsTrue
  <1>1. Spec => []Inv
    BY InvInit, InvNext, PTL DEF Spec
  <1>2. Inv /\ [Next]_vars =>
          [\A c \in Calls : row[c] \in Terminal => row'[c] = row[c] /\ done'[c] = done[c]]_vars
    BY InvNext DEF AllLawful, Lawful
  <1>3. Inv /\ [Next]_vars =>
          [stopping \/ run = "CANCELLED" =>
             \A c \in Calls :
                /\ row'[c] = "RUNNING" => row[c] = "RUNNING"
                /\ pub'[c] = "PENDING" => pub[c] = "PENDING"]_vars
    BY InvNext DEF AllLawful, Lawful, Active, Current
  <1>4. Spec => VerdictFinal
    BY <1>1, <1>2, PTL DEF Spec, VerdictFinal
  <1>5. Spec => StopStopsTools
    BY <1>1, <1>3, PTL DEF Spec, StopStopsTools
  <1>6. Spec => [](VerdictTrue /\ ToldIsRecorded)
    BY <1>1, InvVerdictTrue, PTL
  <1> QED
    BY <1>4, <1>5, <1>6 DEF VerdictsTrue

=============================================================================
