----------------------- MODULE OperatorSessions_proofs ----------------------
(***************************************************************************)
(* Proofs about OperatorSessions for any requests and rows.  A rotation's  *)
(* first UPDATE leaves every earlier bootstrap used or in its own hands,   *)
(* so from then on none of them can be exchanged, and its second UPDATE    *)
(* sees every session they ever bought.                                    *)
(***************************************************************************)
EXTENDS OperatorSessions, TLAPS

\* Rows a rotation has answered for, or will before it commits.
Covered(p, x) == x \in todo[p] \/ lock[x] = p

\* Sessions that a rotation that began with these rows must not leave behind.
Descends(p, s) == s \in known[p] \/ origin[s] \in known[p]

\* A row somebody holds is live, and held by who may spend it.
LocksHold ==
    \A x \in Rows : lock[x] # "none" =>
        /\ status[x] = "live"
        /\ \/ kind[lock[x]] = "exchange" /\ pc[lock[x]] = "locked" /\ target[lock[x]] = x
           \/ kind[lock[x]] = "rotate" /\ pc[lock[x]] \in {"bootstraps", "sessions"}

\* An exchange between its lock and its commit still holds its bootstrap.
ExchangeHolds ==
    \A p \in Requests : kind[p] = "exchange" /\ pc[p] = "locked" => lock[target[p]] = p

\* Rows still to be inserted are absent, and nothing refers to them.
FreshAbsent ==
    \A p \in Requests : fresh[p] # "none" /\ pc[p] # "done" => status[fresh[p]] = "absent"

HistoryExists ==
    /\ \A p \in Requests : \A x \in known[p] : status[x] # "absent"
    /\ \A s \in Sessions : origin[s] # "none" =>
        status[origin[s]] = "spent" /\ status[s] # "absent"

\* Where a rotation stands with the rows it has to revoke.
RotationCovers ==
    \A p \in Requests : kind[p] = "rotate" =>
        /\ pc[p] = "bootstraps" =>
            \A b \in Bootstraps \cap known[p] : status[b] = "live" => Covered(p, b)
        /\ pc[p] = "sessions" =>
            /\ \A b \in Bootstraps \cap known[p] : status[b] = "live" => lock[b] = p
            /\ \A s \in Sessions : status[s] = "live" /\ Descends(p, s) => Covered(p, s)
        /\ pc[p] = "done" =>
            /\ \A b \in Bootstraps \cap known[p] : status[b] # "live"
            /\ \A s \in Sessions : status[s] = "live" => ~ Descends(p, s)

\* A rotation's UPDATE works on one kind of row at a time.
TodoFits ==
    \A p \in Requests :
        /\ todo[p] # {} => kind[p] = "rotate" /\ pc[p] \in {"bootstraps", "sessions"}
        /\ pc[p] = "bootstraps" => todo[p] \subseteq Bootstraps
        /\ pc[p] = "sessions" => todo[p] \subseteq Sessions

\* The inductive invariant.
SessionInv ==
    /\ TypeOK /\ LocksHold /\ ExchangeHolds /\ FreshAbsent /\ HistoryExists
    /\ TodoFits /\ RotationCovers /\ BootstrapOnce

\* Init establishes the invariant.
LEMMA InitInv == Init => SessionInv
  <1> SUFFICES ASSUME Init PROVE SessionInv
    OBVIOUS
  <1> USE SessionAssumption DEF Init
  <1>1. TypeOK
    BY DEF TypeOK
  <1>2. LocksHold /\ ExchangeHolds /\ FreshAbsent /\ HistoryExists
    BY DEF LocksHold, ExchangeHolds, FreshAbsent, HistoryExists
  <1>3. TodoFits /\ RotationCovers /\ BootstrapOnce
    BY DEF TodoFits, RotationCovers, BootstrapOnce
  <1>q. QED
    BY <1>1, <1>2, <1>3 DEF SessionInv

\* Every step keeps the types.
LEMMA TypeStep == TypeOK /\ [Next]_vars => TypeOK'
  <1> SUFFICES ASSUME TypeOK, [Next]_vars PROVE TypeOK'
    OBVIOUS
  <1> USE SessionAssumption DEF TypeOK, Rows
  <1>1. CASE UNCHANGED vars
    BY <1>1 DEF vars
  <1>2. CASE Expire
    BY <1>2 DEF Expire, Live
  <1>3. ASSUME NEW p \in Requests, Begin(p) PROVE TypeOK'
    <2>1. known' \in [Requests -> SUBSET Rows]
      BY <1>3 DEF Begin, Live
    <2>2. late' \in [Requests -> BOOLEAN]
      BY <1>3 DEF Begin
    <2>q. QED
      BY <1>3, <2>1, <2>2 DEF Begin
  <1>4. ASSUME NEW p \in Requests, Insert(p) PROVE TypeOK'
    BY <1>4 DEF Insert
  <1>5. ASSUME NEW p \in Requests, LockBootstrap(p) PROVE TypeOK'
    BY <1>5 DEF LockBootstrap
  <1>6. ASSUME NEW p \in Requests, CommitExchange(p) PROVE TypeOK'
    BY <1>6 DEF CommitExchange, Released
  <1>7. ASSUME NEW p \in Requests, Scan(p) PROVE TypeOK'
    BY <1>7 DEF Scan, Live
  <1>8. ASSUME NEW p \in Requests, RevokeRow(p) PROVE TypeOK'
    BY <1>8 DEF RevokeRow
  <1>9. ASSUME NEW p \in Requests, CommitRotate(p) PROVE TypeOK'
    BY <1>9 DEF CommitRotate, Released
  <1>10. ASSUME NEW p \in Requests, Authenticate(p) PROVE TypeOK'
    BY <1>10 DEF Authenticate
  <1>11. ASSUME NEW p \in Requests, Logout(p) PROVE TypeOK'
    BY <1>11 DEF Logout
  <1>12. ASSUME NEW p \in Requests, Abort(p) PROVE TypeOK'
    BY <1>12 DEF Abort, Released
  <1>q. QED
    BY <1>1, <1>2, <1>3, <1>4, <1>5, <1>6, <1>7, <1>8, <1>9, <1>10, <1>11, <1>12 DEF Next, Step

\* Every step keeps the rest of the invariant.
LEMMA InvStep == SessionInv /\ [Next]_vars => SessionInv'
  <1> SUFFICES ASSUME SessionInv, [Next]_vars PROVE SessionInv'
    OBVIOUS
  <1> DEFINE Rest == LocksHold /\ ExchangeHolds /\ FreshAbsent /\ HistoryExists /\ TodoFits
                     /\ RotationCovers /\ BootstrapOnce
  <1>a. TypeOK /\ TypeOK' /\ Rest
    BY TypeStep DEF SessionInv
  <1> SUFFICES Rest'
    BY <1>a DEF SessionInv
  <1> USE <1>a, SessionAssumption DEF TypeOK, Rows, LocksHold, ExchangeHolds, FreshAbsent,
        HistoryExists, TodoFits, RotationCovers, BootstrapOnce, Covered, Descends
  <1>1. CASE UNCHANGED vars
    BY <1>1 DEF vars
  <1>2. CASE Expire
    BY <1>2 DEF Expire
  <1>3. ASSUME NEW p \in Requests, Begin(p) PROVE Rest'
    BY <1>3 DEF Begin, Live
  <1>4. ASSUME NEW p \in Requests, Insert(p) PROVE Rest'
    <2>1. LocksHold'
      BY <1>4 DEF Insert
    <2>2. ExchangeHolds'
      BY <1>4 DEF Insert
    <2>3. FreshAbsent'
      BY <1>4 DEF Insert
    <2>4. HistoryExists'
      BY <1>4 DEF Insert
    <2>5. TodoFits'
      BY <1>4 DEF Insert
    <2>6. RotationCovers'
      BY <1>4 DEF Insert
    <2>7. BootstrapOnce'
      BY <1>4 DEF Insert
    <2>q. QED
      BY <2>1, <2>2, <2>3, <2>4, <2>5, <2>6, <2>7
  <1>5. ASSUME NEW p \in Requests, LockBootstrap(p) PROVE Rest'
    <2>1. LocksHold'
      BY <1>5 DEF LockBootstrap, Valid, Free
    <2>2. ExchangeHolds'
      BY <1>5 DEF LockBootstrap, Valid, Free
    <2>3. FreshAbsent'
      BY <1>5 DEF LockBootstrap, Valid, Free
    <2>4. HistoryExists'
      BY <1>5 DEF LockBootstrap, Valid, Free
    <2>5. TodoFits'
      BY <1>5 DEF LockBootstrap, Valid, Free
    <2>6. RotationCovers'
      BY <1>5 DEF LockBootstrap, Valid, Free
    <2>7. BootstrapOnce'
      BY <1>5 DEF LockBootstrap, Valid, Free
    <2>q. QED
      BY <2>1, <2>2, <2>3, <2>4, <2>5, <2>6, <2>7
  <1>6. ASSUME NEW p \in Requests, CommitExchange(p) PROVE Rest'
    <2>1. LocksHold'
      BY <1>6 DEF CommitExchange, Released
    <2>2. ExchangeHolds'
      BY <1>6 DEF CommitExchange, Released
    <2>3. FreshAbsent'
      BY <1>6 DEF CommitExchange, Released
    <2>4. HistoryExists'
      BY <1>6 DEF CommitExchange, Released
    <2>5. TodoFits'
      BY <1>6 DEF CommitExchange, Released
    <2>6. RotationCovers'
      BY <1>6 DEF CommitExchange, Released
    <2>7. BootstrapOnce'
      BY <1>6 DEF CommitExchange, Released
    <2>q. QED
      BY <2>1, <2>2, <2>3, <2>4, <2>5, <2>6, <2>7
  <1>7. ASSUME NEW p \in Requests, Scan(p) PROVE Rest'
    <2>1. LocksHold'
      BY <1>7 DEF Scan, Live
    <2>2. ExchangeHolds'
      BY <1>7 DEF Scan, Live
    <2>3. FreshAbsent'
      BY <1>7 DEF Scan, Live
    <2>4. HistoryExists'
      BY <1>7 DEF Scan, Live
    <2>5. TodoFits'
      BY <1>7 DEF Scan, Live
    <2>6. RotationCovers'
      BY <1>7 DEF Scan, Live
    <2>7. BootstrapOnce'
      BY <1>7 DEF Scan, Live
    <2>q. QED
      BY <2>1, <2>2, <2>3, <2>4, <2>5, <2>6, <2>7
  <1>8. ASSUME NEW p \in Requests, RevokeRow(p) PROVE Rest'
    <2>1. LocksHold'
      BY <1>8 DEF RevokeRow, Free
    <2>2. ExchangeHolds'
      BY <1>8 DEF RevokeRow, Free
    <2>3. FreshAbsent'
      BY <1>8 DEF RevokeRow, Free
    <2>4. HistoryExists'
      BY <1>8 DEF RevokeRow, Free
    <2>5. TodoFits'
      BY <1>8 DEF RevokeRow, Free
    <2>6. RotationCovers'
      BY <1>8 DEF RevokeRow, Free
    <2>7. BootstrapOnce'
      BY <1>8 DEF RevokeRow, Free
    <2>q. QED
      BY <2>1, <2>2, <2>3, <2>4, <2>5, <2>6, <2>7
  <1>9. ASSUME NEW p \in Requests, CommitRotate(p) PROVE Rest'
    <2>1. LocksHold'
      BY <1>9 DEF CommitRotate, Released, Held
    <2>2. ExchangeHolds'
      BY <1>9 DEF CommitRotate, Released, Held
    <2>3. FreshAbsent'
      BY <1>9 DEF CommitRotate, Released, Held
    <2>4. HistoryExists'
      BY <1>9 DEF CommitRotate, Released, Held
    <2>5. TodoFits'
      BY <1>9 DEF CommitRotate, Released, Held
    <2>6. RotationCovers'
      BY <1>9 DEF CommitRotate, Released, Held
    <2>7. BootstrapOnce'
      BY <1>9 DEF CommitRotate, Released, Held
    <2>q. QED
      BY <2>1, <2>2, <2>3, <2>4, <2>5, <2>6, <2>7
  <1>10. ASSUME NEW p \in Requests, Authenticate(p) PROVE Rest'
    <2>1. LocksHold'
      BY <1>10 DEF Authenticate, Valid, Free
    <2>2. ExchangeHolds'
      BY <1>10 DEF Authenticate, Valid, Free
    <2>3. FreshAbsent'
      BY <1>10 DEF Authenticate, Valid, Free
    <2>4. HistoryExists'
      BY <1>10 DEF Authenticate, Valid, Free
    <2>5. TodoFits'
      BY <1>10 DEF Authenticate, Valid, Free
    <2>6. RotationCovers'
      BY <1>10 DEF Authenticate, Valid, Free
    <2>7. BootstrapOnce'
      BY <1>10 DEF Authenticate, Valid, Free
    <2>q. QED
      BY <2>1, <2>2, <2>3, <2>4, <2>5, <2>6, <2>7
  <1>11. ASSUME NEW p \in Requests, Logout(p) PROVE Rest'
    <2>1. LocksHold'
      BY <1>11 DEF Logout, Free
    <2>2. ExchangeHolds'
      BY <1>11 DEF Logout, Free
    <2>3. FreshAbsent'
      BY <1>11 DEF Logout, Free
    <2>4. HistoryExists'
      BY <1>11 DEF Logout, Free
    <2>5. TodoFits'
      BY <1>11 DEF Logout, Free
    <2>6. RotationCovers'
      BY <1>11 DEF Logout, Free
    <2>7. BootstrapOnce'
      BY <1>11 DEF Logout, Free
    <2>q. QED
      BY <2>1, <2>2, <2>3, <2>4, <2>5, <2>6, <2>7
  <1>12. ASSUME NEW p \in Requests, Abort(p) PROVE Rest'
    <2>1. LocksHold'
      BY <1>12 DEF Abort, Released
    <2>2. ExchangeHolds'
      BY <1>12 DEF Abort, Released
    <2>3. FreshAbsent'
      BY <1>12 DEF Abort, Released
    <2>4. HistoryExists'
      BY <1>12 DEF Abort, Released
    <2>5. TodoFits'
      BY <1>12 DEF Abort, Released
    <2>6. RotationCovers'
      BY <1>12 DEF Abort, Released
    <2>7. BootstrapOnce'
      BY <1>12 DEF Abort, Released
    <2>q. QED
      BY <2>1, <2>2, <2>3, <2>4, <2>5, <2>6, <2>7
  <1>q. QED
    BY <1>1, <1>2, <1>3, <1>4, <1>5, <1>6, <1>7, <1>8, <1>9, <1>10, <1>11, <1>12 DEF Next, Step

\* The invariant holds of every reachable state.
THEOREM SessionInvariant == Spec => []SessionInv
  BY InitInv, InvStep, PTL DEF Spec

\* One bootstrap token buys one session, for any number of racing exchanges
\* (auth.py exchange_bootstrap).
THEOREM BootstrapBuysOne == Spec => []BootstrapOnce
  <1>1. SessionInv => BootstrapOnce
    BY DEF SessionInv
  <1>q. QED
    BY <1>1, SessionInvariant, PTL

\* A rotation leaves no earlier credential and no session bought with one
\* (auth.py rotate, revoke_all).
THEOREM RotationAlwaysRevokes == Spec => []RotationRevokes
  <1>1. SessionInv => RotationRevokes
    BY DEF SessionInv, RotationRevokes, RotationCovers, Descends, Live, Rows
  <1>q. QED
    BY <1>1, SessionInvariant, PTL

=============================================================================
