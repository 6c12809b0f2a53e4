----------------------------- MODULE Topup_proofs -----------------------------
(***************************************************************************)
(* Proofs about Topup, for every set of accounts, wallets, transactions    *)
(* and concurrent invocations.                                             *)
(***************************************************************************)
EXTENDS Topup, TLAPS

\* The writes of the three settling steps.
LEMMA WriteCases ==
  ASSUME NEW r, NEW row, Write(r, row)
  PROVE  rows' = [rows EXCEPT ![req[r].tx] = row] \/ rows' = rows
BY DEF Write

\* A step of an invocation leaves the others alone.
LEMMA OneRequest ==
  ASSUME TypeOK, NEW r \in Requests, Step(r) \/ Crash(r)
  PROVE  \A q \in Requests : q # r => req'[q] = req[q]
<1>1. CASE Lookup(r)
  BY <1>1 DEF Lookup, Answer, TypeOK
<1>2. CASE Insert(r)
  BY <1>2 DEF Insert, Answer, Goto, TypeOK
<1>3. CASE Verify(r)
  BY <1>3 DEF Verify, Goto, TypeOK
<1>4. CASE Reject(r) \/ Release(r) \/ Finalize(r) \/ Crash(r)
  BY <1>4 DEF Reject, Release, Finalize, Crash, Answer, TypeOK
<1>5. CASE CreditAccount(r)
  BY <1>5 DEF CreditAccount, Goto, TypeOK
<1> QED BY <1>1, <1>2, <1>3, <1>4, <1>5 DEF Step

-----------------------------------------------------------------------------
(***************************************************************************)
(* Types.                                                                  *)
(***************************************************************************)

\* Every request record is well formed, and one under way is complete.
ReqOK(q) == /\ q \in RequestType
            /\ q.pc # "idle" => q.user \in Accounts /\ q.tx \in Txs /\ q.asset \in Assets

RowType == Payments \cup {None}

LEMMA IdleOK == ReqOK(Idle)
BY DEF ReqOK, Idle, RequestType, PCs

LEMMA GotoOK ==
  ASSUME TypeOK, NEW r \in Requests, NEW pc \in PCs, req[r].pc # "idle", Goto(r, pc)
  PROVE  ReqOK(req'[r])
BY DEF TypeOK, ReqOK, RequestType, Goto

LEMMA AnswerOK ==
  ASSUME TypeOK, NEW r \in Requests, Answer(r)
  PROVE  ReqOK(req'[r])
<1>1. req'[r] = Idle
  BY DEF TypeOK, Answer
<1> QED BY <1>1, IdleOK

\* The verdict of a verification is one of three.
LEMMA VerdictType ==
  ASSUME NEW r \in Requests
  PROVE  Verdict(r) \in {"release", "reject", "credit"}
BY DEF Verdict, SolanaVerdict, EthNativeVerdict, EthTokenVerdict

LEMMA StepReqOK ==
  ASSUME TypeOK, NEW r \in Requests, Step(r) \/ Crash(r)
  PROVE  ReqOK(req'[r])
<1>1. CASE Lookup(r)
  <2>1. CASE Answer(r)
    BY <2>1, AnswerOK
  <2>2. CASE ~Answer(r)
    <3> DEFINE w == WalletOf(req[r].user)
    <3>1. req' = [req EXCEPT ![r].wallet = w, ![r].pc = "insert"] /\ w # None
      BY <1>1, <2>2 DEF Lookup
    <3>2. req[r] \in RequestType /\ req[r].user \in Accounts /\ req[r].tx \in Txs /\ req[r].asset \in Assets
      BY <1>1 DEF Lookup, TypeOK
    <3>3. w \in Wallets
      BY <3>1, <3>2 DEF WalletOf, TypeOK
    <3> HIDE DEF w
    <3>4. req'[r] = [[req[r] EXCEPT !.wallet = w] EXCEPT !.pc = "insert"]
      BY <3>1 DEF TypeOK
    <3> QED BY <3>2, <3>3, <3>4 DEF ReqOK, RequestType, PCs
  <2> QED BY <2>1, <2>2
<1>2. CASE Insert(r)
  BY <1>2, AnswerOK, GotoOK DEF Insert, PCs
<1>3. CASE Verify(r)
  <2>1. \E pc \in {"release", "reject", "credit"} : Goto(r, pc)
    BY <1>3, VerdictType DEF Verify
  <2> QED BY <1>3, <2>1, GotoOK DEF Verify, PCs
<1>4. CASE Reject(r) \/ Release(r) \/ Finalize(r) \/ Crash(r)
  BY <1>4, AnswerOK DEF Reject, Release, Finalize, Crash
<1>5. CASE CreditAccount(r)
  BY <1>5, GotoOK DEF CreditAccount, PCs
<1> QED BY <1>1, <1>2, <1>3, <1>4, <1>5 DEF Step

LEMMA StepRowsOK ==
  ASSUME TypeOK, NEW r \in Requests, Step(r) \/ Crash(r)
  PROVE  rows' \in [Txs -> RowType]
<1> rows \in [Txs -> RowType]
  BY DEF TypeOK, RowType
<1>1. CASE UNCHANGED rows
  BY <1>1
<1>2. CASE Insert(r)
  BY <1>2 DEF Insert, TypeOK, RowType, Payments, Statuses
<1>3. CASE Reject(r)
  BY <1>3 DEF Reject, Write, Settled, RowType, Payments, Statuses
<1>4. CASE Release(r)
  BY <1>4 DEF Release, Write, RowType
<1>5. CASE Finalize(r)
  BY <1>5 DEF Finalize, Write, Settled, RowType, Payments, Statuses
<1> QED
  BY <1>1, <1>2, <1>3, <1>4, <1>5 DEF Step, Crash, Lookup, Verify, CreditAccount

LEMMA NextTypeOK == TypeOK /\ [Next]_vars => TypeOK'
<1> SUFFICES ASSUME TypeOK, [Next]_vars PROVE TypeOK'
  OBVIOUS
<1>1. ASSUME NEW t \in Txs, ChainMoves(t) PROVE TypeOK'
  <2>1. chain' \in [Txs -> {"absent", "pending", "mined", "reverted", "confirmed"}]
    BY <1>1 DEF ChainMoves, ChainSteps, TypeOK
  <2> QED BY <1>1, <2>1 DEF ChainMoves, TypeOK
<1>2. ASSUME NEW a \in Accounts, NEW w \in Wallets, Link(a, w) PROVE TypeOK'
  BY <1>2 DEF Link, TypeOK
<1>3. ASSUME NEW a \in Accounts, Unlink(a) PROVE TypeOK'
  BY <1>3 DEF Unlink, TypeOK
<1>4. ASSUME NEW r \in Requests, NEW u \in Accounts, NEW t \in Txs, NEW asset \in Assets,
             Submit(r, u, t, asset)
      PROVE TypeOK'
  <2> DEFINE q == [pc |-> IF Chain[t] = "solana" THEN "lookup" ELSE "insert",
                   user |-> u, tx |-> t, asset |-> asset, wallet |-> None]
  <2>1. ReqOK(q)
    BY DEF ReqOK, RequestType, PCs
  <2>2. req' = [req EXCEPT ![r] = q]
    BY <1>4 DEF Submit
  <2> HIDE DEF q
  <2>3. /\ req' \in [Requests -> RequestType]
        /\ \A s \in Requests : ReqOK(req'[s])
    BY <2>1, <2>2 DEF TypeOK, ReqOK
  <2> QED BY <1>4, <2>3 DEF Submit, TypeOK, ReqOK
<1>5. ASSUME NEW r \in Requests, Step(r) \/ Crash(r) PROVE TypeOK'
  <2>1. \A q \in Requests : ReqOK(req'[q])
    BY <1>5, OneRequest, StepReqOK DEF TypeOK, ReqOK
  <2>2. req' \in [Requests -> RequestType]
    <3>1. \A q \in Requests : req'[q] \in RequestType
      BY <2>1 DEF ReqOK
    <3>2. \E f : req' = [req EXCEPT ![r] = f]
                 \/ req' = [req EXCEPT ![r].pc = f]
                 \/ req' = [req EXCEPT ![r].wallet = WalletOf(req[r].user), ![r].pc = "insert"]
      BY <1>5 DEF Step, Crash, Lookup, Insert, Verify, Reject, Release,
                  CreditAccount, Finalize, Goto, Answer
    <3>3. req' = [q \in Requests |-> req'[q]]
      BY <3>2 DEF TypeOK
    <3> QED BY <3>1, <3>3
  <2>3. rows' \in [Txs -> Payments \cup {None}]
    BY <1>5, StepRowsOK DEF RowType
  <2>4. marked' \subseteq Accounts \X Txs
    <3>1. CASE CreditAccount(r)
      BY <3>1 DEF CreditAccount, TypeOK
    <3>2. CASE ~CreditAccount(r)
      BY <1>5, <3>2 DEF Step, Crash, Lookup, Insert, Verify, Reject, Release, Finalize, TypeOK
    <3> QED BY <3>1, <3>2
  <2>5. UNCHANGED <<chain, linked, controls>>
    BY <1>5 DEF Step, Crash, Lookup, Insert, Verify, Reject, Release, CreditAccount, Finalize
  <2>6. abandoned' \subseteq Txs
    <3>1. abandoned' \subseteq abandoned \cup {req[r].tx} /\ (abandoned' = abandoned \/ req[r].pc # "idle")
      BY <1>5 DEF Step, Crash, Lookup, Insert, Verify, Reject, Release, CreditAccount,
                  Finalize, Write, Locked
    <3> QED BY <3>1 DEF TypeOK
  <2> QED BY <2>1, <2>2, <2>3, <2>4, <2>5, <2>6 DEF TypeOK, ReqOK
<1>6. CASE UNCHANGED vars
  BY <1>6 DEF vars, TypeOK
<1> QED BY <1>1, <1>2, <1>3, <1>4, <1>5, <1>6 DEF Next

\* Every variable keeps its type, and an invocation under way is complete.
THEOREM TypeCorrect == Spec => []TypeOK
<1>1. Init => TypeOK
  BY IdleOK DEF Init, TypeOK, ReqOK, Idle
<1> QED BY <1>1, NextTypeOK, PTL DEF Spec

-----------------------------------------------------------------------------
(***************************************************************************)
(* The replay lock.                                                        *)
(***************************************************************************)

\* What one step of an invocation does to the lock: it keeps its row, or takes
\* a free one, or lets go.
LEMMA StepOfLock ==
  ASSUME TypeOK, ReplayLock, NEW r \in Requests, Step(r) \/ Crash(r)
  PROVE  \/ req'[r].pc \notin Locked
            /\ \A t \in Txs : rows'[t] # rows[t] =>
                   t = req[r].tx /\ (req[r].pc \in Locked \/ rows[t] = None)
         \/ /\ rows' = rows
            /\ req[r].pc \in Locked /\ req'[r].pc \in Locked
            /\ req'[r].user = req[r].user /\ req'[r].tx = req[r].tx
         \/ /\ req[r].pc = "insert" /\ req'[r].pc = "verify"
            /\ req'[r].user = req[r].user /\ req'[r].tx = req[r].tx
            /\ rows[req[r].tx] = None
            /\ rows' = [rows EXCEPT ![req[r].tx] =
                          [user |-> req[r].user, status |-> "pending"]]
<1>0. Answer(r) => req'[r].pc \notin Locked
  BY DEF Answer, Idle, Locked, TypeOK
<1>1. CASE Lookup(r)
  <2>1. CASE Answer(r)
    BY <1>0, <1>1, <2>1 DEF Lookup
  <2>2. CASE ~Answer(r)
    <3>1. req'[r].pc = "insert"
      BY <1>1, <2>2 DEF Lookup, TypeOK, RequestType
    <3> QED BY <1>1, <3>1 DEF Lookup, Locked
  <2> QED BY <2>1, <2>2
<1>2. CASE Insert(r)
  <2>1. CASE rows[req[r].tx] = None /\ Goto(r, "verify") /\ ~Answer(r)
    <3>1. req' = [req EXCEPT ![r].pc = "verify"] /\ req[r] \in RequestType
      BY <1>2, <2>1 DEF Insert, Goto, TypeOK
    <3>2. req'[r] = [req[r] EXCEPT !.pc = "verify"]
      BY <3>1 DEF TypeOK
    <3> QED BY <1>2, <2>1, <3>1, <3>2 DEF Insert, RequestType
  <2>2. CASE Answer(r)
    <3>1. \A t \in Txs : rows'[t] # rows[t] => t = req[r].tx /\ rows[t] = None
      BY <1>2, <2>2 DEF Insert, TypeOK
    <3> QED BY <1>0, <2>2, <3>1
  <2> QED BY <1>2, <2>1, <2>2 DEF Insert
<1>3. CASE Verify(r) \/ CreditAccount(r)
  <2>1. \E pc \in Locked : req' = [req EXCEPT ![r].pc = pc]
    BY <1>3, VerdictType DEF Verify, CreditAccount, Goto, Locked
  <2>2. PICK pc \in Locked : req'[r] = [req[r] EXCEPT !.pc = pc]
    BY <2>1 DEF TypeOK
  <2>3. req[r] \in RequestType /\ req[r].pc \in Locked /\ rows' = rows
    BY <1>3 DEF Verify, CreditAccount, Locked, TypeOK
  <2> QED BY <2>2, <2>3 DEF RequestType
<1>4. CASE Reject(r) \/ Release(r) \/ Finalize(r)
  <2>1. Answer(r) /\ req[r].pc \in Locked
    BY <1>4 DEF Reject, Release, Finalize, Locked
  <2>2. \A t \in Txs : t # req[r].tx => rows'[t] = rows[t]
    BY <1>4 DEF Reject, Release, Finalize, Write, TypeOK
  <2> QED BY <1>0, <2>1, <2>2
<1>5. CASE Crash(r)
  BY <1>0, <1>5 DEF Crash
<1> QED BY <1>1, <1>2, <1>3, <1>4, <1>5 DEF Step

\* The row of an invocation that holds the lock is there.
LEMMA LockedHasRow ==
  ASSUME TypeOK, ReplayLock, NEW q \in Requests, req[q].pc \in Locked
  PROVE  rows[req[q].tx] # None
<1>1. req[q].user \in Accounts /\ req[q].tx \in Txs
  BY DEF TypeOK, Locked
<1>2. [user |-> req[q].user, status |-> "pending"] \in Payments
  BY <1>1 DEF Payments, Statuses
<1> QED BY <1>2, TopupAssumption DEF ReplayLock

LEMMA LockStep == TypeOK /\ TypeOK' /\ ReplayLock /\ [Next]_vars => ReplayLock'
<1> SUFFICES ASSUME TypeOK, TypeOK', ReplayLock, [Next]_vars PROVE ReplayLock'
  OBVIOUS
<1>1. CASE UNCHANGED <<req, rows>>
  BY <1>1 DEF ReplayLock
<1>2. ASSUME NEW t \in Txs, ChainMoves(t) PROVE ReplayLock'
  BY <1>1, <1>2 DEF ChainMoves
<1>3. ASSUME NEW a \in Accounts, NEW w \in Wallets, Link(a, w) PROVE ReplayLock'
  BY <1>1, <1>3 DEF Link
<1>4. ASSUME NEW a \in Accounts, Unlink(a) PROVE ReplayLock'
  BY <1>1, <1>4 DEF Unlink
<1>5. ASSUME NEW r \in Requests, NEW u \in Accounts, NEW t \in Txs, NEW asset \in Assets,
             Submit(r, u, t, asset)
      PROVE ReplayLock'
  <2>1. req'[r].pc \notin Locked /\ rows' = rows
    BY <1>5 DEF Submit, Locked, TypeOK
  <2>2. \A q \in Requests : q # r => req'[q] = req[q]
    BY <1>5 DEF Submit, TypeOK
  <2> QED BY <2>1, <2>2 DEF ReplayLock
<1>6. ASSUME NEW r \in Requests, Step(r) \/ Crash(r) PROVE ReplayLock'
  <2>1. \A q \in Requests : q # r => req'[q] = req[q]
    BY <1>6, OneRequest
  <2>2. CASE /\ req'[r].pc \notin Locked
             /\ \A t \in Txs : rows'[t] # rows[t] =>
                   t = req[r].tx /\ (req[r].pc \in Locked \/ rows[t] = None)
    <3>1. ASSUME NEW s \in Requests, req'[s].pc \in Locked
          PROVE  /\ rows'[req'[s].tx] = [user |-> req'[s].user, status |-> "pending"]
                 /\ \A q \in Requests :
                      req'[q].pc \in Locked /\ req'[q].tx = req'[s].tx => q = s
      <4>1. s # r /\ req'[s] = req[s]
        BY <2>1, <2>2, <3>1
      <4>2. req[s].tx \in Txs
        BY <3>1, <4>1 DEF TypeOK, Locked
      <4>3. rows'[req[s].tx] = rows[req[s].tx]
        <5>1. rows[req[s].tx] # None
          BY <3>1, <4>1, LockedHasRow
        <5>2. req[s].tx # req[r].tx \/ req[r].pc \notin Locked
          BY <3>1, <4>1 DEF ReplayLock
        <5> QED BY <2>2, <4>2, <5>1, <5>2
      <4> QED BY <2>1, <2>2, <3>1, <4>1, <4>3 DEF ReplayLock
    <3> QED BY <3>1 DEF ReplayLock
  <2>3. CASE /\ rows' = rows
             /\ req[r].pc \in Locked /\ req'[r].pc \in Locked
             /\ req'[r].user = req[r].user /\ req'[r].tx = req[r].tx
    BY <2>1, <2>3 DEF ReplayLock
  <2>4. CASE /\ req[r].pc = "insert" /\ req'[r].pc = "verify"
             /\ req'[r].user = req[r].user /\ req'[r].tx = req[r].tx
             /\ rows[req[r].tx] = None
             /\ rows' = [rows EXCEPT ![req[r].tx] =
                           [user |-> req[r].user, status |-> "pending"]]
    <3>1. req[r].tx \in Txs
      BY <2>4 DEF TypeOK
    <3>2. \A q \in Requests : q # r /\ req[q].pc \in Locked => req[q].tx # req[r].tx /\ req[q].tx \in Txs
      <4> SUFFICES ASSUME NEW q \in Requests, q # r, req[q].pc \in Locked
                   PROVE  req[q].tx # req[r].tx /\ req[q].tx \in Txs
        OBVIOUS
      <4>1. rows[req[q].tx] # None /\ req[q].tx \in Txs
        BY LockedHasRow DEF TypeOK, Locked
      <4> QED BY <2>4, <4>1
    <3>3. /\ rows'[req[r].tx] = [user |-> req[r].user, status |-> "pending"]
          /\ \A t \in Txs : t # req[r].tx => rows'[t] = rows[t]
      BY <2>4, <3>1 DEF TypeOK
    <3> QED BY <2>1, <2>4, <3>2, <3>3 DEF ReplayLock
  <2> QED BY <1>6, <2>2, <2>3, <2>4, StepOfLock
<1>7. CASE UNCHANGED vars
  BY <1>1, <1>7 DEF vars
<1> QED BY <1>2, <1>3, <1>4, <1>5, <1>6, <1>7 DEF Next

\* No two invocations ever work on one transaction, and the row of the one that
\* does is its own: the primary key of `payments` is a lock, for any number of
\* concurrent submissions, crashes and failing writes.
THEOREM LockIsExclusive == Spec => []ReplayLock
<1>1. Init => ReplayLock
  BY DEF Init, ReplayLock, Idle, Locked
<1> QED BY <1>1, LockStep, TypeCorrect, PTL DEF Spec

\* What settles stays settled: a row only changes while it is pending, under the
\* lock of the invocation that inserted it.
THEOREM SettledRowsStay == Spec => SettledForGood
<1>1. TypeOK /\ ReplayLock /\ [Next]_vars =>
        \A t \in Txs : rows[t] # None /\ rows[t].status # "pending" => rows'[t] = rows[t]
  <2> SUFFICES ASSUME TypeOK, ReplayLock, [Next]_vars, NEW t \in Txs,
                      rows[t] # None, rows[t].status # "pending"
               PROVE  rows'[t] = rows[t]
    OBVIOUS
  <2>1. CASE UNCHANGED rows
    BY <2>1
  <2>2. ASSUME NEW r \in Requests, Step(r) \/ Crash(r) PROVE rows'[t] = rows[t]
    <3>1. req[r].pc \in Locked => t # req[r].tx
      <4> SUFFICES ASSUME req[r].pc \in Locked, t = req[r].tx PROVE FALSE
        OBVIOUS
      <4>1. rows[t] = [user |-> req[r].user, status |-> "pending"]
        BY DEF ReplayLock
      <4> QED BY <4>1
    <3> QED BY <2>2, <3>1, StepOfLock DEF TypeOK
  <2> QED BY <2>1, <2>2 DEF Next, vars, ChainMoves, Link, Unlink, Submit
<1>2. TypeOK /\ ReplayLock /\ [Next]_vars =>
        [\A t \in Txs : rows[t] # None /\ rows[t].status # "pending" => rows'[t] = rows[t]]_vars
  BY <1>1
<1> QED BY <1>2, TypeCorrect, LockIsExclusive, PTL DEF Spec, SettledForGood

-----------------------------------------------------------------------------
(***************************************************************************)
(* What is credited was earned.                                            *)
(***************************************************************************)

\* What the verification of a top-up establishes.
Earned(a, t) ==
  /\ chain[t] = "confirmed"
  /\ Pays[t] # {}
  /\ Value[t] # "dust"
  /\ Owns(a, t)
  /\ Chain[t] = "ethereum" => Sender[t] = a

\* The inductive invariant: a verdict is remembered as the step "credit", and
\* what it was based on cannot be undone: chains do not move back, and a link
\* that once was stays in the history.
Earnings ==
  /\ \A a \in Accounts : linked[a] # None => <<a, linked[a]>> \in controls
  /\ \A r \in Requests : req[r].wallet # None =>
       req[r].wallet = req[r].user \/ <<req[r].user, req[r].wallet>> \in controls
  /\ \A r \in Requests : req[r].pc = "credit" => Earned(req[r].user, req[r].tx)
  /\ \A m \in marked : Earned(m[1], m[2])

\* The same in the next state, of this state's account and transaction.
EarnedNext(a, t) ==
  /\ chain'[t] = "confirmed"
  /\ Pays[t] # {}
  /\ Value[t] # "dust"
  /\ Sender[t] = a \/ <<a, Sender[t]>> \in controls'
  /\ Chain[t] = "ethereum" => Sender[t] = a

\* Nothing takes back what was earned.
LEMMA EarnedStays ==
  ASSUME TypeOK, [Next]_vars, NEW a \in Accounts, NEW t \in Txs, Earned(a, t)
  PROVE  EarnedNext(a, t)
<1>1. chain'[t] = "confirmed"
  <2>1. ASSUME NEW s \in Txs, ChainMoves(s) PROVE chain'[t] = "confirmed"
    BY <2>1 DEF ChainMoves, ChainSteps, Earned, TypeOK
  <2>2. CASE UNCHANGED chain
    BY <2>2 DEF Earned
  <2> QED BY <2>1, <2>2 DEF Next, vars, Link, Unlink, Submit, Step, Crash, Lookup,
               Insert, Verify, Reject, Release, CreditAccount, Finalize
<1>2. controls \subseteq controls'
  BY DEF Next, vars, ChainMoves, Link, Unlink, Submit, Step, Crash, Lookup,
         Insert, Verify, Reject, Release, CreditAccount, Finalize
<1> QED BY <1>1, <1>2 DEF Earned, EarnedNext, Owns

\* A verification that credits has seen everything that is to be seen.
LEMMA VerdictEarns ==
  ASSUME TypeOK, Earnings, NEW r \in Requests, req[r].pc = "verify",
         Verdict(r) = "credit", MayPrice(req[r].tx, TRUE)
  PROVE  Earned(req[r].user, req[r].tx)
<1> DEFINE u == req[r].user
           t == req[r].tx
           w == req[r].wallet
<1>1. u \in Accounts /\ t \in Txs /\ Chain[t] \in Chains /\ Sender[t] # None
  BY TopupAssumption DEF TypeOK
<1>2. Value[t] # "dust"
  BY DEF MayPrice
<1>3. CASE Chain[t] = "solana"
  <2>1. chain[t] = "confirmed" /\ Pays[t] # {} /\ Sender[t] = w
    BY <1>3, <1>1 DEF Verdict, SolanaVerdict
  <2>2. w = u \/ <<u, w>> \in controls
    BY <1>1, <2>1 DEF Earnings
  <2> QED BY <1>2, <1>3, <2>1, <2>2 DEF Earned, Owns
<1>4. CASE Chain[t] = "ethereum"
  <2>1. chain[t] = "confirmed" /\ Pays[t] # {} /\ Sender[t] = u
    BY <1>4 DEF Verdict, EthNativeVerdict, EthTokenVerdict
  <2> QED BY <1>2, <2>1 DEF Earned, Owns
<1> QED BY <1>1, <1>3, <1>4 DEF Chains

LEMMA EarningsStep == TypeOK /\ TypeOK' /\ Earnings /\ [Next]_vars => Earnings'
<1> SUFFICES ASSUME TypeOK, TypeOK', Earnings, [Next]_vars PROVE Earnings'
  OBVIOUS
<1> USE DEF TypeOK
<1>0. controls \subseteq controls'
  BY DEF Next, vars, ChainMoves, Link, Unlink, Submit, Step, Crash, Lookup,
         Insert, Verify, Reject, Release, CreditAccount, Finalize
<1>1. \A a \in Accounts : linked'[a] # None => <<a, linked'[a]>> \in controls'
  <2>1. ASSUME NEW b \in Accounts, NEW w \in Wallets, Link(b, w)
        PROVE  \A a \in Accounts : linked'[a] # None => <<a, linked'[a]>> \in controls'
    BY <2>1 DEF Link, Earnings
  <2>2. ASSUME NEW b \in Accounts, Unlink(b)
        PROVE  \A a \in Accounts : linked'[a] # None => <<a, linked'[a]>> \in controls'
    BY <2>2 DEF Unlink, Earnings
  <2>3. CASE UNCHANGED linked
    BY <1>0, <2>3 DEF Earnings
  <2> QED BY <2>1, <2>2, <2>3 DEF Next, vars, ChainMoves, Submit, Step, Crash, Lookup,
               Insert, Verify, Reject, Release, CreditAccount, Finalize
<1>2. ASSUME NEW r \in Requests
      PROVE  /\ req'[r].wallet # None =>
                  req'[r].wallet = req'[r].user \/ <<req'[r].user, req'[r].wallet>> \in controls'
             /\ req'[r].pc = "credit" => EarnedNext(req'[r].user, req'[r].tx)
  <2> DEFINE Good ==
        /\ req'[r].wallet # None =>
             req'[r].wallet = req'[r].user \/ <<req'[r].user, req'[r].wallet>> \in controls'
        /\ req'[r].pc = "credit" => EarnedNext(req'[r].user, req'[r].tx)
  <2>1. CASE req'[r] = req[r]
    <3>1. req[r].pc = "credit" => EarnedNext(req[r].user, req[r].tx)
      BY EarnedStays DEF Earnings
    <3> QED BY <1>0, <2>1, <3>1 DEF Earnings
  <2>2. CASE req'[r].wallet = None /\ req'[r].pc # "credit"
    BY <2>2
  <2>3. CASE Lookup(r) /\ ~Answer(r)
    <3> DEFINE w == WalletOf(req[r].user)
    <3>1. w # None /\ req'[r] = [[req[r] EXCEPT !.wallet = w] EXCEPT !.pc = "insert"]
      BY <2>3 DEF Lookup
    <3>2. req[r] \in RequestType /\ req[r].user \in Accounts
      BY <2>3 DEF Lookup
    <3>3. w = req[r].user \/ <<req[r].user, w>> \in controls
      BY <3>1, <3>2 DEF WalletOf, Earnings
    <3> HIDE DEF w
    <3>4. req'[r].wallet = w /\ req'[r].user = req[r].user /\ req'[r].pc = "insert"
      BY <3>1, <3>2 DEF RequestType
    <3> QED BY <1>0, <3>3, <3>4
  <2>4. ASSUME NEW pc \in PCs, req[r].pc # "idle", Goto(r, pc),
               pc = "credit" => Earned(req[r].user, req[r].tx)
        PROVE  Good
    <3>1. req'[r] = [req[r] EXCEPT !.pc = pc] /\ req[r] \in RequestType
      BY <2>4 DEF Goto
    <3>2. /\ req'[r].wallet = req[r].wallet /\ req'[r].user = req[r].user
          /\ req'[r].tx = req[r].tx /\ req'[r].pc = pc
      BY <3>1 DEF RequestType
    <3>3. pc = "credit" => EarnedNext(req[r].user, req[r].tx)
      BY <2>4, EarnedStays
    <3> QED BY <1>0, <3>2, <3>3 DEF Earnings
  <2>5. ASSUME NEW s \in Requests, Step(s) \/ Crash(s) PROVE Good
    <3>1. CASE s # r
      BY <2>1, <2>5, <3>1, OneRequest
    <3>2. CASE s = r
      <4>1. CASE Answer(r)
        <5>1. req'[r] = Idle
          BY <4>1 DEF Answer
        <5> QED BY <2>2, <5>1 DEF Idle
      <4>2. CASE Insert(r) /\ ~Answer(r)
        BY <2>4, <4>2 DEF Insert, PCs
      <4>3. CASE CreditAccount(r)
        BY <2>4, <4>3 DEF CreditAccount, PCs
      <4>4. CASE Verify(r)
        <5>1. CASE Goto(r, "release") \/ Goto(r, "reject")
          BY <2>4, <4>4, <5>1 DEF Verify, PCs
        <5>2. CASE Verdict(r) = "credit" /\ MayPrice(req[r].tx, TRUE) /\ Goto(r, "credit")
          BY <2>4, <4>4, <5>2, VerdictEarns DEF Verify, PCs
        <5> QED BY <4>4, <5>1, <5>2, VerdictType DEF Verify
      <4> QED BY <2>3, <2>5, <3>2, <4>1, <4>2, <4>3, <4>4
              DEF Step, Crash, Lookup, Reject, Release, Finalize
    <3> QED BY <3>1, <3>2
  <2>6. ASSUME NEW s \in Requests, NEW u \in Accounts, NEW t \in Txs, NEW asset \in Assets,
               Submit(s, u, t, asset)
        PROVE  Good
    <3>1. s # r => req'[r] = req[r]
      BY <2>6 DEF Submit
    <3>2. s = r => req'[r].wallet = None /\ req'[r].pc # "credit"
      BY <2>6 DEF Submit
    <3> QED BY <2>1, <2>2, <3>1, <3>2
  <2>7. CASE UNCHANGED req
    BY <2>1, <2>7
  <2> QED BY <2>5, <2>6, <2>7 DEF Next, vars, ChainMoves, Link, Unlink
<1>3. \A m \in marked' : EarnedNext(m[1], m[2])
  <2>1. \A m \in marked : EarnedNext(m[1], m[2])
    BY EarnedStays DEF Earnings
  <2>2. ASSUME NEW r \in Requests, CreditAccount(r)
        PROVE  \A m \in marked' : EarnedNext(m[1], m[2])
    <3>1. EarnedNext(req[r].user, req[r].tx)
      BY <2>2, EarnedStays DEF CreditAccount, Earnings
    <3>2. \A m \in marked' : m \in marked \/ m = <<req[r].user, req[r].tx>>
      BY <2>2 DEF CreditAccount
    <3> QED BY <2>1, <3>1, <3>2
  <2>3. CASE UNCHANGED marked
    BY <2>1, <2>3
  <2> QED BY <2>2, <2>3 DEF Next, vars, ChainMoves, Link, Unlink, Submit, Step, Crash,
               Lookup, Insert, Verify, Reject, Release, Finalize
<1> QED BY <1>1, <1>2, <1>3 DEF Earnings, Earned, EarnedNext, Owns

LEMMA EarningsAlways == Spec => []Earnings
<1>1. Init => Earnings
  BY DEF Init, Earnings, Idle
<1> QED BY <1>1, EarningsStep, TypeCorrect, PTL DEF Spec

\* Only a final transaction of the account's own, that paid the deposit address
\* and is not dust, is ever credited, however the wallet links, the chains and
\* any number of invocations interleave.
THEOREM OnlyEarnedCredits == Spec => []CreditsAreEarned
<1>1. Earnings => CreditsAreEarned
  BY DEF Earnings, Earned, CreditsAreEarned
<1> QED BY <1>1, EarningsAlways, PTL

\* An Ethereum transaction is never credited to two accounts, not even when a
\* credit is applied and its reply lost.
THEOREM EthereumCreditsOnce == Spec => []EthCreditsOnce
<1>1. TypeOK /\ Earnings => EthCreditsOnce
  BY DEF TypeOK, Earnings, Earned, EthCreditsOnce
<1> QED BY <1>1, EarningsAlways, TypeCorrect, PTL

-----------------------------------------------------------------------------
(***************************************************************************)
(* Rows and credits agree.                                                 *)
(***************************************************************************)

Row(u, status) == [user |-> u, status |-> status]

LEMMA RowOwner ==
  ASSUME NEW a, NEW b, NEW s, NEW z, Row(a, s) = Row(b, z)
  PROVE  a = b
<1>1. Row(a, s).user = a /\ Row(b, z).user = b
  BY DEF Row
<1> QED BY <1>1

\* Under the lock, a step knows what it writes: the row it finds is its own
\* pending row.
LEMMA RowChange ==
  ASSUME TypeOK, ReplayLock, NEW r \in Requests, Step(r) \/ Crash(r)
  PROVE  \/ rows' = rows
         \/ Insert(r) /\ rows[req[r].tx] = None
            /\ rows' = [rows EXCEPT ![req[r].tx] = Row(req[r].user, "pending")]
         \/ Reject(r) /\ rows' = [rows EXCEPT ![req[r].tx] = Row(req[r].user, "rejected")]
         \/ Release(r) /\ rows' = [rows EXCEPT ![req[r].tx] = None]
         \/ Finalize(r) /\ rows' = [rows EXCEPT ![req[r].tx] = Row(req[r].user, "credited")]
<1> DEFINE u == req[r].user
           t == req[r].tx
<1>1. ASSUME req[r].pc \in Locked
      PROVE  /\ rows[t] # None
             /\ rows[t].status = "pending"
             /\ \A status \in Statuses : [rows[t] EXCEPT !.status = status] = Row(u, status)
  <2>1. u \in Accounts /\ t \in Txs
    BY <1>1 DEF TypeOK, Locked
  <2>2. rows[t] = Row(u, "pending")
    BY <1>1 DEF ReplayLock, Row
  <2>3. Row(u, "pending") \in Payments
    BY <2>1 DEF Row, Payments, Statuses
  <2> QED BY <2>2, <2>3, TopupAssumption DEF Row
<1>2. CASE Reject(r)
  <2>1. rows[t] # None /\ [rows[t] EXCEPT !.status = "rejected"] = Row(u, "rejected")
    BY <1>1, <1>2 DEF Reject, Locked, Statuses
  <2> QED BY <1>2, <2>1 DEF Reject, Write, Settled
<1>3. CASE Finalize(r)
  <2>1. rows[t] # None /\ [rows[t] EXCEPT !.status = "credited"] = Row(u, "credited")
    BY <1>1, <1>3 DEF Finalize, Locked, Statuses
  <2> QED BY <1>3, <2>1 DEF Finalize, Write, Settled
<1>4. CASE Release(r)
  <2>1. rows[t] # None /\ rows[t].status = "pending"
    BY <1>1, <1>4 DEF Release, Locked
  <2> QED BY <1>4, <2>1 DEF Release, Write
<1>5. CASE Insert(r)
  BY <1>5 DEF Insert, Row
<1>6. CASE Crash(r) \/ Lookup(r) \/ Verify(r) \/ CreditAccount(r)
  BY <1>6 DEF Crash, Lookup, Verify, CreditAccount
<1> QED BY <1>2, <1>3, <1>4, <1>5, <1>6 DEF Step

\* Where an invocation is, before and after its step: what it works on stays,
\* and "finalize" is reached by the credit alone.
LEMMA Progress ==
  ASSUME TypeOK, NEW r \in Requests, Step(r) \/ Crash(r), req'[r].pc # "idle"
  PROVE  /\ req[r].pc # "idle"
         /\ req'[r].user = req[r].user /\ req'[r].tx = req[r].tx
         /\ req'[r].pc = "finalize" =>
              CreditAccount(r) /\ marked' = marked \cup {<<req[r].user, req[r].tx>>}
         /\ req'[r].pc \in Locked => req[r].pc = "insert" \/ req[r].pc \in Locked
<1>0. req[r].pc # "idle" /\ req[r] \in RequestType /\ req'[r] # Idle /\ ~Answer(r)
  BY DEF Step, Crash, Lookup, Insert, Verify, Reject, Release, CreditAccount, Finalize,
         TypeOK, Idle, Answer
<1>1. CASE Lookup(r)
  <2>1. req'[r] = [[req[r] EXCEPT !.wallet = WalletOf(req[r].user)] EXCEPT !.pc = "insert"]
    BY <1>0, <1>1 DEF Lookup, TypeOK
  <2> QED BY <1>0, <2>1 DEF RequestType, Locked
<1>2. ASSUME NEW pc, Goto(r, pc) PROVE req'[r].pc = pc /\ req'[r].user = req[r].user /\ req'[r].tx = req[r].tx
  <2>1. req'[r] = [req[r] EXCEPT !.pc = pc]
    BY <1>2 DEF Goto, TypeOK
  <2> QED BY <1>0, <2>1 DEF RequestType
<1>3. CASE Insert(r)
  <2>1. Goto(r, "verify") /\ req[r].pc = "insert"
    BY <1>0, <1>3 DEF Insert
  <2> QED BY <1>0, <1>2, <2>1
<1>4. CASE Verify(r)
  <2>1. PICK pc \in {"release", "reject", "credit"} : Goto(r, pc)
    BY <1>4, VerdictType DEF Verify
  <2> QED BY <1>0, <1>2, <1>4, <2>1 DEF Verify, Locked
<1>5. CASE CreditAccount(r)
  BY <1>0, <1>2, <1>5 DEF CreditAccount, Locked
<1> QED BY <1>0, <1>1, <1>3, <1>4, <1>5 DEF Step, Crash, Reject, Release, Finalize

\* What a step that is not of an invocation leaves alone.
LEMMA Outside ==
  ASSUME TypeOK, [Next]_vars, ~\E r \in Requests : Step(r) \/ Crash(r)
  PROVE  /\ rows' = rows /\ marked' = marked /\ abandoned' = abandoned
         /\ \A q \in Requests : req'[q] = req[q]
                                \/ (req[q].pc = "idle" /\ req'[q].pc \in {"lookup", "insert"})
<1>1. ASSUME NEW r \in Requests, NEW u \in Accounts, NEW t \in Txs, NEW asset \in Assets,
             Submit(r, u, t, asset)
      PROVE  /\ rows' = rows /\ marked' = marked /\ abandoned' = abandoned
             /\ \A q \in Requests : req'[q] = req[q]
                                    \/ (req[q].pc = "idle" /\ req'[q].pc \in {"lookup", "insert"})
  BY <1>1 DEF Submit, TypeOK
<1> QED BY <1>1 DEF Next, vars, ChainMoves, Link, Unlink

Truths == /\ RowsTellTruth
          /\ \A r \in Requests : req[r].pc = "finalize" => <<req[r].user, req[r].tx>> \in marked

LEMMA TruthsStep == TypeOK /\ ReplayLock /\ Truths /\ [Next]_vars => Truths'
<1> SUFFICES ASSUME TypeOK, ReplayLock, Truths, [Next]_vars PROVE Truths'
  OBVIOUS
<1>1. ASSUME NEW r \in Requests, Step(r) \/ Crash(r) PROVE Truths'
  <2>1. marked \subseteq marked'
    BY <1>1 DEF Step, Crash, Lookup, Insert, Verify, Reject, Release, CreditAccount, Finalize
  <2>2. \A q \in Requests : req'[q].pc = "finalize" => <<req'[q].user, req'[q].tx>> \in marked'
    <3>1. req'[r].pc = "finalize" => <<req'[r].user, req'[r].tx>> \in marked'
      BY <1>1, Progress
    <3>2. \A q \in Requests : q # r => req'[q] = req[q]
      BY <1>1, OneRequest
    <3> QED BY <2>1, <3>1, <3>2 DEF Truths
  <2>3. ASSUME NEW t \in Txs, rows'[t] # None, rows'[t].status = "credited"
        PROVE  <<rows'[t].user, t>> \in marked'
    <3>1. CASE rows'[t] = rows[t]
      BY <2>1, <2>3, <3>1 DEF Truths, RowsTellTruth
    <3>2. CASE Finalize(r) /\ rows' = [rows EXCEPT ![req[r].tx] = Row(req[r].user, "credited")]
                /\ t = req[r].tx
      <4>1. <<req[r].user, t>> \in marked
        BY <3>2 DEF Finalize, Truths
      <4>2. rows'[t] = Row(req[r].user, "credited")
        BY <3>2 DEF TypeOK
      <4> QED BY <2>1, <4>1, <4>2 DEF Row
    <3>3. CASE \E status \in {"pending", "rejected"} : rows'[t] = Row(req[r].user, status)
      BY <2>3, <3>3 DEF Row
    <3> QED BY <1>1, <2>3, <3>1, <3>2, <3>3, RowChange DEF TypeOK
  <2> QED BY <2>2, <2>3 DEF Truths, RowsTellTruth
<1>2. CASE ~\E r \in Requests : Step(r) \/ Crash(r)
  BY <1>2, Outside DEF Truths, RowsTellTruth
<1> QED BY <1>1, <1>2

\* The history a user is shown never claims a credit the account did not get.
THEOREM HistoryIsTrue == Spec => []RowsTellTruth
<1>1. Init => Truths
  BY DEF Init, Truths, RowsTellTruth, Idle
<1>2. Truths => RowsTellTruth
  BY DEF Truths
<1> QED BY <1>1, <1>2, TruthsStep, TypeCorrect, LockIsExclusive, PTL DEF Spec

-----------------------------------------------------------------------------
(***************************************************************************)
(* A transaction credits once, if no reply of an object is lost.           *)
(***************************************************************************)

\* Once credited, a transaction's row stays with the account, and only the last
\* step of its own invocation is left.
Settles ==
  \A m \in marked :
    /\ rows[m[2]] \in {Row(m[1], "pending"), Row(m[1], "credited")}
    /\ \A r \in Requests : req[r].pc \in Locked /\ req[r].tx = m[2] => req[r].pc = "finalize"

LEMMA SettlesStep ==
  ASSUME RepliesCanFail = FALSE
  PROVE  TypeOK /\ ReplayLock /\ Settles /\ [Next]_vars => Settles'
<1> SUFFICES ASSUME TypeOK, ReplayLock, Settles, [Next]_vars PROVE Settles'
  OBVIOUS
<1>1. ASSUME NEW r \in Requests, Step(r) \/ Crash(r) PROVE Settles'
  <2> DEFINE u == req[r].user
             t == req[r].tx
  <2>1. \A q \in Requests : q # r => req'[q] = req[q]
    BY <1>1, OneRequest
  <2>2. CASE CreditAccount(r) /\ marked' = marked \cup {<<u, t>>} /\ Goto(r, "finalize")
    <3>1. rows[t] = Row(u, "pending") /\ rows' = rows /\ req[r].pc = "credit"
      BY <2>2 DEF CreditAccount, ReplayLock, Locked, Row
    <3>2. req'[r].pc = "finalize"
      BY <2>2 DEF Goto, TypeOK
    <3>3. \A q \in Requests : q # r /\ req'[q].pc \in Locked => req'[q].tx # t
      BY <2>1, <3>1 DEF ReplayLock, Locked
    <3>4. \A m \in marked : m[2] # t
      BY <3>1 DEF Settles, Locked
    <3>5. ASSUME NEW m \in marked'
          PROVE  /\ rows'[m[2]] \in {Row(m[1], "pending"), Row(m[1], "credited")}
                 /\ \A q \in Requests : req'[q].pc \in Locked /\ req'[q].tx = m[2]
                                          => req'[q].pc = "finalize"
      <4>1. CASE m = <<u, t>>
        BY <3>1, <3>2, <3>3, <4>1
      <4>2. CASE m \in marked
        BY <2>1, <3>1, <3>2, <4>2 DEF Settles
      <4> QED BY <2>2, <4>1, <4>2
    <3> QED BY <3>5 DEF Settles
  <2>3. CASE marked' = marked
    <3> SUFFICES ASSUME NEW m \in marked
                 PROVE  /\ rows'[m[2]] \in {Row(m[1], "pending"), Row(m[1], "credited")}
                        /\ \A q \in Requests : req'[q].pc \in Locked /\ req'[q].tx = m[2]
                                                 => req'[q].pc = "finalize"
      BY <2>3 DEF Settles
    <3>0. /\ m[1] \in Accounts /\ m[2] \in Txs
          /\ Row(m[1], "pending") \in Payments /\ Row(m[1], "credited") \in Payments
      BY DEF TypeOK, Row, Payments, Statuses
    <3>1. rows[m[2]] # None
      BY <3>0, TopupAssumption DEF Settles
    <3>2. CASE t # m[2]
      <4>1. rows'[m[2]] = rows[m[2]]
        BY <1>1, <3>0, <3>2, RowChange DEF TypeOK
      <4>2. req'[r].pc \in Locked => req'[r].tx # m[2]
        BY <1>1, <3>2, Progress DEF Locked
      <4> QED BY <2>1, <4>1, <4>2 DEF Settles
    <3>3. CASE t = m[2]
      <4>1. Insert(r) => rows' = rows /\ req'[r].pc \notin Locked
        <5> SUFFICES ASSUME Insert(r) PROVE rows' = rows /\ req'[r].pc \notin Locked
          OBVIOUS
        <5>1. Answer(r) /\ rows' = rows
          BY <3>1, <3>3 DEF Insert
        <5> QED BY <5>1 DEF Answer, Idle, Locked, TypeOK
      <4>2. req[r].pc \in Locked => req[r].pc = "finalize"
        BY <3>3 DEF Settles
      <4>3. ~Reject(r) /\ ~Release(r) /\ ~Verify(r) /\ ~CreditAccount(r)
        BY <4>2 DEF Reject, Release, Verify, CreditAccount, Locked
      <4>4. req'[r].pc \notin Locked
        BY <1>1, <4>1, <4>3 DEF Step, Crash, Lookup, Finalize, Answer, Idle, Locked, TypeOK, RequestType
      <4>5. rows'[m[2]] = rows[m[2]] \/ (rows'[m[2]] = Row(u, "credited") /\ Finalize(r))
        <5>1. CASE rows' = rows
          BY <5>1
        <5>2. CASE Finalize(r) /\ rows' = [rows EXCEPT ![req[r].tx] = Row(req[r].user, "credited")]
          BY <3>0, <3>3, <5>2 DEF TypeOK
        <5> QED BY <1>1, <3>1, <3>3, <4>3, <5>1, <5>2, RowChange
      <4>6. Finalize(r) => m[1] = u
        <5>1. Finalize(r) => rows[t] = Row(u, "pending")
          BY DEF Finalize, ReplayLock, Locked, Row
        <5> QED BY <3>3, <5>1, RowOwner DEF Settles
      <4> QED BY <2>1, <4>4, <4>5, <4>6 DEF Settles
    <3> QED BY <3>2, <3>3
  <2> QED BY <1>1, <2>2, <2>3 DEF Step, Crash, Lookup, Insert, Verify, Reject, Release,
              CreditAccount, Finalize
<1>2. CASE ~\E r \in Requests : Step(r) \/ Crash(r)
  BY <1>2, Outside DEF Settles, Locked
<1> QED BY <1>1, <1>2

\* The promise of the README, with the assumption it needs: every transaction,
\* Solana's included, credits one account once as long as no reply of an
\* account's object is lost.  Crashes, failing writes and moving wallets do not
\* break it.
THEOREM CreditsOnceIfRepliesArrive ==
  ASSUME RepliesCanFail = FALSE
  PROVE  Spec => []CreditsOnce
<1>1. Init => Settles
  BY DEF Init, Settles
<1>2. TypeOK /\ Settles => CreditsOnce
  <2> SUFFICES ASSUME TypeOK, Settles, NEW m \in marked, NEW n \in marked, m[2] = n[2]
               PROVE  m = n
    BY DEF CreditsOnce
  <2>1. m[1] = n[1]
    BY RowOwner DEF Settles
  <2> QED BY <2>1 DEF TypeOK
<1>3. TypeOK /\ ReplayLock /\ Settles /\ [Next]_vars => Settles'
  BY SettlesStep
<1> QED BY <1>1, <1>2, <1>3, TypeCorrect, LockIsExclusive, PTL DEF Spec

-----------------------------------------------------------------------------
(***************************************************************************)
(* A pending row has an owner, or was abandoned.                           *)
(***************************************************************************)

\* What a step of an invocation does to the holders of the lock, to the row of
\* its transaction and to the history of abandoned rows.
Keeps(r) ==
  /\ rows' = rows /\ abandoned' = abandoned
  /\ req'[r].pc \in Locked <=> req[r].pc \in Locked
  /\ req[r].pc \in Locked => req'[r].tx = req[r].tx

Takes(r) ==
  /\ req[r].pc \notin Locked /\ req[r].tx \in Txs /\ rows[req[r].tx] = None
  /\ rows' = [rows EXCEPT ![req[r].tx] = Row(req[r].user, "pending")]
  /\ Row(req[r].user, "pending") # None
  /\ \/ req'[r].pc \in Locked /\ req'[r].tx = req[r].tx /\ abandoned' = abandoned
     \/ req'[r].pc \notin Locked /\ abandoned' = abandoned \cup {req[r].tx}

LetsGo(r) ==
  /\ req[r].pc \in Locked /\ req'[r].pc \notin Locked
  /\ \A t \in Txs : t # req[r].tx => rows'[t] = rows[t]
  /\ \/ /\ rows'[req[r].tx] = None \/ rows'[req[r].tx].status # "pending"
        /\ abandoned' = abandoned
     \/ rows' = rows /\ abandoned' = abandoned \cup {req[r].tx}

\* The steps that settle or delete the row, or fail to.
LEMMA WriteLetsGo ==
  ASSUME TypeOK, ReplayLock, NEW r \in Requests, Reject(r) \/ Release(r) \/ Finalize(r)
  PROVE  LetsGo(r)
<1> DEFINE t == req[r].tx
           u == req[r].user
<1>1. req[r].pc \in Locked /\ t \in Txs /\ u \in Accounts /\ Answer(r)
  BY DEF Reject, Release, Finalize, Locked, TypeOK
<1>2. rows[t] = Row(u, "pending") /\ rows[t] # None
  BY <1>1, LockedHasRow DEF ReplayLock, Row
<1>3. \A status : [rows[t] EXCEPT !.status = status].status = status
  BY <1>2 DEF Row
<1>4. req'[r].pc \notin Locked
  BY <1>1 DEF Answer, Idle, Locked, TypeOK
<1>5. ASSUME NEW row, row = None \/ row.status # "pending", Write(r, row)
      PROVE  LetsGo(r)
  BY <1>1, <1>4, <1>5 DEF LetsGo, Write, TypeOK
<1>6. CASE Reject(r)
  <2>1. Write(r, [rows[t] EXCEPT !.status = "rejected"])
    BY <1>2, <1>6 DEF Reject, Settled
  <2> QED BY <1>3, <1>5, <2>1
<1>7. CASE Release(r)
  <2>1. rows[t].status = "pending"
    BY <1>2 DEF Row
  <2>2. Write(r, None)
    BY <1>2, <1>7, <2>1 DEF Release
  <2> QED BY <1>5, <2>2
<1>8. CASE Finalize(r)
  <2>1. Write(r, [rows[t] EXCEPT !.status = "credited"])
    BY <1>2, <1>8 DEF Finalize, Settled
  <2> QED BY <1>3, <1>5, <2>1
<1> QED BY <1>6, <1>7, <1>8

LEMMA StepOfPending ==
  ASSUME TypeOK, ReplayLock, NEW r \in Requests, Step(r) \/ Crash(r)
  PROVE  Keeps(r) \/ Takes(r) \/ LetsGo(r)
<1>0. Answer(r) => req'[r].pc \notin Locked
  BY DEF Answer, Idle, Locked, TypeOK
<1>1. CASE Lookup(r)
  <2>1. req[r].pc \notin Locked /\ rows' = rows /\ abandoned' = abandoned
    BY <1>1 DEF Lookup, Locked
  <2>2. req'[r].pc \notin Locked
    BY <1>0, <1>1 DEF Lookup, Locked, TypeOK, RequestType
  <2> QED BY <2>1, <2>2 DEF Keeps
<1>2. CASE Insert(r)
  <2>1. /\ req[r].pc \notin Locked /\ req[r].tx \in Txs /\ req[r].user \in Accounts
        /\ req[r] \in RequestType
    BY <1>2 DEF Insert, Locked, TypeOK
  <2>2. CASE Answer(r) /\ UNCHANGED <<rows, abandoned>>
    BY <1>0, <2>1, <2>2 DEF Keeps
  <2>3. CASE ~(Answer(r) /\ UNCHANGED <<rows, abandoned>>)
    <3>1. /\ rows[req[r].tx] = None
          /\ rows' = [rows EXCEPT ![req[r].tx] = Row(req[r].user, "pending")]
          /\ \/ Goto(r, "verify") /\ UNCHANGED abandoned
             \/ Answer(r) /\ abandoned' = abandoned \cup {req[r].tx}
      BY <1>2, <2>3 DEF Insert, Row
    <3>2. Row(req[r].user, "pending") # None
      <4>1. Row(req[r].user, "pending") \in Payments
        BY <2>1 DEF Row, Payments, Statuses
      <4> QED BY <4>1, TopupAssumption
    <3>3. Goto(r, "verify") => req'[r].pc \in Locked /\ req'[r].tx = req[r].tx
      <4> SUFFICES ASSUME Goto(r, "verify") PROVE req'[r].pc \in Locked /\ req'[r].tx = req[r].tx
        OBVIOUS
      <4>1. req'[r] = [req[r] EXCEPT !.pc = "verify"]
        BY DEF Goto, TypeOK
      <4> QED BY <2>1, <4>1 DEF RequestType, Locked
    <3> QED BY <1>0, <2>1, <3>1, <3>2, <3>3 DEF Takes
  <2> QED BY <2>2, <2>3
<1>3. CASE Verify(r) \/ CreditAccount(r)
  <2>1. \E pc \in Locked : req' = [req EXCEPT ![r].pc = pc]
    BY <1>3, VerdictType DEF Verify, CreditAccount, Goto, Locked
  <2>2. PICK pc \in Locked : req'[r] = [req[r] EXCEPT !.pc = pc]
    BY <2>1 DEF TypeOK
  <2>3. /\ req[r] \in RequestType /\ req[r].pc \in Locked
        /\ rows' = rows /\ abandoned' = abandoned
    BY <1>3 DEF Verify, CreditAccount, Locked, TypeOK
  <2> QED BY <2>2, <2>3 DEF RequestType, Keeps
<1>4. CASE Reject(r) \/ Release(r) \/ Finalize(r)
  BY <1>4, WriteLetsGo
<1>5. CASE Crash(r)
  BY <1>0, <1>5 DEF Crash, Keeps, LetsGo
<1> QED BY <1>1, <1>2, <1>3, <1>4, <1>5 DEF Step

\* What PendingIsOwned says of one transaction, in the next state.
OwnedNext(t) ==
  /\ rows'[t] # None /\ rows'[t].status = "pending" =>
       t \in abandoned' \/ \E q \in Requests : req'[q].pc \in Locked /\ req'[q].tx = t
  /\ t \in abandoned' =>
       /\ rows'[t] # None /\ rows'[t].status = "pending"
       /\ \A q \in Requests : ~(req'[q].pc \in Locked /\ req'[q].tx = t)

\* A transaction whose row, holders and history stay.
LEMMA OwnedStays ==
  ASSUME PendingIsOwned, NEW t \in Txs, rows'[t] = rows[t],
         t \in abandoned' <=> t \in abandoned,
         \A q \in Requests : req'[q].pc \in Locked /\ req'[q].tx = t <=> HeldBy(q, t)
  PROVE  OwnedNext(t)
BY DEF PendingIsOwned, OwnedNext, Pending, HeldBy

LEMMA PendingStep ==
  TypeOK /\ ReplayLock /\ PendingIsOwned /\ [Next]_vars => PendingIsOwned'
<1> SUFFICES ASSUME TypeOK, ReplayLock, PendingIsOwned, [Next]_vars, NEW t \in Txs
             PROVE  OwnedNext(t)
  BY DEF PendingIsOwned, OwnedNext, Pending, HeldBy
<1>1. ASSUME NEW r \in Requests, Step(r) \/ Crash(r) PROVE OwnedNext(t)
  <2>1. \A q \in Requests : q # r => req'[q] = req[q]
    BY <1>1, OneRequest
  <2>2. CASE Keeps(r)
    BY <2>1, <2>2, OwnedStays DEF Keeps, HeldBy
  <2>3. CASE Takes(r) /\ t # req[r].tx
    <3>1. rows'[t] = rows[t] /\ (t \in abandoned' <=> t \in abandoned)
      BY <2>3 DEF Takes, TypeOK
    <3>2. ~HeldBy(r, t) /\ ~(req'[r].pc \in Locked /\ req'[r].tx = t)
      BY <2>3 DEF Takes, HeldBy
    <3> QED BY <2>1, <3>1, <3>2, OwnedStays DEF HeldBy
  <2>4. CASE Takes(r) /\ t = req[r].tx
    <3>1. t \notin abandoned
      BY <2>4 DEF Takes, PendingIsOwned, Pending
    <3>2. \A q \in Requests : ~HeldBy(q, t)
      BY <2>4, LockedHasRow DEF Takes, HeldBy
    <3>3. rows'[t] # None /\ rows'[t].status = "pending"
      BY <2>4 DEF Takes, TypeOK, Row
    <3> QED BY <2>1, <2>4, <3>1, <3>2, <3>3 DEF Takes, HeldBy, OwnedNext
  <2>5. CASE LetsGo(r) /\ t # req[r].tx
    <3>1. rows'[t] = rows[t] /\ (t \in abandoned' <=> t \in abandoned)
      BY <2>5 DEF LetsGo
    <3>2. ~HeldBy(r, t) /\ ~(req'[r].pc \in Locked /\ req'[r].tx = t)
      BY <2>5 DEF LetsGo, HeldBy
    <3> QED BY <2>1, <3>1, <3>2, OwnedStays DEF HeldBy
  <2>6. CASE LetsGo(r) /\ t = req[r].tx
    <3>1. HeldBy(r, t)
      BY <2>6 DEF LetsGo, HeldBy
    <3>2. t \notin abandoned
      BY <3>1 DEF PendingIsOwned
    <3>3. \A q \in Requests : ~(req'[q].pc \in Locked /\ req'[q].tx = t)
      <4>1. req'[r].pc \notin Locked
        BY <2>6 DEF LetsGo
      <4>2. \A q \in Requests : req[q].pc \in Locked /\ req[q].tx = t => q = r
        BY <2>6, <3>1 DEF HeldBy, ReplayLock
      <4> QED BY <2>1, <4>1, <4>2
    <3>4. rows[t] # None /\ rows[t].status = "pending"
      <4>1. rows[t] = [user |-> req[r].user, status |-> "pending"]
        BY <3>1 DEF HeldBy, ReplayLock
      <4> QED BY <3>1, <4>1, LockedHasRow DEF HeldBy
    <3> QED BY <2>6, <3>2, <3>3, <3>4 DEF LetsGo, OwnedNext
  <2> QED BY <1>1, <2>2, <2>3, <2>4, <2>5, <2>6, StepOfPending
<1>2. CASE ~\E r \in Requests : Step(r) \/ Crash(r)
  <2>1. rows' = rows /\ abandoned' = abandoned
    BY <1>2, Outside
  <2>2. ASSUME NEW q \in Requests
        PROVE  req'[q].pc \in Locked /\ req'[q].tx = t <=> HeldBy(q, t)
    <3>1. CASE req'[q] = req[q]
      BY <3>1 DEF HeldBy
    <3>2. CASE req[q].pc = "idle" /\ req'[q].pc \in {"lookup", "insert"}
      BY <3>2 DEF HeldBy, Locked
    <3> QED BY <1>2, <3>1, <3>2, Outside
  <2> QED BY <2>1, <2>2, OwnedStays
<1> QED BY <1>1, <1>2

\* The comment of payments.rs, and what becomes of it when an invocation is cut
\* short or a write fails: a pending row has exactly one of an invocation that
\* will settle or delete it, and nobody for ever.
THEOREM PendingOwnedOrAbandoned == Spec => []PendingIsOwned
<1>1. Init => PendingIsOwned
  BY DEF Init, PendingIsOwned, Pending
<1> QED BY <1>1, PendingStep, TypeCorrect, LockIsExclusive, PTL DEF Spec
=============================================================================
