-------------------------------- MODULE Topup --------------------------------
(***************************************************************************)
(* Crypto top-ups: user_worker/src/payments.rs with the verification of    *)
(* solana.rs and the wallet linking of solana_link.rs.                     *)
(*                                                                         *)
(* A top-up is one invocation of a Worker, with no lock but the primary    *)
(* key of the D1 table `payments`; any other invocation may run at each of *)
(* its awaits.  The RPC reads of one verification are taken together: they *)
(* change nothing.                                                         *)
(*                                                                         *)
(* Definitions named Bug... are seeded faults: what a plausible mistake    *)
(* would make of the definition that follows.  Each breaks a property.     *)
(***************************************************************************)
EXTENDS Integers, FiniteSets

CONSTANTS
  Accounts,  \* addresses with a row in `users`; each has its Durable Object
  Wallets,   \* Solana addresses; an account that is one signs in with Solana
  Txs,       \* transaction hashes and signatures
  Requests,  \* concurrent invocations of POST /user/api/topup
  None,
  Chain,     \* the chain a transaction is on
  Sender,    \* who signed it: an account (Ethereum) or a wallet (Solana)
  Pays,      \* the assets it transfers to the deposit address
  Value,     \* its value against MIN_TOPUP_POINTS
  CanCrash,      \* an invocation may end at any await
  WritesCanFail, \* a D1 write may fail; the code only logs it
  RepliesCanFail \* the reply of the Durable Object may be lost

Chains == {"ethereum", "solana"}
Assets == {"native", "token"}  \* ETH or SOL, and USDT or USDC
Statuses == {"pending", "rejected", "credited"}
Payments == [user : Accounts, status : Statuses]

ASSUME TopupAssumption ==
  /\ None \notin Accounts \cup Wallets \cup Txs \cup Payments
  /\ Chain \in [Txs -> Chains]
  /\ Sender \in [Txs -> Accounts \cup Wallets]
  /\ Pays \in [Txs -> SUBSET Assets]
  /\ Value \in [Txs -> {"enough", "dust", "borderline"}]
  /\ {CanCrash, WritesCanFail, RepliesCanFail} \subseteq BOOLEAN

VARIABLES
  chain,   \* how far each transaction is on its chain
  linked,  \* users.solana_address per account
  rows,    \* the table `payments`: per tx_hash its row, or None
  marked,  \* <<account, tx>> with a "credit:tx:{tx}" marker in its object
  req,     \* the state of each invocation
  controls, \* history: <<account, wallet>> that were ever linked
  abandoned \* history: transactions whose pending row an invocation left behind

vars == <<chain, linked, rows, marked, req, controls, abandoned>>

PCs == {"idle", "lookup", "insert", "verify", "reject", "release", "credit",
        "finalize"}
Idle == [pc |-> "idle", user |-> None, tx |-> None, asset |-> None, wallet |-> None]

Init ==
  /\ chain = [t \in Txs |-> "absent"]
  /\ linked = [a \in Accounts |-> None]
  /\ rows = [t \in Txs |-> None]
  /\ marked = {}
  /\ req = [r \in Requests |-> Idle]
  /\ controls = {}
  /\ abandoned = {}

-----------------------------------------------------------------------------
(***************************************************************************)
(* The chains, and the wallet links.                                       *)
(***************************************************************************)

\* A transaction may be dropped, or lose its block, until it is final.  A failed
\* one may lose its block too; Solana only shows it once it is final.
ChainSteps(t) == {<<"absent", "pending">>, <<"pending", "absent">>,
                  <<"pending", "mined">>, <<"mined", "pending">>,
                  <<"pending", "reverted">>, <<"mined", "confirmed">>}
                 \cup IF Chain[t] = "ethereum" THEN {<<"reverted", "pending">>} ELSE {}

ChainMoves(t) ==
  /\ \E s \in ChainSteps(t) : chain[t] = s[1] /\ chain' = [chain EXCEPT ![t] = s[2]]
  /\ UNCHANGED <<linked, rows, marked, req, controls, abandoned>>

\* link(): solana_address is UNIQUE.  That a wallet with an account of its own is
\* refused can be overtaken (module Wallets), so nothing here relies on it.
Link(a, w) ==
  /\ \A b \in Accounts : linked[b] = w => b = a
  /\ linked' = [linked EXCEPT ![a] = w]
  /\ controls' = controls \cup {<<a, w>>}
  /\ UNCHANGED <<chain, rows, marked, req, abandoned>>

Unlink(a) ==
  /\ linked' = [linked EXCEPT ![a] = None]
  /\ UNCHANGED <<chain, rows, marked, req, controls, abandoned>>

-----------------------------------------------------------------------------
(***************************************************************************)
(* One top-up.                                                             *)
(***************************************************************************)

Goto(r, pc) == req' = [req EXCEPT ![r].pc = pc]
Answer(r)   == req' = [req EXCEPT ![r] = Idle]

\* POST /user/api/topup with {chain, token, tx_hash}.  The Solana path first
\* looks the wallet up.
Submit(r, u, t, asset) ==
  /\ req[r].pc = "idle"
  /\ req' = [req EXCEPT ![r] = [pc |-> IF Chain[t] = "solana" THEN "lookup" ELSE "insert",
                                user |-> u, tx |-> t, asset |-> asset,
                                wallet |-> None]]
  /\ UNCHANGED <<chain, linked, rows, marked, controls, abandoned>>

\* linked_solana(): the linked wallet, else the account itself when it is a
\* Solana principal.
WalletOf(a) == IF linked[a] # None THEN linked[a]
               ELSE IF a \in Wallets THEN a ELSE None

Lookup(r) ==
  LET w == WalletOf(req[r].user) IN
  /\ req[r].pc = "lookup"
  /\ \/ Answer(r)  \* 500, the query failed; 400, there is no wallet
     \/ w # None /\ req' = [req EXCEPT ![r].wallet = w, ![r].pc = "insert"]
  /\ UNCHANGED <<chain, linked, rows, marked, controls, abandoned>>

\* Takes a rejected transaction up again.
BugInsertReopens(r) ==
  LET t == req[r].tx IN
  /\ req[r].pc = "insert"
  /\ IF rows[t] = None \/ rows[t].status = "rejected"
     THEN /\ rows' = [rows EXCEPT ![t] = [user |-> req[r].user, status |-> "pending"]]
          /\ Goto(r, "verify")
     ELSE Answer(r) /\ UNCHANGED rows
  /\ UNCHANGED <<chain, linked, marked, controls, abandoned>>

\* Takes over a row that looks stale, to cure what a crash leaves behind.
BugInsertTakesOver(r) ==
  LET t == req[r].tx IN
  /\ req[r].pc = "insert"
  /\ IF rows[t] = None \/ rows[t].status = "pending"
     THEN /\ rows' = [rows EXCEPT ![t] = [user |-> req[r].user, status |-> "pending"]]
          /\ Goto(r, "verify")
     ELSE Answer(r) /\ UNCHANGED rows
  /\ UNCHANGED <<chain, linked, marked, controls, abandoned>>

\* The replay lock: INSERT INTO payments; 409 when the transaction has a row.
\* A write that fails answers 500, also when only its reply was lost.
Insert(r) ==
  LET t == req[r].tx IN
  /\ req[r].pc = "insert"
  /\ \/ /\ rows[t] = None
        /\ rows' = [rows EXCEPT ![t] = [user |-> req[r].user, status |-> "pending"]]
        /\ \/ Goto(r, "verify") /\ UNCHANGED abandoned
           \/ WritesCanFail /\ Answer(r) /\ abandoned' = abandoned \cup {t}
     \/ /\ rows[t] # None \/ WritesCanFail
        /\ Answer(r) /\ UNCHANGED <<rows, abandoned>>
  /\ UNCHANGED <<chain, linked, marked, controls>>

\* Credits whoever submits the transaction.
BugEthNativeVerdict(u, t) ==
  IF chain[t] = "absent" THEN "release"
  ELSE IF "native" \notin Pays[t] \/ chain[t] = "reverted" THEN "reject"
  ELSE IF chain[t] # "confirmed" THEN "release"
  ELSE "credit"

\* Does not wait for confirmations.
BugEthTokenVerdict(u, t) ==
  IF chain[t] = "absent" \/ Sender[t] # u THEN "release"
  ELSE IF chain[t] = "reverted" THEN "reject"
  ELSE IF chain[t] = "pending" THEN "release"
  ELSE IF "token" \notin Pays[t] THEN "reject"
  ELSE "credit"

\* What the checks of each path make of a transaction, in the order of the
\* code: "release" deletes the row for a retry, "reject" is for ever.
EthNativeVerdict(u, t) ==
  IF chain[t] = "absent" THEN "release"
  ELSE IF "native" \notin Pays[t] THEN "reject"
  ELSE IF Sender[t] # u THEN "release"
  ELSE IF chain[t] = "reverted" THEN "reject"
  ELSE IF chain[t] # "confirmed" THEN "release"
  ELSE "credit"

EthTokenVerdict(u, t) ==
  IF chain[t] = "absent" \/ Sender[t] # u THEN "release"
  ELSE IF chain[t] = "reverted" THEN "reject"
  ELSE IF chain[t] = "pending" THEN "release"
  ELSE IF "token" \notin Pays[t] THEN "reject"
  ELSE IF chain[t] # "confirmed" THEN "release"
  ELSE "credit"

\* Solana is read at the `finalized` commitment.
SolanaVerdict(w, t, asset) ==
  IF chain[t] \notin {"confirmed", "reverted"} THEN "release"
  ELSE IF chain[t] = "reverted" THEN "reject"
  ELSE IF Sender[t] # w THEN "release"
  ELSE IF asset \notin Pays[t] THEN "reject"
  ELSE "credit"

Verdict(r) ==
  LET t == req[r].tx IN
  IF Chain[t] = "solana" THEN SolanaVerdict(req[r].wallet, t, req[r].asset)
  ELSE IF req[r].asset = "native" THEN EthNativeVerdict(req[r].user, t)
  ELSE EthTokenVerdict(req[r].user, t)

\* The points at the price of the moment; only a volatile asset has a price
\* that decides.
MayPrice(t, enough) == \/ Value[t] = "borderline"
                       \/ (Value[t] = "enough") = enough

\* Answers an RPC failure at once.
BugVerify(r) ==
  /\ req[r].pc = "verify"
  /\ \/ Answer(r)
     \/ Verdict(r) # "credit" /\ Goto(r, Verdict(r))
     \/ Verdict(r) = "credit" /\ Goto(r, "credit")
  /\ UNCHANGED <<chain, linked, rows, marked, controls, abandoned>>

\* Verification and pricing, with every way they end.  An RPC or price-feed
\* failure releases the row.
Verify(r) ==
  /\ req[r].pc = "verify"
  /\ \/ Goto(r, "release")
     \/ Verdict(r) # "credit" /\ Goto(r, Verdict(r))
     \/ /\ Verdict(r) = "credit"
        /\ \E enough \in BOOLEAN : /\ MayPrice(req[r].tx, enough)
                                   /\ Goto(r, IF enough THEN "credit" ELSE "reject")
  /\ UNCHANGED <<chain, linked, rows, marked, controls, abandoned>>

\* The later D1 writes, to the row of the transaction, take effect or fail; the
\* code logs a failure and ignores it.
Write(r, row) ==
  \/ rows' = [rows EXCEPT ![req[r].tx] = row] /\ UNCHANGED abandoned
  \/ /\ WritesCanFail
     /\ UNCHANGED rows /\ abandoned' = abandoned \cup {req[r].tx}

\* The row after UPDATE payments SET status = ..., which needs one to be there.
Settled(r, status) ==
  LET row == rows[req[r].tx] IN
  IF row = None THEN None ELSE [row EXCEPT !.status = status]

\* Answers without a write.
BugReject(r) ==
  /\ req[r].pc = "reject"
  /\ Answer(r)
  /\ UNCHANGED <<chain, linked, rows, marked, controls, abandoned>>

\* reject(): UPDATE payments SET status='rejected'.
Reject(r) ==
  /\ req[r].pc = "reject"
  /\ Write(r, Settled(r, "rejected"))
  /\ Answer(r)
  /\ UNCHANGED <<chain, linked, marked, controls>>

\* delete_pending(): DELETE FROM payments ... AND status='pending'.
Release(r) ==
  LET row == rows[req[r].tx] IN
  /\ req[r].pc = "release"
  /\ Write(r, IF row = None THEN None
              ELSE IF row.status = "pending" THEN None ELSE row)
  /\ Answer(r)
  /\ UNCHANGED <<chain, linked, marked, controls>>

\* Does not look at the answer of the Durable Object.
BugCreditAccount(r) ==
  /\ req[r].pc = "credit"
  /\ \/ marked' = marked \cup {<<req[r].user, req[r].tx>>}
     \/ UNCHANGED marked
  /\ Goto(r, "finalize")
  /\ UNCHANGED <<chain, linked, rows, controls, abandoned>>

\* finalize_credit(): the call of the Durable Object.  It applies a key once per
\* account.  An error releases the row, also when the credit was applied and
\* only its reply was lost.
CreditAccount(r) ==
  /\ req[r].pc = "credit"
  /\ \/ /\ marked' = marked \cup {<<req[r].user, req[r].tx>>}
        /\ Goto(r, "finalize")
     \/ UNCHANGED marked /\ Goto(r, "release")
     \/ /\ RepliesCanFail
        /\ marked' = marked \cup {<<req[r].user, req[r].tx>>}
        /\ Goto(r, "release")
  /\ UNCHANGED <<chain, linked, rows, controls, abandoned>>

\* Writes a status no reader of the table knows.
BugFinalize(r) ==
  /\ req[r].pc = "finalize"
  /\ Write(r, Settled(r, "done"))
  /\ Answer(r)
  /\ UNCHANGED <<chain, linked, marked, controls>>

\* UPDATE payments SET ... status='credited'.
Finalize(r) ==
  /\ req[r].pc = "finalize"
  /\ Write(r, Settled(r, "credited"))
  /\ Answer(r)
  /\ UNCHANGED <<chain, linked, marked, controls>>

Locked == {"verify", "reject", "release", "credit", "finalize"}

\* The invocation ends: the client went away, or the Worker was stopped.
Crash(r) ==
  /\ CanCrash /\ req[r].pc # "idle"
  /\ Answer(r)
  /\ abandoned' = IF req[r].pc \in Locked THEN abandoned \cup {req[r].tx} ELSE abandoned
  /\ UNCHANGED <<chain, linked, rows, marked, controls>>

Step(r) == \/ Lookup(r) \/ Insert(r) \/ Verify(r) \/ Reject(r) \/ Release(r)
           \/ CreditAccount(r) \/ Finalize(r)

Next ==
  \/ \E t \in Txs : ChainMoves(t)
  \/ \E a \in Accounts, w \in Wallets : Link(a, w)
  \/ \E a \in Accounts : Unlink(a)
  \/ \E r \in Requests :
       \/ \E u \in Accounts, t \in Txs, asset \in Assets : Submit(r, u, t, asset)
       \/ Step(r)
       \/ Crash(r)

Spec == Init /\ [][Next]_vars

\* The platform runs an invocation that has work to do.
FairSpec == Spec /\ \A r \in Requests : WF_vars(Step(r))

-----------------------------------------------------------------------------
(***************************************************************************)
(* Properties.                                                             *)
(***************************************************************************)

RequestType ==
  [pc : PCs, user : Accounts \cup {None}, tx : Txs \cup {None},
   asset : Assets \cup {None}, wallet : Wallets \cup {None}]

\* What every variable holds; a request that is under way names its account and
\* its transaction.
TypeOK ==
  /\ chain \in [Txs -> {"absent", "pending", "mined", "reverted", "confirmed"}]
  /\ linked \in [Accounts -> Wallets \cup {None}]
  /\ rows \in [Txs -> Payments \cup {None}]
  /\ marked \subseteq Accounts \X Txs
  /\ req \in [Requests -> RequestType]
  /\ controls \subseteq Accounts \X Wallets
  /\ abandoned \subseteq Txs
  /\ \A r \in Requests : req[r].pc # "idle" =>
       req[r].user \in Accounts /\ req[r].tx \in Txs /\ req[r].asset \in Assets

\* The replay lock: one transaction is never verified, credited, rejected or
\* released by two invocations at once, whatever is submitted again and whatever
\* is deleted in between; and the row such an invocation works on is its own
\* pending row.
ReplayLock ==
  \A r \in Requests : req[r].pc \in Locked =>
    /\ rows[req[r].tx] = [user |-> req[r].user, status |-> "pending"]
    /\ \A q \in Requests : req[q].pc \in Locked /\ req[q].tx = req[r].tx => q = r

\* The sender of a transaction belongs to an account: it is the account, or a
\* wallet that was linked to it when the top-up was submitted.
Owns(a, t) == Sender[t] = a \/ <<a, Sender[t]>> \in controls

\* payments.rs:4, "403 (tx sender != claimant)": only a transaction that is final
\* on its chain, that paid the deposit address, is not dust and was sent by the
\* account or by a wallet of its own has ever been credited to it.  (The README
\* of the worker says otherwise: "the sender address of the tx is not required
\* to match the logged-in wallet", user_worker/README.md:173.  The code checks
\* it, on every path.)
CreditsAreEarned ==
  \A m \in marked : /\ chain[m[2]] = "confirmed"
                    /\ Pays[m[2]] # {}
                    /\ Value[m[2]] # "dust"
                    /\ Owns(m[1], m[2])

\* The history a user is shown never lies: the points of a credited row are on
\* the account the row names, although row and account are written separately.
RowsTellTruth ==
  \A t \in Txs : rows[t] # None =>
    (rows[t].status = "credited" => <<rows[t].user, t>> \in marked)

\* A payment that was settled is never taken up again.
SettledForGood ==
  [][\A t \in Txs : rows[t] # None /\ rows[t].status # "pending" => rows'[t] = rows[t]]_vars

\* user_worker/README.md: "each transaction credits exactly once (`payments` is
\* keyed on the tx hash)".
CreditsOnce == \A m, n \in marked : m[2] = n[2] => m = n

\* It holds of every Ethereum transaction: only one account can be its sender.
EthCreditsOnce ==
  \A m, n \in marked : m[2] = n[2] /\ Chain[m[2]] = "ethereum" => m = n

Pending(t) == rows[t] # None /\ rows[t].status = "pending"
HeldBy(r, t) == req[r].pc \in Locked /\ req[r].tx = t

\* payments.rs:11, "Transient / submitter-relative failures DELETE the pending
\* row so resubmission works".  A pending row has an invocation that will settle
\* or delete it, except when one was cut short or its write failed.  Then the
\* row is pending for ever: nothing takes it up, so 409 is all that can be
\* answered, even though the points may have been credited.
PendingIsOwned ==
  \A t \in Txs :
    /\ Pending(t) => t \in abandoned \/ \E r \in Requests : HeldBy(r, t)
    /\ t \in abandoned => Pending(t) /\ \A r \in Requests : ~HeldBy(r, t)

\* The replay lock of a transaction is released or settled in the end, unless a
\* crash or a failed write leaves the row behind.
LockReleased == \A t \in Txs : Pending(t) ~> (~Pending(t) \/ t \in abandoned)

\* payments.rs:9-11, "'rejected' only for tx-intrinsic failures (wrong recipient,
\* dust, reverted) -- invalid for any submitter": a rejected transaction reverted,
\* paid the deposit address nothing, or paid too little.
RejectedIsInvalid ==
  \A t \in Txs : rows[t] # None /\ rows[t].status = "rejected" =>
    chain[t] = "reverted" \/ Pays[t] = {} \/ Value[t] # "enough"
=============================================================================
