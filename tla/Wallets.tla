------------------------------- MODULE Wallets -------------------------------
(***************************************************************************)
(* Who may sign in as whom: sign-in with Ethereum and with Solana          *)
(* (user_worker/src/auth.rs), wallet linking (solana_link.rs) and the      *)
(* admin's ban (admin.rs), over the table `users` of D1, the nonces in KV  *)
(* and the accounts' Durable Objects.                                      *)
(*                                                                         *)
(* A request is one invocation of a handler.  Every await that reads or    *)
(* writes shared state is a step, and between two steps of one request     *)
(* those of any other may run.  KV is taken to be consistent: the worker   *)
(* reads and deletes a nonce as if it were.                                *)
(*                                                                         *)
(* Definitions named Bug... are seeded faults: what a plausible mistake    *)
(* would make of the definition that follows.  Each breaks a property.     *)
(***************************************************************************)
EXTENDS Naturals

CONSTANTS
  EthAddresses, \* principals that sign in with Ethereum
  SolWallets,   \* Solana public keys: a principal, or a wallet to be linked
  Nonces,       \* the nonces that may be handed out
  Requests,     \* invocations of the handlers; each runs once
  None

Principals == EthAddresses \cup SolWallets

\* The formats of the two kinds of address are disjoint.
ASSUME WalletsAssumption ==
  /\ EthAddresses \cap SolWallets = {}
  /\ None \notin Principals \cup Nonces

VARIABLES
  users,          \* addresses with a row in `users`
  solana_address, \* users.solana_address per address, or None
  banned,         \* addresses whose users.banned is set
  initialised,    \* accounts whose object has been initialised
  objBanned,      \* accounts whose object is banned
  nonces,         \* KV: "fresh" (not handed out), "live" or "gone"
  sessions,       \* principals that were given a session cookie
  req,            \* the state of each request
  raced,          \* history: wallets whose sign-in and linking overlapped
  doubted         \* history: accounts with a ban that failed or overlapped another

table   == <<users, solana_address, banned>>
objects == <<initialised, objBanned>>
history == <<raced, doubted>>
vars    == <<table, objects, nonces, sessions, req, history>>

New == [pc |-> "new", addr |-> None, wallet |-> None, nonce |-> None, flag |-> 0]

Done == [New EXCEPT !.pc = "done"]

SignInPCs == {"nonce", "forget", "linked", "upsert", "bancheck", "init", "cookie"}
LinkPCs   == {"challenge", "consume", "standalone", "existing", "update"}
BanPCs    == {"exists", "object", "mirror"}
PCs       == SignInPCs \cup LinkPCs \cup {"unlink"} \cup BanPCs \cup {"new", "done"}

Init ==
  /\ users = {} /\ solana_address = [p \in Principals |-> None] /\ banned = {}
  /\ initialised = {} /\ objBanned = {}
  /\ nonces = [n \in Nonces |-> "fresh"]
  /\ sessions = {}
  /\ req = [r \in Requests |-> New]
  /\ raced = {} /\ doubted = {}

Submit(r, q) == req[r].pc = "new" /\ req' = [req EXCEPT ![r] = q]
Goto(r, pc)  == req' = [req EXCEPT ![r].pc = pc]
Answer(r)    == req' = [req EXCEPT ![r] = Done]

\* Accounts a wallet is linked to.
LinkedTo(w) == {a \in Principals : solana_address[a] = w}

-----------------------------------------------------------------------------
(***************************************************************************)
(* The nonces.                                                             *)
(***************************************************************************)

\* nonce(): a new nonce is put into KV, with a time to live.
IssueNonce(n) ==
  /\ nonces[n] = "fresh"
  /\ nonces' = [nonces EXCEPT ![n] = "live"]
  /\ UNCHANGED <<table, objects, sessions, req, history>>

ExpireNonce(n) ==
  /\ nonces[n] = "live"
  /\ nonces' = [nonces EXCEPT ![n] = "gone"]
  /\ UNCHANGED <<table, objects, sessions, req, history>>

\* kv.get: an unknown or expired nonce is refused.
GetNonce(r, from, to) ==
  /\ req[r].pc = from
  /\ IF nonces[req[r].nonce] = "live" THEN Goto(r, to) ELSE Answer(r)
  /\ UNCHANGED <<table, objects, nonces, sessions, history>>

\* kv.delete, after which the signature is verified.
DeleteNonce(r, from, to) ==
  /\ req[r].pc = from
  /\ nonces' = [nonces EXCEPT ![req[r].nonce] = "gone"]
  /\ Goto(r, to)
  /\ UNCHANGED <<table, objects, sessions, history>>

-----------------------------------------------------------------------------
(***************************************************************************)
(* verify() and verify_solana(): they differ in the coexistence check.     *)
(***************************************************************************)

SubmitSignIn(r, p, n) ==
  /\ Submit(r, [New EXCEPT !.pc = "nonce", !.addr = p, !.nonce = n])
  /\ UNCHANGED <<table, objects, nonces, sessions, history>>

IsSolana(r) == req[r].addr \in SolWallets

\* A link of the wallet that has found no account of that name, and not ended.
LinkPending(w) == \E q \in Requests : /\ req[q].pc \in {"existing", "update"}
                                      /\ req[q].wallet = w

\* Forgets the check.
BugLinkedLookup(r) ==
  /\ req[r].pc = "linked"
  /\ Goto(r, "upsert")
  /\ raced' = raced \cup {w \in {req[r].addr} : LinkPending(w)}
  /\ UNCHANGED <<table, objects, nonces, sessions, doubted>>

\* SELECT address FROM users WHERE solana_address = ?: a linked wallet is no
\* account.
LinkedLookup(r) ==
  /\ req[r].pc = "linked"
  /\ IF LinkedTo(req[r].addr) # {}
     THEN Answer(r) /\ UNCHANGED raced
     ELSE /\ Goto(r, "upsert")
          /\ raced' = raced \cup {w \in {req[r].addr} : LinkPending(w)}
  /\ UNCHANGED <<table, objects, nonces, sessions, doubted>>

\* INSERT INTO users ... ON CONFLICT(address) DO UPDATE: the row exists after it.
Upsert(r) ==
  /\ req[r].pc = "upsert"
  /\ users' = users \cup {req[r].addr}
  /\ Goto(r, "bancheck")
  /\ UNCHANGED <<solana_address, banned, objects, nonces, sessions, history>>

\* SELECT banned FROM users: sign-in reads the mirror.
BanCheck(r) ==
  /\ req[r].pc = "bancheck"
  /\ IF req[r].addr \in banned THEN Answer(r) ELSE Goto(r, "init")
  /\ UNCHANGED <<table, objects, nonces, sessions, history>>

\* Logs a failure and goes on.
BugInitObject(r) ==
  /\ req[r].pc = "init"
  /\ initialised' = initialised \cup {req[r].addr} \/ UNCHANGED initialised
  /\ Goto(r, "cookie")
  /\ UNCHANGED <<table, objBanned, nonces, sessions, history>>

\* do_init(): the object applies it once.
InitObject(r) ==
  /\ req[r].pc = "init"
  /\ initialised' = initialised \cup {req[r].addr}
  /\ Goto(r, "cookie")
  /\ UNCHANGED <<table, objBanned, nonces, sessions, history>>

\* The session cookie.
Cookie(r) ==
  /\ req[r].pc = "cookie"
  /\ sessions' = sessions \cup {req[r].addr}
  /\ Answer(r)
  /\ UNCHANGED <<table, objects, nonces, history>>

SignInStep(r) ==
  \/ GetNonce(r, "nonce", "forget")
  \/ DeleteNonce(r, "forget", IF IsSolana(r) THEN "linked" ELSE "upsert")
  \/ LinkedLookup(r) \/ Upsert(r) \/ BanCheck(r) \/ InitObject(r) \/ Cookie(r)

-----------------------------------------------------------------------------
(***************************************************************************)
(* link() and unlink().                                                    *)
(***************************************************************************)

SubmitLink(r, a, w, n) ==
  /\ a \in sessions
  /\ Submit(r, [New EXCEPT !.pc = "challenge", !.addr = a, !.wallet = w, !.nonce = n])
  /\ UNCHANGED <<table, objects, nonces, sessions, history>>

SubmitUnlink(r, a) ==
  /\ a \in sessions
  /\ Submit(r, [New EXCEPT !.pc = "unlink", !.addr = a])
  /\ UNCHANGED <<table, objects, nonces, sessions, history>>

\* A sign-in as the wallet that has found no link, and not written its row.
SignInPending(w) == \E q \in Requests : req[q].pc = "upsert" /\ req[q].addr = w

\* SELECT address FROM users WHERE address = ?: a wallet that is an account is
\* not linked.
Standalone(r) ==
  /\ req[r].pc = "standalone"
  /\ IF req[r].wallet \in users
     THEN Answer(r) /\ UNCHANGED raced
     ELSE /\ Goto(r, "existing")
          /\ raced' = raced \cup {w \in {req[r].wallet} : SignInPending(w)}
  /\ UNCHANGED <<table, objects, nonces, sessions, doubted>>

\* SELECT address FROM users WHERE solana_address = ?.
Existing(r) ==
  /\ req[r].pc = "existing"
  /\ IF LinkedTo(req[r].wallet) \subseteq {req[r].addr} THEN Goto(r, "update") ELSE Answer(r)
  /\ UNCHANGED <<table, objects, nonces, sessions, history>>

\* Relies on the lookup before it, without the UNIQUE constraint.
BugUpdate(r) ==
  /\ req[r].pc = "update"
  /\ solana_address' = [solana_address EXCEPT ![req[r].addr] = req[r].wallet]
  /\ Answer(r)
  /\ UNCHANGED <<users, banned, objects, nonces, sessions, history>>

\* UPDATE users SET solana_address = ?; the column is UNIQUE.
Update(r) ==
  /\ req[r].pc = "update"
  /\ IF LinkedTo(req[r].wallet) \subseteq {req[r].addr}
     THEN solana_address' = [solana_address EXCEPT ![req[r].addr] = req[r].wallet]
     ELSE UNCHANGED solana_address
  /\ Answer(r)
  /\ UNCHANGED <<users, banned, objects, nonces, sessions, history>>

\* Writes an empty address instead of NULL.
BugUnlink(r) ==
  /\ req[r].pc = "unlink"
  /\ solana_address' = [solana_address EXCEPT ![req[r].addr] = ""]
  /\ Answer(r)
  /\ UNCHANGED <<users, banned, objects, nonces, sessions, history>>

\* UPDATE users SET solana_address = NULL.
Unlink(r) ==
  /\ req[r].pc = "unlink"
  /\ solana_address' = [solana_address EXCEPT ![req[r].addr] = None]
  /\ Answer(r)
  /\ UNCHANGED <<users, banned, objects, nonces, sessions, history>>

LinkStep(r) ==
  \/ GetNonce(r, "challenge", "consume")
  \/ DeleteNonce(r, "consume", "standalone")
  \/ Standalone(r) \/ Existing(r) \/ Update(r) \/ Unlink(r)

-----------------------------------------------------------------------------
(***************************************************************************)
(* ban(): the object first, then its mirror in D1.                         *)
(***************************************************************************)

SubmitBan(r, p, flag) ==
  /\ Submit(r, [New EXCEPT !.pc = "exists", !.addr = p, !.flag = flag])
  /\ UNCHANGED <<table, objects, nonces, sessions, history>>

\* validate_form_address(): 404 for an unknown user.
Exists(r) ==
  /\ req[r].pc = "exists"
  /\ IF req[r].addr \in users THEN Goto(r, "object") ELSE Answer(r)
  /\ UNCHANGED <<table, objects, nonces, sessions, history>>

\* The set with or without the account, as the form says.
Put(S, r) == IF req[r].flag # 0 THEN S \cup {req[r].addr} ELSE S \ {req[r].addr}

\* Another ban of the account is between its two writes.
BanPending(r) == \E q \in Requests \ {r} : req[q].pc = "mirror" /\ req[q].addr = req[r].addr

\* Mirrors whatever the object answers.
BugObjectBan(r) ==
  /\ req[r].pc = "object"
  /\ objBanned' = Put(objBanned, r) \/ UNCHANGED objBanned
  /\ Goto(r, "mirror")
  /\ doubted' = IF BanPending(r) THEN doubted \cup {req[r].addr}
                ELSE doubted \ {req[r].addr}
  /\ UNCHANGED <<table, initialised, nonces, sessions, raced>>

\* POST /ban of the object.
ObjectBan(r) ==
  /\ req[r].pc = "object"
  /\ objBanned' = Put(objBanned, r)
  /\ Goto(r, "mirror")
  /\ doubted' = IF BanPending(r) THEN doubted \cup {req[r].addr}
                ELSE doubted \ {req[r].addr}
  /\ UNCHANGED <<table, initialised, nonces, sessions, raced>>

\* UPDATE users SET banned = ?.
Mirror(r) ==
  /\ req[r].pc = "mirror"
  /\ banned' = Put(banned, r)
  /\ Answer(r)
  /\ UNCHANGED <<users, solana_address, objects, nonces, sessions, history>>

BanStep(r) == Exists(r) \/ ObjectBan(r) \/ Mirror(r)

-----------------------------------------------------------------------------
\* A request ends at any await: a wrong signature, an error answered with 500, a
\* client that went away.  After a write this is also the lost reply of one that
\* was applied.
Abort(r) ==
  /\ req[r].pc \notin {"new", "done"}
  /\ Answer(r)
  /\ doubted' = IF req[r].pc = "mirror" THEN doubted \cup {req[r].addr} ELSE doubted
  /\ UNCHANGED <<table, objects, nonces, sessions, raced>>

Receive(r) ==
  \/ \E p \in Principals, n \in Nonces : SubmitSignIn(r, p, n)
  \/ \E a \in Principals, w \in SolWallets, n \in Nonces : SubmitLink(r, a, w, n)
  \/ \E a \in Principals : SubmitUnlink(r, a)
  \/ \E p \in Principals, flag \in {0, 1} : SubmitBan(r, p, flag)

Next ==
  \/ \E n \in Nonces : IssueNonce(n) \/ ExpireNonce(n)
  \/ \E r \in Requests :
       Receive(r) \/ SignInStep(r) \/ LinkStep(r) \/ BanStep(r) \/ Abort(r)

Spec == Init /\ [][Next]_vars

-----------------------------------------------------------------------------
(***************************************************************************)
(* Properties.                                                             *)
(***************************************************************************)

RequestType == [pc : PCs, addr : Principals \cup {None}, wallet : SolWallets \cup {None},
                nonce : Nonces \cup {None}, flag : {0, 1}]

\* What every variable holds, and what a request under way knows.
TypeOK ==
  /\ users \subseteq Principals
  /\ solana_address \in [Principals -> SolWallets \cup {None}]
  /\ banned \subseteq Principals
  /\ initialised \subseteq Principals /\ objBanned \subseteq Principals
  /\ nonces \in [Nonces -> {"fresh", "live", "gone"}]
  /\ sessions \subseteq Principals
  /\ req \in [Requests -> RequestType]
  /\ raced \subseteq Principals /\ doubted \subseteq Principals
  /\ \A r \in Requests :
       /\ req[r].pc \notin {"new", "done"} => req[r].addr \in Principals
       /\ req[r].pc \in LinkPCs => req[r].wallet \in SolWallets
       /\ req[r].pc \in {"nonce", "forget", "challenge", "consume"}
            => req[r].nonce \in Nonces

\* A wallet is linked to one account at most, whichever requests to link it
\* overlap: a Solana top-up looks up who sent it by this column.
OneOwner ==
  \A a, b \in Principals : solana_address[a] # None /\ solana_address[a] = solana_address[b]
                             => a = b

\* The coexistence rule (solana_link.rs:124, "never both") fails in one way only: a sign-in as
\* the wallet and a request to link it both made their checks before either wrote.
BothOnlyByRace == \A w \in SolWallets : w \in users /\ LinkedTo(w) # {} => w \in raced

\* Whoever holds a session has a row, which likes, links and the admin panel
\* need, and an object that has had its grant: no later credit can be lost to it.
SessionIsReady == sessions \subseteq users \cap initialised

\* The comment of 0001_users.sql calls users.banned a mirror, and sign-in relies
\* on it.  Once no ban of an account is under way, it says what the object says,
\* unless the last ban failed half-way or overlapped another.  A ban that is
\* repeated alone heals what such a one has left.
MirrorAgrees ==
  \A p \in Principals \ doubted :
    (\A r \in Requests : req[r].addr = p => req[r].pc # "mirror")
      => (p \in banned <=> p \in objBanned)
=============================================================================
