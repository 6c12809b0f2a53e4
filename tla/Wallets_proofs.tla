---------------------------- MODULE Wallets_proofs ----------------------------
(***************************************************************************)
(* Proofs about Wallets, for every set of addresses, wallets, nonces and   *)
(* requests.                                                               *)
(***************************************************************************)
EXTENDS Wallets, TLAPS

-----------------------------------------------------------------------------
(***************************************************************************)
(* Types.                                                                  *)
(***************************************************************************)

NoncePCs == {"nonce", "forget", "challenge", "consume"}

\* A well-formed request knows what its next step needs.
ReqOK(q) ==
  /\ q \in RequestType
  /\ q.pc \notin {"new", "done"} => q.addr \in Principals
  /\ q.pc \in LinkPCs => q.wallet \in SolWallets
  /\ q.pc \in NoncePCs => q.nonce \in Nonces

ReqsOK == req \in [Requests -> RequestType] /\ \A r \in Requests : ReqOK(req[r])

LEMMA TypeOKReqs == TypeOK => ReqsOK
BY DEF TypeOK, ReqsOK, ReqOK, NoncePCs

LEMMA NewOK == ReqOK(New) /\ ReqOK(Done) /\ New \in RequestType /\ Done \in RequestType
BY DEF ReqOK, New, Done, RequestType, PCs, LinkPCs, SignInPCs, BanPCs, NoncePCs

\* Replacing one request by a well-formed one.
LEMMA PutReq ==
  ASSUME ReqsOK, NEW r \in Requests, NEW q, ReqOK(q), req' = [req EXCEPT ![r] = q]
  PROVE  ReqsOK'
BY DEF ReqsOK, ReqOK

LEMMA AnswerTypes ==
  ASSUME ReqsOK, NEW r \in Requests, Answer(r)
  PROVE  ReqsOK'
BY NewOK, PutReq DEF Answer

\* Going on needs what the next step needs.
LEMMA GotoTypes ==
  ASSUME ReqsOK, NEW r \in Requests, NEW pc \in PCs, Goto(r, pc),
         req[r].pc \notin {"new", "done"},
         pc \in LinkPCs => req[r].wallet \in SolWallets,
         pc \in NoncePCs => req[r].nonce \in Nonces
  PROVE  ReqsOK'
<1> DEFINE q == [req[r] EXCEPT !.pc = pc]
<1>1. req' = [req EXCEPT ![r] = q]
  BY DEF Goto, ReqsOK
<1>2. req[r] \in RequestType /\ req[r].addr \in Principals
  BY DEF ReqsOK, ReqOK
<1>3. ReqOK(q)
  BY <1>2 DEF ReqOK, RequestType
<1> HIDE DEF q
<1> QED BY <1>1, <1>3, PutReq

\* The program counters that a step of each handler sets.
USE DEF NoncePCs

LEMMA SignInReqs ==
  ASSUME ReqsOK, NEW r \in Requests, SignInStep(r)
  PROVE  ReqsOK'
<1> DEFINE to == IF IsSolana(r) THEN "linked" ELSE "upsert"
<1>0. /\ req[r].pc \in PCs
      /\ req[r].pc \in NoncePCs => req[r].nonce \in Nonces
      /\ to \in {"linked", "upsert"}
  BY DEF ReqsOK, ReqOK, RequestType
<1>1. CASE GetNonce(r, "nonce", "forget")
  <2>1. CASE Answer(r)
    BY <2>1, AnswerTypes
  <2>2. CASE Goto(r, "forget")
    BY <1>0, <1>1, <2>2, GotoTypes DEF GetNonce, PCs, SignInPCs, LinkPCs
  <2> QED BY <1>1, <2>1, <2>2 DEF GetNonce
<1>2. CASE DeleteNonce(r, "forget", to)
  <2> HIDE DEF to
  <2> QED BY <1>0, <1>2, GotoTypes DEF DeleteNonce, PCs, SignInPCs, LinkPCs
<1>3. CASE LinkedLookup(r)
  BY <1>3, AnswerTypes, GotoTypes DEF LinkedLookup, PCs, SignInPCs, LinkPCs
<1>4. CASE Upsert(r)
  BY <1>4, GotoTypes DEF Upsert, PCs, SignInPCs, LinkPCs
<1>5. CASE BanCheck(r)
  BY <1>5, AnswerTypes, GotoTypes DEF BanCheck, PCs, SignInPCs, LinkPCs
<1>6. CASE InitObject(r)
  BY <1>6, GotoTypes DEF InitObject, PCs, SignInPCs, LinkPCs
<1>7. CASE Cookie(r)
  BY <1>7, AnswerTypes DEF Cookie
<1> QED BY <1>1, <1>2, <1>3, <1>4, <1>5, <1>6, <1>7 DEF SignInStep

LEMMA LinkReqs ==
  ASSUME ReqsOK, NEW r \in Requests, LinkStep(r)
  PROVE  ReqsOK'
<1>0. /\ req[r].pc \in NoncePCs => req[r].nonce \in Nonces
      /\ req[r].pc \in LinkPCs => req[r].wallet \in SolWallets
  BY DEF ReqsOK, ReqOK
<1>1. CASE GetNonce(r, "challenge", "consume")
  <2>1. CASE Answer(r)
    BY <2>1, AnswerTypes
  <2>2. CASE Goto(r, "consume")
    BY <1>0, <1>1, <2>2, GotoTypes DEF GetNonce, PCs, LinkPCs
  <2> QED BY <1>1, <2>1, <2>2 DEF GetNonce
<1>2. CASE DeleteNonce(r, "consume", "standalone")
  BY <1>0, <1>2, GotoTypes DEF DeleteNonce, PCs, LinkPCs
<1>3. CASE Standalone(r)
  BY <1>0, <1>3, AnswerTypes, GotoTypes DEF Standalone, PCs, LinkPCs
<1>4. CASE Existing(r)
  BY <1>0, <1>4, AnswerTypes, GotoTypes DEF Existing, PCs, LinkPCs
<1>5. CASE Update(r) \/ Unlink(r)
  BY <1>5, AnswerTypes DEF Update, Unlink
<1> QED BY <1>1, <1>2, <1>3, <1>4, <1>5 DEF LinkStep

LEMMA BanReqs ==
  ASSUME ReqsOK, NEW r \in Requests, BanStep(r) \/ Abort(r)
  PROVE  ReqsOK'
<1>1. CASE Exists(r)
  BY <1>1, AnswerTypes, GotoTypes DEF Exists, PCs, BanPCs, LinkPCs
<1>2. CASE ObjectBan(r)
  BY <1>2, GotoTypes DEF ObjectBan, PCs, BanPCs, LinkPCs
<1>3. CASE Mirror(r) \/ Abort(r)
  BY <1>3, AnswerTypes DEF Mirror, Abort
<1> QED BY <1>1, <1>2, <1>3 DEF BanStep

LEMMA ReceiveReqs ==
  ASSUME ReqsOK, NEW r \in Requests, Receive(r)
  PROVE  /\ ReqsOK'
         /\ UNCHANGED <<table, objects, nonces, sessions, history>>
         /\ req[r].pc = "new"
         /\ \E q : ReqOK(q) /\ q.pc \in {"nonce", "challenge", "unlink", "exists"}
                   /\ req' = [req EXCEPT ![r] = q]
<1>1. ASSUME NEW p \in Principals, NEW n \in Nonces, SubmitSignIn(r, p, n)
      PROVE  \E q : ReqOK(q) /\ q.pc \in {"nonce", "challenge", "unlink", "exists"}
                   /\ Submit(r, q)
  BY <1>1 DEF SubmitSignIn, ReqOK, RequestType, New, PCs, SignInPCs, LinkPCs
<1>2. ASSUME NEW a \in Principals, NEW w \in SolWallets, NEW n \in Nonces,
             SubmitLink(r, a, w, n)
      PROVE  \E q : ReqOK(q) /\ q.pc \in {"nonce", "challenge", "unlink", "exists"}
                   /\ Submit(r, q)
  BY <1>2 DEF SubmitLink, ReqOK, RequestType, New, PCs, LinkPCs
<1>3. ASSUME NEW a \in Principals, SubmitUnlink(r, a)
      PROVE  \E q : ReqOK(q) /\ q.pc \in {"nonce", "challenge", "unlink", "exists"}
                   /\ Submit(r, q)
  BY <1>3 DEF SubmitUnlink, ReqOK, RequestType, New, PCs, LinkPCs
<1>4. ASSUME NEW p \in Principals, NEW flag \in {0, 1}, SubmitBan(r, p, flag)
      PROVE  \E q : ReqOK(q) /\ q.pc \in {"nonce", "challenge", "unlink", "exists"}
                   /\ Submit(r, q)
  BY <1>4 DEF SubmitBan, ReqOK, RequestType, New, PCs, BanPCs, LinkPCs
<1>5. \E q : ReqOK(q) /\ q.pc \in {"nonce", "challenge", "unlink", "exists"}
             /\ Submit(r, q)
  BY <1>1, <1>2, <1>3, <1>4 DEF Receive
<1>6. UNCHANGED <<table, objects, nonces, sessions, history>>
  BY DEF Receive, SubmitSignIn, SubmitLink, SubmitUnlink, SubmitBan
<1> QED BY <1>5, <1>6, PutReq DEF Submit

\* The state but for the requests.
StateOK ==
  /\ users \subseteq Principals
  /\ solana_address \in [Principals -> SolWallets \cup {None}]
  /\ banned \subseteq Principals
  /\ initialised \subseteq Principals /\ objBanned \subseteq Principals
  /\ nonces \in [Nonces -> {"fresh", "live", "gone"}]
  /\ sessions \subseteq Principals
  /\ raced \subseteq Principals /\ doubted \subseteq Principals

LEMMA TypeOKSplit == TypeOK <=> StateOK /\ ReqsOK
BY DEF TypeOK, StateOK, ReqsOK, ReqOK

LEMMA SignInState ==
  ASSUME TypeOK, NEW r \in Requests, SignInStep(r)
  PROVE  StateOK'
<1> USE TypeOKSplit DEF table, objects, history
<1>1. CASE GetNonce(r, "nonce", "forget")
  BY <1>1 DEF GetNonce, StateOK
<1>2. CASE DeleteNonce(r, "forget", IF IsSolana(r) THEN "linked" ELSE "upsert")
  BY <1>2 DEF DeleteNonce, StateOK
<1>3. CASE LinkedLookup(r)
  <2>1. req[r].addr \in Principals
    BY <1>3 DEF LinkedLookup, TypeOK
  <2>2. raced' \subseteq raced \cup {req[r].addr}
    BY <1>3 DEF LinkedLookup
  <2>3. UNCHANGED <<table, objects, nonces, sessions, doubted>>
    BY <1>3 DEF LinkedLookup
  <2> QED BY <2>1, <2>2, <2>3 DEF StateOK
<1>4. CASE Upsert(r) \/ InitObject(r) \/ Cookie(r) \/ BanCheck(r)
  BY <1>4 DEF Upsert, InitObject, Cookie, BanCheck, StateOK, TypeOK
<1> QED BY <1>1, <1>2, <1>3, <1>4 DEF SignInStep

LEMMA LinkState ==
  ASSUME TypeOK, NEW r \in Requests, LinkStep(r)
  PROVE  StateOK'
<1> USE TypeOKSplit DEF table, objects, history
<1>1. CASE GetNonce(r, "challenge", "consume") \/ Existing(r)
  BY <1>1 DEF GetNonce, Existing, StateOK
<1>2. CASE DeleteNonce(r, "consume", "standalone")
  BY <1>2 DEF DeleteNonce, StateOK
<1>3. CASE Standalone(r)
  <2>1. req[r].wallet \in Principals
    BY <1>3 DEF Standalone, TypeOK, LinkPCs, Principals
  <2> QED BY <1>3, <2>1 DEF Standalone, StateOK
<1>4. CASE Update(r)
  BY <1>4 DEF Update, StateOK, TypeOK, LinkPCs
<1>5. CASE Unlink(r)
  BY <1>5 DEF Unlink, StateOK
<1> QED BY <1>1, <1>2, <1>3, <1>4, <1>5 DEF LinkStep

LEMMA BanState ==
  ASSUME TypeOK, NEW r \in Requests, BanStep(r) \/ Abort(r)
  PROVE  StateOK'
<1> USE TypeOKSplit DEF table, objects, history
<1>1. CASE Exists(r)
  BY <1>1 DEF Exists, StateOK
<1>2. CASE ObjectBan(r)
  BY <1>2 DEF ObjectBan, Put, StateOK, TypeOK
<1>3. CASE Mirror(r)
  BY <1>3 DEF Mirror, Put, StateOK, TypeOK
<1>4. CASE Abort(r)
  BY <1>4 DEF Abort, StateOK, TypeOK
<1> QED BY <1>1, <1>2, <1>3, <1>4 DEF BanStep

LEMMA InitTypeOK == Init => TypeOK
BY NewOK, TypeOKSplit DEF Init, StateOK, ReqsOK

LEMMA NextTypeOK == TypeOK /\ [Next]_vars => TypeOK'
<1> SUFFICES ASSUME TypeOK, [Next]_vars PROVE TypeOK'
  OBVIOUS
<1>0. StateOK /\ ReqsOK
  BY TypeOKSplit
<1>1. ASSUME NEW n \in Nonces, IssueNonce(n) \/ ExpireNonce(n) PROVE StateOK' /\ ReqsOK'
  <2>1. UNCHANGED <<table, objects, sessions, req, history>>
    BY <1>1 DEF IssueNonce, ExpireNonce
  <2>2. nonces' \in [Nonces -> {"fresh", "live", "gone"}]
    BY <1>0, <1>1 DEF IssueNonce, ExpireNonce, StateOK
  <2>3. StateOK'
    BY <1>0, <2>1, <2>2 DEF StateOK, table, objects, history
  <2> QED BY <1>0, <2>1, <2>3 DEF ReqsOK, ReqOK
<1>2. ASSUME NEW r \in Requests, Receive(r) PROVE StateOK' /\ ReqsOK'
  BY <1>0, <1>2, ReceiveReqs DEF StateOK, table, objects, history
<1>3. ASSUME NEW r \in Requests, SignInStep(r) PROVE StateOK' /\ ReqsOK'
  BY <1>0, <1>3, SignInReqs, SignInState
<1>4. ASSUME NEW r \in Requests, LinkStep(r) PROVE StateOK' /\ ReqsOK'
  BY <1>0, <1>4, LinkReqs, LinkState
<1>5. ASSUME NEW r \in Requests, BanStep(r) \/ Abort(r) PROVE StateOK' /\ ReqsOK'
  BY <1>0, <1>5, BanReqs, BanState
<1>6. ASSUME UNCHANGED vars PROVE StateOK' /\ ReqsOK'
  <2>1. StateOK'
    BY <1>0, <1>6 DEF StateOK, vars, table, objects, history
  <2>2. ReqsOK'
    BY <1>0, <1>6 DEF ReqsOK, ReqOK, vars
  <2> QED BY <2>1, <2>2
<1>7. StateOK' /\ ReqsOK'
  BY <1>1, <1>2, <1>3, <1>4, <1>5, <1>6 DEF Next
<1>8. TypeOK' <=> StateOK' /\ ReqsOK'
  BY TypeOKSplit, PTL
<1> QED BY <1>7, <1>8

\* Every variable keeps its type, and a request that is under way knows its
\* account, its wallet and its nonce as long as it needs them.
THEOREM TypeCorrect == Spec => []TypeOK
BY InitTypeOK, NextTypeOK, PTL DEF Spec
-----------------------------------------------------------------------------
(***************************************************************************)
(* One wallet, one account.                                                *)
(***************************************************************************)

\* Only a link that is written, or cleared, changes the column.
LEMMA ColumnChanges ==
  ASSUME [Next]_vars
  PROVE  solana_address' = solana_address \/ \E r \in Requests : Update(r) \/ Unlink(r)
BY DEF Next, vars, table, objects, history, IssueNonce, ExpireNonce, Receive, SubmitSignIn,
       SubmitLink, SubmitUnlink, SubmitBan, SignInStep, GetNonce, DeleteNonce, LinkedLookup,
       Upsert, BanCheck, InitObject, Cookie, LinkStep, Standalone, Existing, BanStep, Exists,
       ObjectBan, Mirror, Abort

LEMMA NextOneOwner == TypeOK /\ OneOwner /\ [Next]_vars => OneOwner'
<1> SUFFICES ASSUME TypeOK, OneOwner, [Next]_vars PROVE OneOwner'
  OBVIOUS
<1>1. CASE UNCHANGED solana_address
  BY <1>1 DEF OneOwner
<1>2. ASSUME NEW r \in Requests, Update(r) PROVE OneOwner'
  <2>1. CASE LinkedTo(req[r].wallet) \subseteq {req[r].addr}
    <3> DEFINE w == req[r].wallet
               a == req[r].addr
    <3>1. solana_address' = [solana_address EXCEPT ![a] = w]
      BY <1>2, <2>1 DEF Update
    <3>2. \A b \in Principals : solana_address[b] = w => b = a
      BY <2>1 DEF LinkedTo
    <3>3. DOMAIN solana_address = Principals /\ a \in Principals
      BY <1>2 DEF TypeOK, Update
    <3> HIDE DEF w, a
    <3> QED BY <3>1, <3>2, <3>3 DEF OneOwner
  <2>2. CASE ~(LinkedTo(req[r].wallet) \subseteq {req[r].addr})
    BY <1>2, <2>2 DEF Update, OneOwner
  <2> QED BY <2>1, <2>2
<1>3. ASSUME NEW r \in Requests, Unlink(r) PROVE OneOwner'
  BY <1>3 DEF Unlink, OneOwner, TypeOK
<1> QED BY <1>1, <1>2, <1>3, ColumnChanges

\* A wallet is linked to one account at most, however many requests to link it
\* overlap.
THEOREM WalletHasOneOwner == Spec => []OneOwner
<1>1. Init => OneOwner
  BY DEF Init, OneOwner
<1> QED BY <1>1, InitTypeOK, NextTypeOK, NextOneOwner, PTL DEF Spec

-----------------------------------------------------------------------------
(***************************************************************************)
(* Sessions.                                                               *)
(***************************************************************************)

\* What a sign-in has done is still there when the cookie is set.
SessionInv ==
  /\ SessionIsReady
  /\ \A r \in Requests :
       /\ req[r].pc \in {"bancheck", "init", "cookie"} => req[r].addr \in users
       /\ req[r].pc = "cookie" => req[r].addr \in initialised

\* How a request goes on, and what becomes of the others.
LEMMA GotoEffect ==
  ASSUME TypeOK, NEW r \in Requests, NEW pc, Goto(r, pc)
  PROVE  /\ req'[r].pc = pc /\ req'[r].addr = req[r].addr
         /\ req'[r].wallet = req[r].wallet /\ req'[r].flag = req[r].flag
         /\ \A q \in Requests \ {r} : req'[q] = req[q]
BY DEF Goto, TypeOK, RequestType

LEMMA AnswerEffect ==
  ASSUME TypeOK, NEW r \in Requests, Answer(r)
  PROVE  /\ req'[r].pc = "done"
         /\ \A q \in Requests \ {r} : req'[q] = req[q]
BY DEF Answer, TypeOK, Done, New

\* Nothing is ever taken out of users, initialised or, but by Cookie, put into
\* sessions.
LEMMA GrowOnly ==
  ASSUME [Next]_vars
  PROVE  /\ users \subseteq users' /\ initialised \subseteq initialised'
         /\ sessions' = sessions \/ \E r \in Requests : Cookie(r)
BY DEF Next, vars, table, objects, history, IssueNonce, ExpireNonce, Receive, SubmitSignIn,
       SubmitLink, SubmitUnlink, SubmitBan, SignInStep, GetNonce, DeleteNonce, LinkedLookup,
       Upsert, BanCheck, InitObject, Cookie, LinkStep, Standalone, Existing, Update, Unlink,
       BanStep, Exists, ObjectBan, Mirror, Abort

LEMMA NextSession == TypeOK /\ SessionInv /\ [Next]_vars => SessionInv'
<1> SUFFICES ASSUME TypeOK, SessionInv, [Next]_vars PROVE SessionInv'
  OBVIOUS
<1>1. SessionIsReady'
  <2>1. CASE sessions' = sessions
    BY <2>1, GrowOnly DEF SessionInv, SessionIsReady
  <2>2. ASSUME NEW r \in Requests, Cookie(r) PROVE SessionIsReady'
    BY <2>2, GrowOnly DEF Cookie, SessionInv, SessionIsReady, table, objects
  <2> QED BY <2>1, <2>2, GrowOnly
<1>2. ASSUME NEW q \in Requests,
             \/ req'[q] = req[q] \/ req'[q].pc \notin {"bancheck", "init", "cookie"}
             \/ req'[q].addr \in users' /\ (req'[q].pc = "cookie" => req'[q].addr \in initialised')
      PROVE  /\ req'[q].pc \in {"bancheck", "init", "cookie"} => req'[q].addr \in users'
             /\ req'[q].pc = "cookie" => req'[q].addr \in initialised'
  BY <1>2, GrowOnly DEF SessionInv
<1>3. ASSUME NEW r \in Requests, Receive(r) PROVE SessionInv'
  <2>1. PICK p : ReqOK(p) /\ p.pc \in {"nonce", "challenge", "unlink", "exists"}
                 /\ req' = [req EXCEPT ![r] = p]
    BY <1>3, ReceiveReqs, TypeOKReqs
  <2> QED BY <1>1, <1>2, <2>1 DEF SessionInv, TypeOK
<1>4. ASSUME NEW r \in Requests, SignInStep(r) PROVE SessionInv'
  <2> DEFINE to == IF IsSolana(r) THEN "linked" ELSE "upsert"
  <2>1. CASE GetNonce(r, "nonce", "forget")
    BY <1>1, <1>2, <2>1, GotoEffect, AnswerEffect DEF GetNonce, SessionInv
  <2>2. CASE DeleteNonce(r, "forget", to)
    BY <1>1, <1>2, <2>2, GotoEffect DEF DeleteNonce, SessionInv
  <2>3. CASE LinkedLookup(r)
    BY <1>1, <1>2, <2>3, GotoEffect, AnswerEffect DEF LinkedLookup, SessionInv
  <2>4. CASE Upsert(r)
    BY <1>1, <1>2, <2>4, GotoEffect DEF Upsert, SessionInv
  <2>5. CASE BanCheck(r)
    BY <1>1, <1>2, <2>5, GotoEffect, AnswerEffect, GrowOnly DEF BanCheck, SessionInv
  <2>6. CASE InitObject(r)
    BY <1>1, <1>2, <2>6, GotoEffect, GrowOnly DEF InitObject, SessionInv
  <2>7. CASE Cookie(r)
    BY <1>1, <1>2, <2>7, AnswerEffect DEF Cookie, SessionInv
  <2> QED BY <1>4, <2>1, <2>2, <2>3, <2>4, <2>5, <2>6, <2>7 DEF SignInStep
<1>5. ASSUME NEW r \in Requests, LinkStep(r) PROVE SessionInv'
  <2>1. CASE GetNonce(r, "challenge", "consume")
    BY <1>1, <1>2, <2>1, GotoEffect, AnswerEffect DEF GetNonce, SessionInv
  <2>2. CASE DeleteNonce(r, "consume", "standalone")
    BY <1>1, <1>2, <2>2, GotoEffect DEF DeleteNonce, SessionInv
  <2>3. CASE Standalone(r)
    BY <1>1, <1>2, <2>3, GotoEffect, AnswerEffect DEF Standalone, SessionInv
  <2>4. CASE Existing(r)
    BY <1>1, <1>2, <2>4, GotoEffect, AnswerEffect DEF Existing, SessionInv
  <2>5. CASE Update(r) \/ Unlink(r)
    BY <1>1, <1>2, <2>5, AnswerEffect DEF Update, Unlink, SessionInv
  <2> QED BY <1>5, <2>1, <2>2, <2>3, <2>4, <2>5 DEF LinkStep
<1>6. ASSUME NEW r \in Requests, BanStep(r) \/ Abort(r) PROVE SessionInv'
  <2>1. CASE Exists(r)
    BY <1>1, <1>2, <2>1, GotoEffect, AnswerEffect DEF Exists, SessionInv
  <2>2. CASE ObjectBan(r)
    BY <1>1, <1>2, <2>2, GotoEffect DEF ObjectBan, SessionInv
  <2>3. CASE Mirror(r) \/ Abort(r)
    BY <1>1, <1>2, <2>3, AnswerEffect DEF Mirror, Abort, SessionInv
  <2> QED BY <1>6, <2>1, <2>2, <2>3 DEF BanStep
<1>7. CASE UNCHANGED req
  BY <1>1, <1>2, <1>7 DEF SessionInv
<1> QED
  BY <1>3, <1>4, <1>5, <1>6, <1>7 DEF Next, vars, IssueNonce, ExpireNonce

\* Whoever was given a session has a row and an object that has had its grant.
THEOREM SessionsAreReady == Spec => []SessionIsReady
<1>1. Init => SessionInv
  BY DEF Init, SessionInv, SessionIsReady, New
<1>2. SessionInv => SessionIsReady
  BY DEF SessionInv
<1> QED BY <1>1, <1>2, InitTypeOK, NextTypeOK, NextSession, PTL DEF Spec

-----------------------------------------------------------------------------
(***************************************************************************)
(* The coexistence rule.                                                   *)
(***************************************************************************)

\* An account, a link, a sign-in past its check and a link past its check: any
\* two that belong to opposite roles have met.
IsAccount(w) == w \in users \/ SignInPending(w)
IsLinked(w)  == LinkedTo(w) # {} \/ LinkPending(w)
RaceInv      == \A w \in SolWallets : IsAccount(w) /\ IsLinked(w) => w \in raced

\* What a step may not do without recording a race: take up a role while the
\* opposite one is taken.
LEMMA NoNewRole ==
  ASSUME RaceInv,
         \A w \in SolWallets : IsAccount(w)' => IsAccount(w),
         \A w \in SolWallets : IsLinked(w)' => IsLinked(w),
         raced \subseteq raced'
  PROVE  RaceInv'
BY DEF RaceInv

\* A step that leaves users, links and pending checks alone.
LEMMA RolesStay ==
  ASSUME UNCHANGED <<users, solana_address>>,
         \A q \in Requests :
            \/ req'[q] = req[q]
            \/ /\ req'[q].pc \notin {"existing", "update"}
               /\ req'[q].pc # "upsert" \/ req'[q].addr \notin SolWallets
  PROVE  \A w \in SolWallets : (IsAccount(w)' => IsAccount(w)) /\ (IsLinked(w)' => IsLinked(w))
BY DEF IsAccount, IsLinked, SignInPending, LinkPending, LinkedTo

LEMMA NextRace == TypeOK /\ RaceInv /\ [Next]_vars => RaceInv'
<1> SUFFICES ASSUME TypeOK, RaceInv, [Next]_vars PROVE RaceInv'
  OBVIOUS
<1>0. ASSUME UNCHANGED <<users, solana_address>>, raced \subseteq raced',
             \A q \in Requests :
                \/ req'[q] = req[q]
                \/ /\ req'[q].pc \notin {"existing", "update"}
                   /\ req'[q].pc # "upsert" \/ req'[q].addr \notin SolWallets
      PROVE  RaceInv'
  BY <1>0, RolesStay, NoNewRole
<1>1. ASSUME NEW n \in Nonces, IssueNonce(n) \/ ExpireNonce(n) PROVE RaceInv'
  BY <1>0, <1>1 DEF IssueNonce, ExpireNonce, table, history
<1>2. ASSUME NEW r \in Requests, Receive(r) PROVE RaceInv'
  <2>1. PICK p : ReqOK(p) /\ p.pc \in {"nonce", "challenge", "unlink", "exists"}
                 /\ req' = [req EXCEPT ![r] = p]
    BY <1>2, ReceiveReqs, TypeOKReqs
  <2>2. UNCHANGED <<table, history>>
    BY <1>2, ReceiveReqs, TypeOKReqs
  <2> QED BY <1>0, <2>1, <2>2 DEF TypeOK, table, history
<1>3. ASSUME NEW r \in Requests, SignInStep(r) PROVE RaceInv'
  <2> DEFINE to == IF IsSolana(r) THEN "linked" ELSE "upsert"
  <2>1. CASE GetNonce(r, "nonce", "forget")
    BY <1>0, <2>1, GotoEffect, AnswerEffect DEF GetNonce, table, history
  <2>2. CASE DeleteNonce(r, "forget", to)
    <3>1. to \in {"linked", "upsert"} /\ (to = "upsert" => req[r].addr \notin SolWallets)
      BY DEF IsSolana
    <3> HIDE DEF to
    <3> QED BY <1>0, <2>2, <3>1, GotoEffect DEF DeleteNonce, table, history
  <2>3. CASE LinkedLookup(r)
    <3>1. CASE Answer(r)
      BY <1>0, <2>3, <3>1, AnswerEffect DEF LinkedLookup, table, history
    <3>2. CASE /\ LinkedTo(req[r].addr) = {} /\ Goto(r, "upsert")
               /\ raced' = raced \cup {w \in {req[r].addr} : LinkPending(w)}
      <4>1. UNCHANGED <<users, solana_address>>
        BY <2>3 DEF LinkedLookup, table
      <4>2. /\ req'[r].pc = "upsert" /\ req'[r].addr = req[r].addr
            /\ \A q \in Requests \ {r} : req'[q] = req[q]
        BY <3>2, GotoEffect
      <4>3. ASSUME NEW w \in SolWallets PROVE LinkPending(w)' <=> LinkPending(w)
        BY <2>3, <4>2 DEF LinkPending, LinkedLookup
      <4>4. ASSUME NEW w \in SolWallets, IsLinked(w)' PROVE IsLinked(w)
        BY <4>1, <4>3, <4>4 DEF IsLinked, LinkedTo
      <4>5. ASSUME NEW w \in SolWallets, w # req[r].addr, IsAccount(w)' PROVE IsAccount(w)
        BY <4>1, <4>2, <4>5 DEF IsAccount, SignInPending
      <4>6. ASSUME NEW w \in SolWallets, w = req[r].addr, IsLinked(w)' PROVE w \in raced'
        BY <3>2, <4>1, <4>3, <4>6 DEF IsLinked, LinkedTo
      <4>7. raced \subseteq raced'
        BY <3>2
      <4> QED BY <4>4, <4>5, <4>6, <4>7 DEF RaceInv
    <3> QED BY <2>3, <3>1, <3>2 DEF LinkedLookup
  <2>4. CASE Upsert(r)
    <3>1. /\ req'[r].pc = "bancheck" /\ \A q \in Requests \ {r} : req'[q] = req[q]
          /\ req[r].pc = "upsert" /\ users' = users \cup {req[r].addr}
          /\ UNCHANGED <<solana_address, raced>>
      BY <2>4, GotoEffect DEF Upsert, history
    <3>2. ASSUME NEW w \in SolWallets, IsAccount(w)' PROVE IsAccount(w)
      BY <3>1, <3>2 DEF IsAccount, SignInPending
    <3>3. ASSUME NEW w \in SolWallets, IsLinked(w)' PROVE IsLinked(w)
      BY <3>1, <3>3 DEF IsLinked, LinkPending, LinkedTo
    <3> QED BY <3>1, <3>2, <3>3, NoNewRole
  <2>5. CASE BanCheck(r)
    BY <1>0, <2>5, GotoEffect, AnswerEffect DEF BanCheck, table, history
  <2>6. CASE InitObject(r)
    BY <1>0, <2>6, GotoEffect DEF InitObject, table, history
  <2>7. CASE Cookie(r)
    BY <1>0, <2>7, AnswerEffect DEF Cookie, table, history
  <2> QED BY <1>3, <2>1, <2>2, <2>3, <2>4, <2>5, <2>6, <2>7 DEF SignInStep
<1>4. ASSUME NEW r \in Requests, LinkStep(r) PROVE RaceInv'
  <2>1. CASE GetNonce(r, "challenge", "consume")
    BY <1>0, <2>1, GotoEffect, AnswerEffect DEF GetNonce, table, history
  <2>2. CASE DeleteNonce(r, "consume", "standalone")
    BY <1>0, <2>2, GotoEffect DEF DeleteNonce, table, history
  <2>3. CASE Standalone(r)
    <3>1. CASE Answer(r)
      BY <1>0, <2>3, <3>1, AnswerEffect DEF Standalone, table, history
    <3>2. CASE /\ req[r].wallet \notin users /\ Goto(r, "existing")
               /\ raced' = raced \cup {w \in {req[r].wallet} : SignInPending(w)}
      <4>1. UNCHANGED <<users, solana_address>>
        BY <2>3 DEF Standalone, table
      <4>2. /\ req'[r].pc = "existing" /\ req'[r].wallet = req[r].wallet
            /\ \A q \in Requests \ {r} : req'[q] = req[q]
        BY <3>2, GotoEffect
      <4>3. ASSUME NEW w \in SolWallets PROVE SignInPending(w)' <=> SignInPending(w)
        BY <2>3, <4>2 DEF SignInPending, Standalone
      <4>4. ASSUME NEW w \in SolWallets, IsAccount(w)' PROVE IsAccount(w)
        BY <4>1, <4>3, <4>4 DEF IsAccount
      <4>5. ASSUME NEW w \in SolWallets, w # req[r].wallet, IsLinked(w)' PROVE IsLinked(w)
        BY <4>1, <4>2, <4>5 DEF IsLinked, LinkPending, LinkedTo
      <4>6. ASSUME NEW w \in SolWallets, w = req[r].wallet, IsAccount(w)' PROVE w \in raced'
        BY <3>2, <4>1, <4>3, <4>6 DEF IsAccount
      <4>7. raced \subseteq raced'
        BY <3>2
      <4> QED BY <4>4, <4>5, <4>6, <4>7 DEF RaceInv
    <3> QED BY <2>3, <3>1, <3>2 DEF Standalone
  <2>4. CASE Existing(r)
    <3>1. CASE Answer(r)
      BY <1>0, <2>4, <3>1, AnswerEffect DEF Existing, table, history
    <3>2. CASE Goto(r, "update")
      <4>1. /\ UNCHANGED <<users, solana_address, raced>>
            /\ req[r].pc = "existing" /\ req'[r].pc = "update"
            /\ req'[r].wallet = req[r].wallet
            /\ \A q \in Requests \ {r} : req'[q] = req[q]
        BY <2>4, <3>2, GotoEffect DEF Existing, table, history
      <4>2. ASSUME NEW w \in SolWallets, IsAccount(w)' PROVE IsAccount(w)
        BY <4>1, <4>2 DEF IsAccount, SignInPending
      <4>3. ASSUME NEW w \in SolWallets, IsLinked(w)' PROVE IsLinked(w)
        BY <4>1, <4>3 DEF IsLinked, LinkPending, LinkedTo
      <4> QED BY <4>1, <4>2, <4>3, NoNewRole
    <3> QED BY <2>4, <3>1, <3>2 DEF Existing
  <2>5. CASE Update(r) \/ Unlink(r)
    <3>1. /\ UNCHANGED <<users, raced>> /\ req'[r].pc = "done"
          /\ \A q \in Requests \ {r} : req'[q] = req[q]
      BY <2>5, AnswerEffect DEF Update, Unlink, history
    <3>2. ASSUME NEW a \in Principals, solana_address'[a] \in SolWallets
          PROVE  \/ solana_address'[a] = solana_address[a]
                 \/ req[r].pc = "update" /\ solana_address'[a] = req[r].wallet
      BY <2>5, <3>2, WalletsAssumption DEF Update, Unlink, TypeOK, Principals
    <3>3. ASSUME NEW w \in SolWallets, IsAccount(w)' PROVE IsAccount(w)
      BY <3>1, <3>3 DEF IsAccount, SignInPending
    <3>4. ASSUME NEW w \in SolWallets, IsLinked(w)' PROVE IsLinked(w)
      BY <3>1, <3>2, <3>4 DEF IsLinked, LinkPending, LinkedTo
    <3> QED BY <3>1, <3>3, <3>4, NoNewRole
  <2> QED BY <1>4, <2>1, <2>2, <2>3, <2>4, <2>5 DEF LinkStep
<1>5. ASSUME NEW r \in Requests, BanStep(r) \/ Abort(r) PROVE RaceInv'
  <2>1. CASE Exists(r)
    BY <1>0, <2>1, GotoEffect, AnswerEffect DEF Exists, table, history
  <2>2. CASE ObjectBan(r)
    BY <1>0, <2>2, GotoEffect DEF ObjectBan, table
  <2>3. CASE Mirror(r) \/ Abort(r)
    BY <1>0, <2>3, AnswerEffect DEF Mirror, Abort, table, history
  <2> QED BY <1>5, <2>1, <2>2, <2>3 DEF BanStep
<1>6. CASE UNCHANGED vars
  BY <1>0, <1>6 DEF vars, table, history
<1> QED BY <1>1, <1>2, <1>3, <1>4, <1>5, <1>6 DEF Next

\* A wallet is an account and linked at once only if a sign-in as the wallet and
\* a request to link it overlapped between check and write; with requests that do
\* not overlap the rule of solana_link.rs holds.
THEOREM BothRolesOnlyByRace == Spec => []BothOnlyByRace
<1>1. Init => RaceInv
  BY WalletsAssumption DEF Init, RaceInv, IsAccount, IsLinked, SignInPending, LinkPending, LinkedTo, New, Principals
<1>2. RaceInv => BothOnlyByRace
  BY DEF RaceInv, BothOnlyByRace, IsAccount, IsLinked
<1> QED BY <1>1, <1>2, InitTypeOK, NextTypeOK, NextRace, PTL DEF Spec

-----------------------------------------------------------------------------
(***************************************************************************)
(* The mirror of the ban.                                                  *)
(***************************************************************************)

\* The request is between the two writes of a ban of the account.
AtMirror(r, p) == req[r].pc = "mirror" /\ req[r].addr = p

\* An account in no doubt has at most one such request, which is about to write
\* what the object says; without one, both already say the same.
MirrorInv ==
  \A p \in Principals \ doubted :
    /\ \A r, q \in Requests : AtMirror(r, p) /\ AtMirror(q, p) => r = q
    /\ \A r \in Requests : AtMirror(r, p) => (req[r].flag # 0 <=> p \in objBanned)
    /\ (\A r \in Requests : ~AtMirror(r, p)) => (p \in banned <=> p \in objBanned)

\* A step that writes neither and neither takes up nor leaves a ban half-way.
LEMMA MirrorStays ==
  ASSUME MirrorInv, UNCHANGED <<banned, objBanned, doubted>>,
         \A q \in Requests :
            req'[q] = req[q] \/ (req[q].pc # "mirror" /\ req'[q].pc # "mirror")
  PROVE  MirrorInv'
BY DEF MirrorInv, AtMirror

LEMMA NextMirror == TypeOK /\ MirrorInv /\ [Next]_vars => MirrorInv'
<1> SUFFICES ASSUME TypeOK, MirrorInv, [Next]_vars PROVE MirrorInv'
  OBVIOUS
<1> USE MirrorStays DEF table, objects, history
<1>1. ASSUME NEW n \in Nonces, IssueNonce(n) \/ ExpireNonce(n) PROVE MirrorInv'
  BY <1>1 DEF IssueNonce, ExpireNonce
<1>2. ASSUME NEW r \in Requests, Receive(r) PROVE MirrorInv'
  <2>1. PICK p : ReqOK(p) /\ p.pc \in {"nonce", "challenge", "unlink", "exists"}
                 /\ req' = [req EXCEPT ![r] = p]
    BY <1>2, ReceiveReqs, TypeOKReqs
  <2>2. UNCHANGED <<table, objects, history>> /\ req[r].pc = "new"
    BY <1>2, ReceiveReqs, TypeOKReqs
  <2> QED BY <2>1, <2>2 DEF TypeOK
<1>3. ASSUME NEW r \in Requests, SignInStep(r) PROVE MirrorInv'
  <2> DEFINE to == IF IsSolana(r) THEN "linked" ELSE "upsert"
  <2>1. CASE GetNonce(r, "nonce", "forget")
    BY <2>1, GotoEffect, AnswerEffect DEF GetNonce
  <2>2. CASE DeleteNonce(r, "forget", to)
    BY <2>2, GotoEffect DEF DeleteNonce
  <2>3. CASE LinkedLookup(r)
    BY <2>3, GotoEffect, AnswerEffect DEF LinkedLookup
  <2>4. CASE Upsert(r) \/ InitObject(r)
    BY <2>4, GotoEffect DEF Upsert, InitObject
  <2>5. CASE BanCheck(r) \/ Cookie(r)
    BY <2>5, GotoEffect, AnswerEffect DEF BanCheck, Cookie
  <2> QED BY <1>3, <2>1, <2>2, <2>3, <2>4, <2>5 DEF SignInStep
<1>4. ASSUME NEW r \in Requests, LinkStep(r) PROVE MirrorInv'
  <2>1. CASE GetNonce(r, "challenge", "consume")
    BY <2>1, GotoEffect, AnswerEffect DEF GetNonce
  <2>2. CASE DeleteNonce(r, "consume", "standalone")
    BY <2>2, GotoEffect DEF DeleteNonce
  <2>3. CASE Standalone(r)
    BY <2>3, GotoEffect, AnswerEffect DEF Standalone
  <2>4. CASE Existing(r)
    BY <2>4, GotoEffect, AnswerEffect DEF Existing
  <2>5. CASE Update(r) \/ Unlink(r)
    BY <2>5, AnswerEffect DEF Update, Unlink
  <2> QED BY <1>4, <2>1, <2>2, <2>3, <2>4, <2>5 DEF LinkStep
<1>5. ASSUME NEW r \in Requests, Exists(r) PROVE MirrorInv'
  BY <1>5, GotoEffect, AnswerEffect DEF Exists
<1>6. ASSUME NEW r \in Requests, ObjectBan(r) PROVE MirrorInv'
  <2>1. /\ UNCHANGED banned /\ objBanned' = Put(objBanned, r)
        /\ req[r].pc = "object" /\ req'[r].pc = "mirror"
        /\ req'[r].addr = req[r].addr /\ req'[r].flag = req[r].flag
        /\ \A q \in Requests \ {r} : req'[q] = req[q]
    BY <1>6, GotoEffect DEF ObjectBan
  <2>2. ASSUME NEW p \in Principals, p \notin doubted', p # req[r].addr
        PROVE  /\ p \notin doubted /\ (p \in objBanned' <=> p \in objBanned)
               /\ \A q \in Requests : AtMirror(q, p)' <=> AtMirror(q, p)
    BY <1>6, <2>1, <2>2 DEF ObjectBan, Put, AtMirror
  <2>3. ASSUME NEW p \in Principals, p \notin doubted', p = req[r].addr
        PROVE  /\ req[r].flag # 0 <=> p \in objBanned'
               /\ \A q \in Requests : AtMirror(q, p)' <=> q = r
    BY <1>6, <2>1, <2>3 DEF ObjectBan, BanPending, Put, AtMirror
  <2>4. ASSUME NEW p \in Principals, p \notin doubted', p # req[r].addr
        PROVE  /\ \A s, q \in Requests : AtMirror(s, p)' /\ AtMirror(q, p)' => s = q
               /\ \A s \in Requests : AtMirror(s, p)' => (req'[s].flag # 0 <=> p \in objBanned')
               /\ (\A s \in Requests : ~AtMirror(s, p)') => (p \in banned' <=> p \in objBanned')
    BY <2>1, <2>2, <2>4 DEF MirrorInv, AtMirror
  <2>5. ASSUME NEW p \in Principals, p \notin doubted', p = req[r].addr
        PROVE  /\ \A s, q \in Requests : AtMirror(s, p)' /\ AtMirror(q, p)' => s = q
               /\ \A s \in Requests : AtMirror(s, p)' => (req'[s].flag # 0 <=> p \in objBanned')
               /\ (\A s \in Requests : ~AtMirror(s, p)') => (p \in banned' <=> p \in objBanned')
    BY <2>1, <2>3, <2>5
  <2> QED BY <2>4, <2>5 DEF MirrorInv
<1>7. ASSUME NEW r \in Requests, Mirror(r) PROVE MirrorInv'
  <2>1. /\ UNCHANGED <<objBanned, doubted>> /\ banned' = Put(banned, r)
        /\ req[r].pc = "mirror" /\ req'[r].pc = "done"
        /\ \A q \in Requests \ {r} : req'[q] = req[q]
    BY <1>7, AnswerEffect DEF Mirror
  <2>2. ASSUME NEW p \in Principals, p # req[r].addr
        PROVE  /\ p \in banned' <=> p \in banned
               /\ \A q \in Requests : AtMirror(q, p)' <=> AtMirror(q, p)
    BY <2>1, <2>2 DEF Put, AtMirror
  <2>3. ASSUME NEW p \in Principals, p \notin doubted, p = req[r].addr
        PROVE  /\ p \in banned' <=> p \in objBanned
               /\ \A q \in Requests : ~AtMirror(q, p)'
    BY <2>1, <2>3 DEF Put, AtMirror, MirrorInv
  <2>4. ASSUME NEW p \in Principals, p \notin doubted
        PROVE  /\ \A s, q \in Requests : AtMirror(s, p)' /\ AtMirror(q, p)' => s = q
               /\ \A s \in Requests : AtMirror(s, p)' => (req'[s].flag # 0 <=> p \in objBanned')
               /\ (\A s \in Requests : ~AtMirror(s, p)') => (p \in banned' <=> p \in objBanned')
    <3>1. CASE p = req[r].addr
      BY <2>1, <2>3, <2>4, <3>1
    <3>2. CASE p # req[r].addr
      <4>1. \A q \in Requests : AtMirror(q, p)' => req'[q].flag = req[q].flag
        BY <2>1, <3>2 DEF AtMirror
      <4> QED BY <2>1, <2>2, <2>4, <3>2, <4>1 DEF MirrorInv
    <3> QED BY <3>1, <3>2
  <2> QED BY <2>1, <2>4 DEF MirrorInv
<1>8. ASSUME NEW r \in Requests, Abort(r) PROVE MirrorInv'
  <2>1. /\ UNCHANGED <<objBanned, banned>>
        /\ doubted' = IF req[r].pc = "mirror" THEN doubted \cup {req[r].addr} ELSE doubted
        /\ req'[r].pc = "done" /\ \A q \in Requests \ {r} : req'[q] = req[q]
    BY <1>8, AnswerEffect DEF Abort
  <2>2. ASSUME NEW p \in Principals, p \notin doubted'
        PROVE  p \notin doubted /\ \A q \in Requests : AtMirror(q, p)' <=> AtMirror(q, p)
    BY <2>1, <2>2 DEF AtMirror
  <2>3. ASSUME NEW q \in Requests, NEW p, AtMirror(q, p)' PROVE req'[q].flag = req[q].flag
    BY <2>1, <2>3 DEF AtMirror
  <2> QED BY <2>1, <2>2, <2>3 DEF MirrorInv
<1>9. CASE UNCHANGED vars
  BY <1>9 DEF vars
<1> QED BY <1>1, <1>2, <1>3, <1>4, <1>5, <1>6, <1>7, <1>8, <1>9 DEF Next, BanStep

\* With no ban of an account under way, and the last one neither failed half-way
\* nor overlapping another, sign-in reads in D1 what the object enforces.
THEOREM MirrorIsTrue == Spec => []MirrorAgrees
<1>1. Init => MirrorInv
  BY DEF Init, MirrorInv, AtMirror, New
<1>2. MirrorInv => MirrorAgrees
  BY DEF MirrorInv, MirrorAgrees, AtMirror
<1> QED BY <1>1, <1>2, InitTypeOK, NextTypeOK, NextMirror, PTL DEF Spec
=============================================================================
