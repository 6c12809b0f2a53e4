------------------------------ MODULE Gateway -------------------------------
(***************************************************************************)
(* A metered request on its way: gateway_worker checks the session,        *)
(* charges the account's object and forwards; media come from a store,     *)
(* searches pass the pingora gateway of gateway/, which verifies a token   *)
(* of the access provider, and reach the engine (Engine).                  *)
(*                                                                         *)
(* The account's object appears by what AccountDO shows of it: a view      *)
(* within the dedupe window of a paid one is free, any other is paid or    *)
(* refused.                                                                *)
(***************************************************************************)
EXTENDS Engine

CONSTANTS
  Users,
  UserOf,        \* client -> the user whose session it has
  KindOf,        \* key -> "media", "search" or "free"
  Asks,          \* client -> the keys it may ask for
  Dedupe,        \* DEDUPE_WINDOW_SECS
  Points         \* what an account holds at first

ASSUME GatewayAssumption ==
  /\ UserOf \in [Callers -> Users]
  /\ KindOf \in [Keys -> {"media", "search", "free"}]
  /\ Asks \in [Callers -> SUBSET Keys]
  /\ Dedupe \in Nat \ {0}
  /\ Points \in Nat
  /\ \A k \in Keys : KindOf[k] = "media" => ModelOf[k] = None

VARIABLES
  request,       \* client -> its request
  balance,       \* user -> points
  viewed,        \* user -> key -> time since the last paid view, as far as Dedupe
  bought         \* history: what a user has ever paid for

account == <<balance, viewed, bought>>
vars == <<engine, request, account>>

Stops == {"idle", "charge", "proxy", "engine"}

\* charged: whether the gateway charges for it.
Idle == [pc |-> "idle", key |-> None, charged |-> FALSE]

TypeOK ==
  /\ EngineTypeOK
  /\ request \in [Callers -> [pc : Stops, key : Keys \cup {None}, charged : BOOLEAN]]
  /\ \A c \in Callers : request[c].pc # "idle" => request[c].key \in Keys
  /\ balance \in [Users -> Nat]
  /\ viewed \in [Users -> [Keys -> 0..Dedupe]]
  /\ bought \subseteq Users \X Keys

Init ==
  /\ EngineInit
  /\ request = [c \in Callers |-> Idle]
  /\ balance = [u \in Users |-> Points]
  /\ viewed = [u \in Users |-> [k \in Keys |-> Dedupe]]
  /\ bought = {}

Go(c, pc) == request' = [request EXCEPT ![c].pc = pc]

Answer(c) == request' = [request EXCEPT ![c] = Idle]

\* What is charged for: media that are fetched, but not HEAD; searches whose field is found in
\* the body.
Metered(key, readable) == KindOf[key] # "free" /\ readable

\* gateway(), up to its first await: charge, or forward at once.  Without a session nothing
\* happens: a 401 or the login page.
Receive(c, key, readable) ==
  /\ request[c].pc = "idle"
  /\ request' = [request EXCEPT ![c] = [pc |-> IF Metered(key, readable) THEN "charge" ELSE "proxy",
                                        key |-> key, charged |-> Metered(key, readable)]]
  /\ UNCHANGED <<engine, account>>

\* The account's object: whether a charge is granted, and its effect.
Granted(u, key) == viewed[u][key] < Dedupe \/ balance[u] > 0

Deduct(u, key) ==
  IF ~Granted(u, key) \/ viewed[u][key] < Dedupe
  THEN UNCHANGED account
  ELSE /\ balance' = [balance EXCEPT ![u] = @ - 1]
       /\ viewed' = [viewed EXCEPT ![u][key] = 0]
       /\ bought' = bought \cup {<<u, key>>}

BugCharge(c) ==
  LET u == UserOf[c]  key == request[c].key
  IN /\ request[c].pc = "charge"
     /\ \/ Deduct(u, key) /\ (IF Granted(u, key) THEN Go(c, "proxy") ELSE Answer(c))
        \/ Deduct(u, key) /\ Go(c, "proxy")
        \/ UNCHANGED account /\ Go(c, "proxy")
     /\ UNCHANGED engine
\* charge_do: forward what is granted.  An error, the charge made or not, closes the gate, as
\* does a suspension of the account.
Charge(c) ==
  LET u == UserOf[c]  key == request[c].key
  IN /\ request[c].pc = "charge"
     /\ \/ Deduct(u, key) /\ (IF Granted(u, key) THEN Go(c, "proxy") ELSE Answer(c))
        \/ Deduct(u, key) /\ Answer(c)
        \/ UNCHANGED account /\ Answer(c)
     /\ UNCHANGED engine

\* proxy: media are served by their store, all else goes through the pingora gateway.
Fetched(c) == KindOf[request[c].key] = "media" /\ UNCHANGED engine /\ Answer(c)

Forwarded(c) ==
  /\ KindOf[request[c].key] # "media"
  /\ Enter(c, request[c].key)
  /\ Go(c, "engine")

\* verify: the token is out of date, or signed with a key newer than the key set, which a thread
\* fetches once a day.
Refused(c) == KindOf[request[c].key] # "media" /\ UNCHANGED engine /\ Answer(c)

\* Neither is reached: a 502.
Unreached(c) == UNCHANGED engine /\ Answer(c)

Proxy(c) ==
  /\ request[c].pc = "proxy"
  /\ Fetched(c) \/ Forwarded(c) \/ Refused(c) \/ Unreached(c)
  /\ UNCHANGED account

Compute(c) == ComputeStep(c) /\ UNCHANGED <<request, account>>

\* The answer of the search server.
Respond(c) ==
  /\ request[c].pc = "engine"
  /\ Leave(c)
  /\ Answer(c)
  /\ UNCHANGED account

\* The client leaves: whoever works for it stops.
Disconnect(c) ==
  /\ request[c].pc # "idle"
  /\ Drop(c)
  /\ Answer(c)
  /\ UNCHANGED account

Step(c) == Charge(c) \/ Proxy(c) \/ Compute(c) \/ Respond(c)

-----------------------------------------------------------------------------
(* Around the requests. *)

Behind ==
  /\ \/ \E m \in Models : Reap(m)
     \/ \E l \in abandoned : AbandonedEnds(l)
  /\ UNCHANGED <<request, account>>

Tick ==
  /\ EngineTick
  /\ viewed' = [u \in Users |-> [k \in Keys |->
                  IF viewed[u][k] < Dedupe THEN viewed[u][k] + 1 ELSE Dedupe]]
  /\ UNCHANGED <<request, balance, bought>>

Next ==
  \/ \E c \in Callers :
       \/ \E key \in Asks[c], readable \in BOOLEAN : Receive(c, key, readable)
       \/ Step(c) \/ Disconnect(c)
  \/ Behind \/ Tick

Spec == Init /\ [][Next]_vars

\* Workers, tasks and threads run; a mutex is handed to those that wait for it in turn.
FairSpec ==
  /\ Spec
  /\ \A c \in Callers :
       /\ WF_vars(Step(c))
       /\ SF_vars((HandOut(c) \/ Load(c)) /\ UNCHANGED <<request, account>>)

-----------------------------------------------------------------------------
(* Correctness. *)

\* Whatever fails between the two, nothing metered is forwarded, computed or served that its
\* user has not paid for; but for a search whose field the gateway cannot read, which it forwards
\* uncharged on purpose (gateway, charge_do: fail closed).
NothingUnpaid ==
  \A c \in Callers :
    request[c].pc \in {"proxy", "engine"} /\ request[c].charged
    => <<UserOf[c], request[c].key>> \in bought

\* Every request is answered, or its client leaves: no lock, cache entry, failed computation or
\* caller that went away keeps another waiting for ever (session, try_get_with); unless clients
\* go on for ever leaving while others wait for what they compute.
Answered ==
  <>[][\A c \in Callers : ~Disconnect(c)]_vars
  => \A c \in Callers : request[c].pc # "idle" ~> request[c].pc = "idle"
=============================================================================
