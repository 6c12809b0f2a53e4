---------------------------- MODULE Gateway_proofs ----------------------------
(***************************************************************************)
(* Proofs about Gateway and the engine behind it, for every set of         *)
(* clients, users, keys and models.                                        *)
(***************************************************************************)
EXTENDS Gateway, FiniteSetTheorems, TLAPS

-----------------------------------------------------------------------------
(***************************************************************************)
(* Types of the engine.                                                    *)
(***************************************************************************)

LEMMA SessionNames == Sessions \subseteq Nat \ {0}
BY EngineAssumption, FS_CardinalityType DEF EngineAssumption, Sessions

\* A well-formed place of a caller: it knows its key as long as it needs it.
CallOK(r) ==
  /\ r \in Calls
  /\ r.pc \in {"retry", "wait", "lock", "load", "infer"} => r.key \in Keys /\ ModelOf[r.key] \in Models
  /\ r.pc \in {"load", "infer"} => r.session # 0

CallsOK == call \in [Callers -> Calls] /\ \A c \in Callers : CallOK(call[c])

RestOK ==
  /\ session \in [Models -> Nat]
  /\ idle \in [Models -> 0..IdleTimeout]
  /\ abandoned \subseteq Leftovers
  /\ cached \subseteq Keys

LEMMA EngineTypes == CallsOK /\ RestOK => EngineTypeOK
BY DEF CallsOK, CallOK, RestOK, EngineTypeOK

\* Where At puts a caller.
LEMMA AtOK ==
  ASSUME NEW pc \in Places, NEW key \in Keys \cup {None},
         pc \in {"retry", "wait", "lock"} => key \in Keys /\ ModelOf[key] \in Models,
         pc \notin {"load", "infer"}
  PROVE  CallOK(At(pc, key))
BY EngineAssumption DEF EngineAssumption, CallOK, At, Calls

LEMMA PlaceOK ==
  ASSUME NEW key \in Keys
  PROVE  /\ Place(key) \in {"query", "wait", "lock"}
         /\ Place(key) # "query" => ModelOf[key] \in Models
BY EngineAssumption DEF EngineAssumption, Place

LEMMA PutCall ==
  ASSUME CallsOK, NEW c \in Callers, NEW r, CallOK(r), call' = [call EXCEPT ![c] = r]
  PROVE  CallsOK'
BY DEF CallsOK, CallOK

LEMMA EnterTypes ==
  ASSUME CallsOK, NEW c \in Callers, NEW key \in Keys, Enter(c, key)
  PROVE  CallsOK'
<1>1. CallOK(At(Place(key), key))
  BY PlaceOK, AtOK DEF Places
<1> QED BY <1>1, PutCall DEF Enter

LEMMA HandOutTypes ==
  ASSUME CallsOK, RestOK, NEW c \in Callers, HandOut(c)
  PROVE  CallsOK' /\ RestOK'
<1> DEFINE r == [call[c] EXCEPT !.pc = "infer", !.session = session[ModelFor(c)], !.age = 0]
<1>1. ModelFor(c) \in Models /\ session[ModelFor(c)] \in Nat \ {0}
  BY DEF HandOut, CallsOK, CallOK, ModelFor, RestOK
<1>2. call' = [call EXCEPT ![c] = r]
  BY DEF HandOut, CallsOK
<1>3. call[c] \in Calls /\ call[c].key \in Keys /\ ModelOf[call[c].key] \in Models
  BY DEF HandOut, CallsOK, CallOK
<1>4. 0 \in 0..IdleTimeout
  BY EngineAssumption DEF EngineAssumption
<1>5. r \in Calls
  BY <1>1, <1>3, <1>4 DEF Calls, Places
<1>6. CallOK(r)
  BY <1>1, <1>3, <1>5 DEF CallOK, Calls
<1>7. CallsOK'
  <2> HIDE DEF r
  <2> QED BY <1>2, <1>6, PutCall
<1>8. RestOK'
  BY <1>1, EngineAssumption DEF EngineAssumption, HandOut, RestOK
<1> QED BY <1>7, <1>8

LEMMA LoadTypes ==
  ASSUME CallsOK, RestOK, NEW c \in Callers, Load(c)
  PROVE  CallsOK' /\ RestOK'
<1>1. PICK s \in Sessions : call' = [call EXCEPT ![c].pc = "load", ![c].session = s]
  BY DEF Load
<1> DEFINE r == [call[c] EXCEPT !.pc = "load", !.session = s]
<1>2. call' = [call EXCEPT ![c] = r]
  BY <1>1 DEF CallsOK
<1>3. CallOK(r)
  BY SessionNames DEF Load, CallsOK, CallOK, Calls, Places
<1>4. CallsOK'
  <2> HIDE DEF r
  <2> QED BY <1>2, <1>3, PutCall
<1>5. RestOK'
  BY DEF Load, RestOK
<1> QED BY <1>4, <1>5

LEMMA LoadedTypes ==
  ASSUME CallsOK, RestOK, NEW c \in Callers, Loaded(c)
  PROVE  CallsOK' /\ RestOK'
<1> DEFINE r == [call[c] EXCEPT !.pc = "infer", !.age = 0]
<1>1. ModelFor(c) \in Models /\ call[c].session \in Nat \ {0}
  BY DEF Loaded, CallsOK, CallOK, ModelFor, Calls
<1>2. call' = [call EXCEPT ![c] = r]
  BY DEF Loaded, CallsOK
<1>3. call[c] \in Calls /\ call[c].key \in Keys /\ ModelOf[call[c].key] \in Models
  BY DEF Loaded, CallsOK, CallOK
<1>4. 0 \in 0..IdleTimeout
  BY EngineAssumption DEF EngineAssumption
<1>5. r \in Calls
  BY <1>3, <1>4 DEF Calls, Places
<1>6. CallOK(r)
  BY <1>1, <1>3, <1>5 DEF CallOK, Calls
<1>7. CallsOK'
  <2> HIDE DEF r
  <2> QED BY <1>2, <1>6, PutCall
<1>8. RestOK'
  BY <1>1, EngineAssumption DEF EngineAssumption, Loaded, RestOK
<1> QED BY <1>7, <1>8

\* The end of a computation, for the caller and for those that wait.
LEMMA SettleTypes ==
  ASSUME CallsOK, NEW c \in Callers, call[c].pc \in {"load", "infer"},
         NEW pc \in {"query", "failed"}, Settle(c, call[c].key, pc, pc)
  PROVE  CallsOK'
<1> DEFINE f(d) == IF d = c THEN At(pc, call[c].key)
                   ELSE IF call[d].pc = "wait" /\ call[d].key = call[c].key THEN At(pc, call[c].key)
                   ELSE call[d]
<1>1. call' = [d \in Callers |-> f(d)]
  BY DEF Settle
<1>2. CallOK(At(pc, call[c].key))
  BY AtOK DEF CallsOK, CallOK, Calls, Places
<1>3. \A d \in Callers : CallOK(f(d))
  BY <1>2 DEF CallsOK
<1>4. \A d \in Callers : f(d) \in Calls
  BY <1>3 DEF CallOK
<1> HIDE DEF f
<1> QED BY <1>1, <1>3, <1>4 DEF CallsOK, CallOK

LEMMA RestUnchanged ==
  ASSUME RestOK, UNCHANGED <<session, idle, abandoned, cached>>
  PROVE  RestOK'
BY DEF RestOK

LEMMA InferTypes ==
  ASSUME CallsOK, RestOK, NEW c \in Callers, Infer(c)
  PROVE  CallsOK' /\ RestOK'
<1>1. CallsOK'
  BY SettleTypes DEF Infer
<1>2. call[c].key \in Keys
  BY DEF Infer, CallsOK, CallOK
<1>3. RestOK'
  BY <1>2 DEF Infer, RestOK
<1> QED BY <1>1, <1>3

LEMMA ComputeFailsTypes ==
  ASSUME CallsOK, RestOK, NEW c \in Callers, ComputeFails(c)
  PROVE  CallsOK' /\ RestOK'
<1>1. CallsOK'
  BY SettleTypes DEF ComputeFails
<1>2. RestOK'
  BY RestUnchanged DEF ComputeFails
<1> QED BY <1>1, <1>2

LEMMA RetryTypes ==
  ASSUME CallsOK, RestOK, NEW c \in Callers, Retry(c)
  PROVE  CallsOK' /\ RestOK'
<1>1. call[c].key \in Keys
  BY DEF Retry, CallsOK, CallOK
<1>2. CallsOK'
  BY <1>1, EnterTypes DEF Retry
<1>3. RestOK'
  BY RestUnchanged DEF Retry, Enter
<1> QED BY <1>2, <1>3

LEMMA ComputeTypes ==
  ASSUME CallsOK, RestOK, NEW c \in Callers, ComputeStep(c)
  PROVE  CallsOK' /\ RestOK'
<1>1. CASE Retry(c)        BY <1>1, RetryTypes
<1>2. CASE HandOut(c)      BY <1>2, HandOutTypes
<1>3. CASE Load(c)         BY <1>3, LoadTypes
<1>4. CASE Loaded(c)       BY <1>4, LoadedTypes
<1>5. CASE ComputeFails(c) BY <1>5, ComputeFailsTypes
<1>6. CASE Infer(c)        BY <1>6, InferTypes
<1> QED BY <1>1, <1>2, <1>3, <1>4, <1>5, <1>6 DEF ComputeStep

LEMMA LeaveTypes ==
  ASSUME CallsOK, RestOK, NEW c \in Callers, Leave(c)
  PROVE  CallsOK' /\ RestOK'
<1>1. CallOK(At("out", None))
  BY AtOK DEF Places
<1>2. CallsOK'
  BY <1>1, PutCall DEF Leave
<1>3. RestOK'
  BY RestUnchanged DEF Leave
<1> QED BY <1>2, <1>3

LEMMA LeftoverOK ==
  ASSUME CallsOK, NEW c \in Callers
  PROVE  /\ Leftover(c) \subseteq Leftovers
         /\ \A l \in Leftover(c) :
              /\ call[c].pc \in {"load", "infer"}
              /\ l = [model |-> ModelFor(c), session |-> call[c].session, age |-> call[c].age,
                     loading |-> l.loading]
              /\ l.loading = 0 => call[c].pc = "infer"
<1>1. CASE call[c].pc = "load"
  <2>1. ModelFor(c) \in Models /\ call[c].session \in Nat /\ call[c].age \in 0..IdleTimeout
    BY <1>1 DEF CallsOK, CallOK, ModelFor, Calls
  <2>2. Leftover(c) = {[model |-> ModelFor(c), session |-> call[c].session, age |-> call[c].age,
                        loading |-> 1]}
    BY <1>1 DEF Leftover
  <2> QED BY <1>1, <2>1, <2>2 DEF Leftovers
<1>2. CASE call[c].pc = "infer"
  <2>1. ModelFor(c) \in Models /\ call[c].session \in Nat /\ call[c].age \in 0..IdleTimeout
    BY <1>2 DEF CallsOK, CallOK, ModelFor, Calls
  <2>2. Leftover(c) = {[model |-> ModelFor(c), session |-> call[c].session, age |-> call[c].age,
                        loading |-> 0]}
    BY <1>2 DEF Leftover
  <2> QED BY <1>2, <2>1, <2>2 DEF Leftovers
<1>3. CASE call[c].pc \notin {"load", "infer"}
  BY <1>3 DEF Leftover
<1> QED BY <1>1, <1>2, <1>3

LEMMA DropTypes ==
  ASSUME CallsOK, RestOK, NEW c \in Callers, Drop(c)
  PROVE  CallsOK' /\ RestOK'
<1> DEFINE f(d) == IF d = c THEN At("out", None)
                   ELSE IF Computing(c) /\ call[d].pc = "wait" /\ call[d].key = call[c].key
                   THEN At("retry", call[d].key)
                   ELSE call[d]
<1>1. call' = [d \in Callers |-> f(d)]
  BY DEF Drop
<1>2. CallOK(At("out", None))
  BY AtOK DEF Places
<1>3. ASSUME NEW d \in Callers, call[d].pc = "wait"
      PROVE  CallOK(At("retry", call[d].key))
  BY <1>3, AtOK DEF CallsOK, CallOK, Places
<1>4. \A d \in Callers : CallOK(f(d))
  BY <1>2, <1>3 DEF CallsOK
<1>5. \A d \in Callers : f(d) \in Calls
  BY <1>4 DEF CallOK
<1>6. CallsOK'
  <2> HIDE DEF f
  <2> QED BY <1>1, <1>4, <1>5 DEF CallsOK, CallOK
<1>7. RestOK'
  BY LeftoverOK DEF Drop, RestOK
<1> QED BY <1>6, <1>7

LEMMA AbandonedEndsTypes ==
  ASSUME CallsOK, RestOK, NEW l \in abandoned, AbandonedEnds(l)
  PROVE  CallsOK' /\ RestOK'
BY DEF AbandonedEnds, CallsOK, RestOK, CallOK

LEMMA ReapTypes ==
  ASSUME CallsOK, RestOK, NEW m \in Models, Reap(m)
  PROVE  CallsOK' /\ RestOK'
BY DEF Reap, CallsOK, RestOK, CallOK

LEMMA OlderOK ==
  ASSUME NEW t \in 0..IdleTimeout
  PROVE  /\ Older(t) \in 0..IdleTimeout
         /\ t = IdleTimeout => Older(t) = IdleTimeout
         /\ \A v \in 0..IdleTimeout : v >= t => Older(v) >= Older(t)
BY EngineAssumption DEF EngineAssumption, Older

LEMMA EngineTickTypes ==
  ASSUME CallsOK, RestOK, EngineTick
  PROVE  CallsOK' /\ RestOK'
<1> DEFINE f(c) == IF call[c].pc = "infer" THEN [call[c] EXCEPT !.age = Older(@)] ELSE call[c]
           g(l) == IF l.loading = 0 THEN [l EXCEPT !.age = Older(@)] ELSE l
<1>1. ASSUME NEW c \in Callers PROVE CallOK(f(c))
  <2>1. call[c].age \in 0..IdleTimeout
    BY DEF CallsOK, Calls
  <2> QED BY <2>1, OlderOK DEF CallsOK, CallOK, Calls
<1>2. ASSUME NEW l \in Leftovers PROVE g(l) \in Leftovers
  BY OlderOK DEF Leftovers
<1>3. \A c \in Callers : f(c) \in Calls
  BY <1>1 DEF CallOK
<1>4. CallsOK'
  <2>1. call' = [c \in Callers |-> f(c)]
    BY DEF EngineTick
  <2> HIDE DEF f
  <2> QED BY <1>1, <1>3, <2>1 DEF CallsOK, CallOK
<1>5. abandoned' \subseteq Leftovers
  <2>1. abandoned' = {g(l) : l \in abandoned}
    BY DEF EngineTick
  <2> HIDE DEF g
  <2> QED BY <1>2, <2>1 DEF RestOK
<1>6. RestOK'
  BY <1>5, OlderOK DEF EngineTick, RestOK
<1> QED BY <1>4, <1>6

-----------------------------------------------------------------------------
(***************************************************************************)
(* What is forwarded is paid for.  The invariant adds that a view within   *)
(* its dedupe window was bought, which is why a second one is free, and    *)
(* that a caller is at the engine only while its request is.               *)
(***************************************************************************)

RequestsOK ==
  /\ request \in [Callers -> [pc : Stops, key : Keys \cup {None}, charged : BOOLEAN]]
  /\ \A c \in Callers : request[c].pc # "idle" => request[c].key \in Keys

AccountOK ==
  /\ balance \in [Users -> Nat]
  /\ viewed \in [Users -> [Keys -> 0..Dedupe]]
  /\ bought \subseteq Users \X Keys

RecentIsBought == \A u \in Users, k \in Keys : viewed[u][k] < Dedupe => <<u, k>> \in bought

AtTheEngine == \A c \in Callers : request[c].pc # "engine" => call[c].pc = "out"

Inv ==
  /\ CallsOK /\ RestOK
  /\ RequestsOK
  /\ AccountOK /\ RecentIsBought
  /\ NothingUnpaid
  /\ AtTheEngine

LEMMA InitInv == Init => Inv
<1> SUFFICES ASSUME Init PROVE Inv
  OBVIOUS
<1>1. CallOK(At("out", None))
  BY AtOK DEF Places
<1>2. CallsOK
  BY <1>1 DEF Init, EngineInit, CallsOK, CallOK
<1>3. RestOK
  BY EngineAssumption DEF EngineAssumption, Init, EngineInit, RestOK
<1>4. RequestsOK /\ NothingUnpaid
  BY DEF Init, RequestsOK, NothingUnpaid, Idle, Stops
<1>5. AccountOK /\ RecentIsBought
  BY GatewayAssumption DEF GatewayAssumption, Init, AccountOK, RecentIsBought
<1>6. AtTheEngine
  BY DEF Init, EngineInit, AtTheEngine, At
<1> QED BY <1>2, <1>3, <1>4, <1>5, <1>6 DEF Inv

\* One client's request changes: to what may stand there.
RequestOK(c, r) ==
  /\ r \in [pc : Stops, key : Keys \cup {None}, charged : BOOLEAN]
  /\ r.pc # "idle" => r.key \in Keys
  /\ r.pc \in {"proxy", "engine"} /\ r.charged => <<UserOf[c], r.key>> \in bought'

LEMMA PutRequest ==
  ASSUME RequestsOK, NothingUnpaid, bought \subseteq bought',
         NEW c \in Callers, NEW r, RequestOK(c, r), request' = [request EXCEPT ![c] = r]
  PROVE  RequestsOK' /\ NothingUnpaid'
<1>1. RequestsOK'
  BY DEF RequestsOK, RequestOK
<1>2. ASSUME NEW d \in Callers, request'[d].pc \in {"proxy", "engine"}, request'[d].charged
      PROVE  <<UserOf[d], request'[d].key>> \in bought'
  <2>1. CASE d = c
    BY <1>2, <2>1 DEF RequestsOK, RequestOK
  <2>2. CASE d # c
    BY <1>2, <2>2 DEF RequestsOK, NothingUnpaid
  <2> QED BY <2>1, <2>2
<1>3. NothingUnpaid'
  BY <1>2 DEF NothingUnpaid
<1> QED BY <1>1, <1>3

LEMMA IdleOK ==
  ASSUME NEW c \in Callers
  PROVE  RequestOK(c, Idle)
BY DEF RequestOK, Idle, Stops

LEMMA GoOK ==
  ASSUME RequestsOK, NEW c \in Callers, request[c].pc # "idle", NEW pc \in Stops,
         pc \in {"proxy", "engine"} /\ request[c].charged => <<UserOf[c], request[c].key>> \in bought'
  PROVE  RequestOK(c, [request[c] EXCEPT !.pc = pc])
BY DEF RequestsOK, RequestOK

LEMMA GoPut ==
  ASSUME RequestsOK, NEW c \in Callers, NEW pc, Go(c, pc)
  PROVE  request' = [request EXCEPT ![c] = [request[c] EXCEPT !.pc = pc]]
BY DEF RequestsOK, Go

LEMMA ReceiveInv ==
  ASSUME Inv, NEW c \in Callers, NEW key \in Asks[c], NEW readable \in BOOLEAN,
         Receive(c, key, readable)
  PROVE  Inv'
<1> DEFINE r == [pc |-> IF Metered(key, readable) THEN "charge" ELSE "proxy",
                 key |-> key, charged |-> Metered(key, readable)]
<1>1. key \in Keys /\ Metered(key, readable) \in BOOLEAN
  BY GatewayAssumption DEF GatewayAssumption, Metered
<1>2. RequestOK(c, r)
  <2>1. r \in [pc : Stops, key : Keys \cup {None}, charged : BOOLEAN]
    BY <1>1 DEF Stops
  <2>2. ~(r.pc \in {"proxy", "engine"} /\ r.charged)
    <3>1. CASE Metered(key, readable)
      BY <3>1
    <3>2. CASE ~Metered(key, readable)
      BY <3>2
    <3> QED BY <3>1, <3>2
  <2>3. r.key \in Keys
    BY <1>1
  <2> QED BY <2>1, <2>2, <2>3 DEF RequestOK
<1>3. request' = [request EXCEPT ![c] = r] /\ bought' = bought
  BY DEF Receive, account
<1>4. RequestsOK' /\ NothingUnpaid'
  <2> HIDE DEF r
  <2> QED BY <1>2, <1>3, PutRequest DEF Inv
<1>5. CallsOK' /\ RestOK' /\ AccountOK' /\ RecentIsBought'
  BY DEF Inv, Receive, engine, account, CallsOK, CallOK, RestOK, AccountOK, RecentIsBought
<1>6. AtTheEngine'
  <2>1. call' = call /\ request[c].pc = "idle"
    BY DEF Receive, engine
  <2>2. r.pc # "engine"
    OBVIOUS
  <2>3. call[c].pc = "out"
    BY <2>1 DEF Inv, AtTheEngine
  <2> HIDE DEF r
  <2> QED BY <1>3, <2>1, <2>2, <2>3 DEF Inv, AtTheEngine, RequestsOK
<1> QED BY <1>4, <1>5, <1>6 DEF Inv

LEMMA UserOfOK == \A c \in Callers : UserOf[c] \in Users
BY GatewayAssumption DEF GatewayAssumption

\* What the account does with a charge.
LEMMA DeductOK ==
  ASSUME AccountOK, RecentIsBought, NEW u \in Users, NEW key \in Keys, Deduct(u, key)
  PROVE  /\ AccountOK' /\ RecentIsBought'
         /\ bought \subseteq bought'
         /\ Granted(u, key) => <<u, key>> \in bought'
<1>1. CASE ~Granted(u, key) \/ viewed[u][key] < Dedupe
  BY <1>1 DEF Deduct, account, AccountOK, RecentIsBought
<1>2. CASE Granted(u, key) /\ ~(viewed[u][key] < Dedupe)
  <2>1. /\ balance' = [balance EXCEPT ![u] = @ - 1]
        /\ viewed' = [viewed EXCEPT ![u][key] = 0]
        /\ bought' = bought \cup {<<u, key>>}
    BY <1>2 DEF Deduct
  <2>2. balance[u] > 0
    BY <1>2 DEF Granted
  <2>3. AccountOK'
    BY <2>1, <2>2, GatewayAssumption DEF GatewayAssumption, AccountOK
  <2>4. RecentIsBought'
    BY <2>1 DEF AccountOK, RecentIsBought
  <2> QED BY <2>1, <2>3, <2>4
<1> QED BY <1>1, <1>2

LEMMA ChargeInv ==
  ASSUME Inv, NEW c \in Callers, Charge(c)
  PROVE  Inv'
<1> DEFINE u == UserOf[c]
           key == request[c].key
<1>1. u \in Users /\ key \in Keys /\ request[c].pc = "charge"
  BY UserOfOK DEF Charge, Inv, RequestsOK
<1>2. CASE Deduct(u, key) /\ Granted(u, key) /\ Go(c, "proxy")
  <2>1. AccountOK' /\ RecentIsBought' /\ bought \subseteq bought' /\ <<u, key>> \in bought'
    BY <1>1, <1>2, DeductOK DEF Inv
  <2>2. RequestOK(c, [request[c] EXCEPT !.pc = "proxy"])
    BY <1>1, <2>1, GoOK DEF Inv, Stops
  <2>3. request' = [request EXCEPT ![c] = [request[c] EXCEPT !.pc = "proxy"]]
    BY <1>2, GoPut DEF Inv
  <2>4. RequestsOK' /\ NothingUnpaid'
    BY <2>1, <2>2, <2>3, PutRequest DEF Inv
  <2>5. AtTheEngine'
    BY <1>1, <2>3 DEF Charge, engine, Inv, AtTheEngine, RequestsOK
  <2> QED BY <2>1, <2>4, <2>5 DEF Inv, Charge, engine, CallsOK, CallOK, RestOK
<1>3. CASE (Deduct(u, key) \/ UNCHANGED account) /\ Answer(c)
  <2>1. AccountOK' /\ RecentIsBought' /\ bought \subseteq bought'
    <3>1. CASE Deduct(u, key)
      BY <1>1, <3>1, DeductOK DEF Inv
    <3>2. CASE UNCHANGED account
      BY <3>2 DEF account, Inv, AccountOK, RecentIsBought
    <3> QED BY <1>3, <3>1, <3>2
  <2>2. request' = [request EXCEPT ![c] = Idle]
    BY <1>3 DEF Answer
  <2>3. RequestsOK' /\ NothingUnpaid'
    BY <2>1, <2>2, IdleOK, PutRequest DEF Inv
  <2>4. AtTheEngine'
    BY <1>1, <2>2 DEF Charge, engine, Inv, AtTheEngine, RequestsOK, Idle
  <2> QED BY <2>1, <2>3, <2>4 DEF Inv, Charge, engine, CallsOK, CallOK, RestOK
<1> QED BY <1>2, <1>3 DEF Charge

\* A request that ends, with the engine left alone or left by its caller.
LEMMA AnswerInv ==
  ASSUME Inv, NEW c \in Callers, Answer(c), UNCHANGED account,
         CallsOK', RestOK', \A d \in Callers : d # c => (call'[d].pc = "out" <=> call[d].pc = "out"),
         call'[c].pc = "out"
  PROVE  Inv'
<1>1. request' = [request EXCEPT ![c] = Idle] /\ bought' = bought
  BY DEF Answer, account
<1>2. RequestsOK' /\ NothingUnpaid'
  BY <1>1, IdleOK, PutRequest DEF Inv
<1>3. AccountOK' /\ RecentIsBought'
  BY DEF account, Inv, AccountOK, RecentIsBought
<1>4. AtTheEngine'
  BY <1>1 DEF Inv, AtTheEngine, RequestsOK
<1> QED BY <1>2, <1>3, <1>4 DEF Inv

LEMMA ForwardedInv ==
  ASSUME Inv, NEW c \in Callers, request[c].pc = "proxy", Forwarded(c), UNCHANGED account
  PROVE  Inv'
<1>1. request[c].key \in Keys
  BY DEF Inv, RequestsOK
<1>2. CallsOK' /\ RestOK'
  BY <1>1, EnterTypes, RestUnchanged DEF Forwarded, Enter, Inv
<1>3. RequestOK(c, [request[c] EXCEPT !.pc = "engine"])
  <2>1. request[c].charged => <<UserOf[c], request[c].key>> \in bought'
    BY DEF account, Inv, NothingUnpaid
  <2> QED BY <2>1, GoOK DEF Inv, Stops
<1>4. request' = [request EXCEPT ![c] = [request[c] EXCEPT !.pc = "engine"]]
  BY GoPut DEF Forwarded, Inv
<1>5. RequestsOK' /\ NothingUnpaid'
  BY <1>3, <1>4, PutRequest DEF account, Inv
<1>6. AccountOK' /\ RecentIsBought'
  BY DEF account, Inv, AccountOK, RecentIsBought
<1>7. AtTheEngine'
  <2>1. \A d \in Callers : d # c => call'[d] = call[d]
    BY DEF Forwarded, Enter, Inv, CallsOK
  <2> QED BY <1>4, <2>1 DEF Inv, AtTheEngine, RequestsOK
<1> QED BY <1>2, <1>5, <1>6, <1>7 DEF Inv

LEMMA ProxyInv ==
  ASSUME Inv, NEW c \in Callers, Proxy(c)
  PROVE  Inv'
<1>1. CASE Forwarded(c)
  BY <1>1, ForwardedInv DEF Proxy
<1>2. CASE UNCHANGED engine /\ Answer(c)
  <2>1. call[c].pc = "out" /\ UNCHANGED account
    BY DEF Proxy, Inv, AtTheEngine
  <2>2. CallsOK' /\ RestOK'
    BY <1>2 DEF engine, Inv, CallsOK, CallOK, RestOK
  <2> QED BY <1>2, <2>1, <2>2, AnswerInv DEF engine
<1> QED BY <1>1, <1>2 DEF Proxy, Fetched, Refused, Unreached

\* A computation leaves alone whoever is not at the engine.
LEMMA OutStays ==
  ASSUME CallsOK, NEW c \in Callers, ComputeStep(c)
  PROVE  \A d \in Callers : call[d].pc = "out" => call'[d].pc = "out"
<1>1. CASE Retry(c)        BY <1>1 DEF Retry, Enter, CallsOK
<1>2. CASE HandOut(c)      BY <1>2 DEF HandOut, CallsOK
<1>3. CASE Load(c)         BY <1>3 DEF Load, CallsOK
<1>4. CASE Loaded(c)       BY <1>4 DEF Loaded, CallsOK
<1>5. CASE ComputeFails(c) BY <1>5 DEF ComputeFails, Settle, CallsOK
<1>6. CASE Infer(c)        BY <1>6 DEF Infer, Settle, CallsOK
<1> QED BY <1>1, <1>2, <1>3, <1>4, <1>5, <1>6 DEF ComputeStep

LEMMA ComputeInv ==
  ASSUME Inv, NEW c \in Callers, Compute(c)
  PROVE  Inv'
<1>1. CallsOK' /\ RestOK'
  BY ComputeTypes DEF Compute, Inv
<1>2. AtTheEngine'
  BY OutStays DEF Compute, Inv, AtTheEngine
<1>3. RequestsOK' /\ NothingUnpaid' /\ AccountOK' /\ RecentIsBought'
  BY DEF Compute, account, Inv, RequestsOK, NothingUnpaid, AccountOK, RecentIsBought
<1> QED BY <1>1, <1>2, <1>3 DEF Inv

LEMMA RespondInv ==
  ASSUME Inv, NEW c \in Callers, Respond(c)
  PROVE  Inv'
<1>1. CallsOK' /\ RestOK'
  BY LeaveTypes DEF Respond, Inv
<1>2. call' = [call EXCEPT ![c] = At("out", None)]
  BY DEF Respond, Leave
<1>3. call'[c].pc = "out" /\ \A d \in Callers : d # c => call'[d] = call[d]
  BY <1>2 DEF Inv, CallsOK, At
<1> QED BY <1>1, <1>3, AnswerInv DEF Respond

LEMMA DisconnectInv ==
  ASSUME Inv, NEW c \in Callers, Disconnect(c)
  PROVE  Inv'
<1>1. CallsOK' /\ RestOK'
  BY DropTypes DEF Disconnect, Inv
<1>2. call'[c].pc = "out"
  BY DEF Disconnect, Drop, At
<1>3. \A d \in Callers : d # c => (call'[d].pc = "out" <=> call[d].pc = "out")
  BY DEF Disconnect, Drop, At
<1> QED BY <1>1, <1>2, <1>3, AnswerInv DEF Disconnect

LEMMA BehindInv == Inv /\ Behind => Inv'
<1> SUFFICES ASSUME Inv, Behind PROVE Inv'
  OBVIOUS
<1>1. CallsOK' /\ RestOK' /\ call' = call
  <2>1. CASE \E m \in Models : Reap(m)
    BY <2>1, ReapTypes DEF Inv, Reap
  <2>2. CASE \E l \in abandoned : AbandonedEnds(l)
    BY <2>2, AbandonedEndsTypes DEF Inv, AbandonedEnds
  <2> QED BY <2>1, <2>2 DEF Behind
<1>2. RequestsOK' /\ NothingUnpaid' /\ AccountOK' /\ RecentIsBought' /\ AtTheEngine'
  BY <1>1 DEF Behind, account, Inv, RequestsOK, NothingUnpaid, AccountOK, RecentIsBought, AtTheEngine
<1> QED BY <1>1, <1>2 DEF Inv

LEMMA TickInv == Inv /\ Tick => Inv'
<1> SUFFICES ASSUME Inv, Tick PROVE Inv'
  OBVIOUS
<1>1. CallsOK' /\ RestOK'
  BY EngineTickTypes DEF Tick, Inv
<1>2. AtTheEngine'
  <2>1. \A c \in Callers : call'[c].pc = call[c].pc
    <3> TAKE c \in Callers
    <3>1. call[c] \in Calls
      BY DEF Inv, CallsOK
    <3> QED BY <3>1 DEF Tick, EngineTick, Calls
  <2> QED BY <2>1 DEF Tick, Inv, AtTheEngine
<1>3. AccountOK' /\ RecentIsBought'
  <2>1. \A u \in Users, k \in Keys : viewed[u][k] \in 0..Dedupe
    BY DEF Inv, AccountOK
  <2>2. \A u \in Users, k \in Keys :
           /\ viewed'[u][k] \in 0..Dedupe
           /\ viewed'[u][k] < Dedupe => viewed[u][k] < Dedupe
    BY <2>1, GatewayAssumption DEF GatewayAssumption, Tick
  <2> QED BY <2>2 DEF Tick, Inv, AccountOK, RecentIsBought
<1>4. RequestsOK' /\ NothingUnpaid'
  BY DEF Tick, Inv, RequestsOK, NothingUnpaid
<1> QED BY <1>1, <1>2, <1>3, <1>4 DEF Inv

LEMMA StutterInv == Inv /\ UNCHANGED vars => Inv'
BY DEF vars, engine, account, Inv, CallsOK, CallOK, RestOK, RequestsOK, AccountOK, RecentIsBought,
       NothingUnpaid, AtTheEngine

LEMMA NextInv == Inv /\ [Next]_vars => Inv'
<1> SUFFICES ASSUME Inv, [Next]_vars PROVE Inv'
  OBVIOUS
<1>1. ASSUME NEW c \in Callers, NEW key \in Asks[c], NEW readable \in BOOLEAN,
             Receive(c, key, readable)
      PROVE  Inv'
  BY <1>1, ReceiveInv
<1>2. ASSUME NEW c \in Callers, Step(c) PROVE Inv'
  BY <1>2, ChargeInv, ProxyInv, ComputeInv, RespondInv DEF Step
<1>3. ASSUME NEW c \in Callers, Disconnect(c) PROVE Inv'
  BY <1>3, DisconnectInv
<1>4. CASE Behind         BY <1>4, BehindInv
<1>5. CASE Tick           BY <1>5, TickInv
<1>6. CASE UNCHANGED vars BY <1>6, StutterInv
<1> QED BY <1>1, <1>2, <1>3, <1>4, <1>5, <1>6 DEF Next

THEOREM InvHolds == Spec => []Inv
<1> QED BY InitInv, NextInv, PTL DEF Spec

LEMMA InvTypes == Inv => TypeOK
<1> SUFFICES ASSUME Inv PROVE TypeOK
  OBVIOUS
<1>1. EngineTypeOK
  BY EngineTypes DEF Inv
<1> QED BY <1>1 DEF Inv, RequestsOK, AccountOK, TypeOK

\* Every variable of the gateway, the account and the engine keeps its type.
THEOREM TypeCorrect == Spec => []TypeOK
<1> QED BY InvHolds, InvTypes, PTL

LEMMA InvUnpaid == Inv => NothingUnpaid
BY DEF Inv

\* Nothing metered is forwarded, computed or served that its user has not paid for: for any
\* number of clients that share a user's account, and any number of points.
THEOREM NeverUnpaid == Spec => []NothingUnpaid
<1> QED BY InvHolds, InvUnpaid, PTL

-----------------------------------------------------------------------------
(***************************************************************************)
(* The cache of embeddings.  ComputedOnce is inductive, given the types    *)
(* and that a caller the gateway forwards is not at the engine yet.        *)
(***************************************************************************)

LEMMA EnterOnce ==
  ASSUME CallsOK, ComputedOnce, NEW c \in Callers, call[c].pc \in {"out", "retry"},
         NEW key \in Keys, Enter(c, key)
  PROVE  ComputedOnce'
<1>1. /\ call' = [call EXCEPT ![c] = At(Place(key), key)]
      /\ cached' = cached
  BY DEF Enter
<1>2. \A d \in Callers : d # c => call'[d] = call[d]
  BY <1>1 DEF CallsOK
<1>3. call'[c] = At(Place(key), key)
  BY <1>1 DEF CallsOK
<1>4. call'[c].key = key /\ call'[c].pc = Place(key)
  BY <1>3 DEF At
<1>5. \A d \in Callers : Computing(d)' <=> IF d = c THEN Place(key) = "lock" ELSE Computing(d)
  BY <1>2, <1>4, PlaceOK DEF Computing
<1>6. ~Computing(c)
  BY DEF Computing
<1>7. Place(key) = "lock" => key \notin cached /\ ~Computed(key)
  BY DEF Place
<1>8. Place(key) = "wait" => Computed(key)
  BY DEF Place
<1>9. \A k : Computed(k) => Computed(k)'
  BY <1>2, <1>5, <1>6 DEF Computed
<1>10. \A d \in Callers : Computing(d)' => call'[d].key \notin cached'
  BY <1>1, <1>2, <1>4, <1>5, <1>7 DEF ComputedOnce
<1>11. \A d, e \in Callers :
          Computing(d)' /\ Computing(e)' /\ call'[d].key = call'[e].key => d = e
  BY <1>2, <1>4, <1>5, <1>6, <1>7 DEF ComputedOnce, Computed
<1>12. \A d \in Callers : call'[d].pc = "wait" =>
         \E e \in Callers : Computing(e)' /\ call'[e].key = call'[d].key
  BY <1>2, <1>4, <1>8, <1>9 DEF ComputedOnce, Computed
<1> QED BY <1>10, <1>11, <1>12 DEF ComputedOnce, Computed

\* A step that moves a computation on, keys and cache as they are.
LEMMA SameOnce ==
  ASSUME ComputedOnce, UNCHANGED cached,
         \A c \in Callers : /\ Computing(c)' <=> Computing(c)
                            /\ call'[c].pc = "wait" <=> call[c].pc = "wait"
                            /\ call'[c].key = call[c].key
  PROVE  ComputedOnce'
<1>1. \A k : Computed(k)' <=> Computed(k)
  BY DEF Computed
<1> QED BY <1>1 DEF ComputedOnce

LEMMA SettleOnce ==
  ASSUME CallsOK, ComputedOnce, NEW c \in Callers, Computing(c), NEW pc \in {"query", "failed"},
         Settle(c, call[c].key, pc, pc), cached' \subseteq cached \cup {call[c].key}
  PROVE  ComputedOnce'
<1>1. call'[c] = At(pc, call[c].key)
  BY DEF Settle
<1>2. ASSUME NEW d \in Callers, d # c, call[d].pc = "wait", call[d].key = call[c].key
      PROVE  call'[d] = At(pc, call[c].key)
  BY <1>2 DEF Settle
<1>3. ASSUME NEW d \in Callers, d # c, ~(call[d].pc = "wait" /\ call[d].key = call[c].key)
      PROVE  call'[d] = call[d]
  BY <1>3 DEF Settle
<1>4. \A d \in Callers :
         /\ Computing(d)' <=> Computing(d) /\ d # c
         /\ Computing(d)' => call'[d].key = call[d].key
         /\ call'[d].pc = "wait" => /\ call[d].pc = "wait" /\ call[d].key # call[c].key
                                  /\ call'[d].key = call[d].key
  BY <1>1, <1>2, <1>3 DEF Computing, At
<1>5. \A k : k # call[c].key /\ Computed(k) => Computed(k)'
  BY <1>4 DEF Computed
<1>6. \A d \in Callers : Computing(d)' => call'[d].key \notin cached'
  BY <1>4 DEF ComputedOnce
<1>7. \A d, e \in Callers :
         Computing(d)' /\ Computing(e)' /\ call'[d].key = call'[e].key => d = e
  BY <1>4 DEF ComputedOnce
<1>8. \A d \in Callers : call'[d].pc = "wait" =>
         \E e \in Callers : Computing(e)' /\ call'[e].key = call'[d].key
  BY <1>4, <1>5 DEF ComputedOnce, Computed
<1> QED BY <1>6, <1>7, <1>8 DEF ComputedOnce, Computed

LEMMA ComputeOnce ==
  ASSUME CallsOK, ComputedOnce, NEW c \in Callers, ComputeStep(c)
  PROVE  ComputedOnce'
<1>1. CASE Retry(c)
  <2>1. call[c].key \in Keys
    BY <1>1 DEF Retry, CallsOK, CallOK
  <2> QED BY <1>1, <2>1, EnterOnce DEF Retry
<1>2. CASE HandOut(c)
  <2>1. \A d \in Callers : d # c => call'[d] = call[d]
    BY <1>2 DEF HandOut, CallsOK
  <2>2. call'[c].pc = "infer" /\ call'[c].key = call[c].key
    BY <1>2 DEF HandOut, CallsOK, Calls
  <2> QED BY <1>2, <2>1, <2>2, SameOnce DEF HandOut, Computing
<1>3. CASE Load(c)
  <2>1. \A d \in Callers : d # c => call'[d] = call[d]
    BY <1>3 DEF Load, CallsOK
  <2>2. call'[c].pc = "load" /\ call'[c].key = call[c].key
    BY <1>3 DEF Load, CallsOK, Calls
  <2> QED BY <1>3, <2>1, <2>2, SameOnce DEF Load, Computing
<1>4. CASE Loaded(c)
  <2>1. \A d \in Callers : d # c => call'[d] = call[d]
    BY <1>4 DEF Loaded, CallsOK
  <2>2. call'[c].pc = "infer" /\ call'[c].key = call[c].key
    BY <1>4 DEF Loaded, CallsOK, Calls
  <2> QED BY <1>4, <2>1, <2>2, SameOnce DEF Loaded, Computing
<1>5. CASE ComputeFails(c)
  BY <1>5, SettleOnce DEF ComputeFails, Computing
<1>6. CASE Infer(c)
  BY <1>6, SettleOnce DEF Infer, Computing
<1> QED BY <1>1, <1>2, <1>3, <1>4, <1>5, <1>6 DEF ComputeStep

\* A caller that computes nothing and waits for nothing leaves.
LEMMA LeaveOnce ==
  ASSUME CallsOK, ComputedOnce, NEW c \in Callers, Leave(c)
  PROVE  ComputedOnce'
<1>1. call'[c].pc = "out" /\ \A d \in Callers : d # c => call'[d] = call[d]
  BY DEF Leave, CallsOK, At
<1>2. \A d \in Callers : /\ Computing(d)' <=> Computing(d)
                         /\ Computing(d)' \/ call'[d].pc = "wait" => call'[d] = call[d]
  BY <1>1 DEF Leave, Computing
<1>3. \A k : Computed(k) => Computed(k)'
  BY <1>2 DEF Computed
<1> QED BY <1>2, <1>3 DEF Leave, ComputedOnce

LEMMA DropOnce ==
  ASSUME CallsOK, ComputedOnce, NEW c \in Callers, Drop(c)
  PROVE  ComputedOnce'
<1>1. call'[c].pc = "out"
  BY DEF Drop, At
<1>2. ASSUME NEW d \in Callers, d # c, Computing(c), call[d].pc = "wait", call[d].key = call[c].key
      PROVE  call'[d].pc = "retry"
  BY <1>2 DEF Drop, At
<1>3. ASSUME NEW d \in Callers, d # c,
             ~(Computing(c) /\ call[d].pc = "wait" /\ call[d].key = call[c].key)
      PROVE  call'[d] = call[d]
  BY <1>3 DEF Drop
<1>4. \A d \in Callers :
         /\ Computing(d)' <=> Computing(d) /\ d # c
         /\ Computing(d)' \/ call'[d].pc = "wait" => call'[d] = call[d]
         /\ call'[d].pc = "wait" => ~Computing(c) \/ call[d].key # call[c].key
  BY <1>1, <1>2, <1>3 DEF Computing
<1>5. \A k : Computed(k) /\ (~Computing(c) \/ k # call[c].key) => Computed(k)'
  BY <1>4 DEF Computed
<1>6. \A d \in Callers : call'[d].pc = "wait" =>
         \E e \in Callers : Computing(e)' /\ call'[e].key = call'[d].key
  BY <1>4, <1>5 DEF ComputedOnce, Computed
<1>7. \A d \in Callers : Computing(d)' => call'[d].key \notin cached'
  BY <1>4 DEF Drop, ComputedOnce
<1>8. \A d, e \in Callers :
         Computing(d)' /\ Computing(e)' /\ call'[d].key = call'[e].key => d = e
  BY <1>4 DEF ComputedOnce
<1> QED BY <1>6, <1>7, <1>8 DEF ComputedOnce, Computed

LEMMA StillOnce ==
  ASSUME ComputedOnce, UNCHANGED <<call, cached>>
  PROVE  ComputedOnce'
BY SameOnce DEF Computing

LEMMA TickOnce ==
  ASSUME CallsOK, ComputedOnce, EngineTick
  PROVE  ComputedOnce'
<1>1. \A c \in Callers : call'[c].pc = call[c].pc /\ call'[c].key = call[c].key
  <2> TAKE c \in Callers
  <2>1. call[c] \in Calls
    BY DEF CallsOK
  <2> QED BY <2>1 DEF EngineTick, Calls
<1> QED BY <1>1, SameOnce DEF EngineTick, Computing

LEMMA NextOnce == Inv /\ ComputedOnce /\ [Next]_vars => ComputedOnce'
<1> SUFFICES ASSUME Inv, ComputedOnce, [Next]_vars PROVE ComputedOnce'
  OBVIOUS
<1>1. CASE UNCHANGED <<call, cached>>
  BY <1>1, StillOnce
<1>2. ASSUME NEW c \in Callers, Proxy(c) PROVE ComputedOnce'
  <2>1. CASE Forwarded(c)
    BY <1>2, <2>1, EnterOnce DEF Proxy, Forwarded, Inv, AtTheEngine, RequestsOK
  <2>2. CASE UNCHANGED engine
    BY <1>1, <2>2 DEF engine
  <2> QED BY <1>2, <2>1, <2>2 DEF Proxy, Fetched, Refused, Unreached
<1>3. ASSUME NEW c \in Callers, Compute(c) PROVE ComputedOnce'
  BY <1>3, ComputeOnce DEF Compute, Inv
<1>4. ASSUME NEW c \in Callers, Respond(c) PROVE ComputedOnce'
  BY <1>4, LeaveOnce DEF Respond, Inv
<1>5. ASSUME NEW c \in Callers, Disconnect(c) PROVE ComputedOnce'
  BY <1>5, DropOnce DEF Disconnect, Inv
<1>6. CASE Tick
  BY <1>6, TickOnce DEF Tick, Inv
<1>7. CASE Behind
  BY <1>1, <1>7 DEF Behind, Reap, AbandonedEnds
<1>8. ASSUME NEW c \in Callers, Charge(c) PROVE ComputedOnce'
  BY <1>1, <1>8 DEF Charge, engine
<1>9. ASSUME NEW c \in Callers, NEW key, NEW readable, Receive(c, key, readable) PROVE ComputedOnce'
  BY <1>1, <1>9 DEF Receive, engine
<1>10. CASE UNCHANGED vars
  BY <1>1, <1>10 DEF vars, engine
<1> QED BY <1>2, <1>3, <1>4, <1>5, <1>6, <1>7, <1>8, <1>9, <1>10 DEF Next, Step

LEMMA InitOnce == Init => ComputedOnce
BY DEF Init, EngineInit, At, ComputedOnce, Computing

\* However callers of one key come, fail and go, one of them computes its embedding, once, and
\* the others have it to wait for.
THEOREM AlwaysComputedOnce == Spec => []ComputedOnce
<1>1. Inv /\ Inv' /\ ComputedOnce /\ [Next]_vars => ComputedOnce'
  BY NextOnce
<1> QED BY <1>1, InvHolds, InitOnce, PTL DEF Spec

-----------------------------------------------------------------------------
(***************************************************************************)
(* The sessions of a model.  LiveSessions alone is not inductive: that an  *)
(* unloaded session has been used for a timeout follows because whoever    *)
(* uses the model's session took it no later than it was last handed out.  *)
(***************************************************************************)

Held(s, a, m) == (s = session[m] /\ a >= idle[m]) \/ a = IdleTimeout

HeldByCallers == \A c \in Callers :
  call[c].pc = "infer" => Held(call[c].session, call[c].age, ModelFor(c))

HeldByLeftovers == \A l \in abandoned :
  l.loading = 0 => l.session # 0 /\ Held(l.session, l.age, l.model)

NoneWhileLoading == \A c \in Callers : call[c].pc = "load" => session[ModelFor(c)] = 0

OneLoads == \A c, d \in Callers :
  call[c].pc = "load" /\ call[d].pc = "load" /\ ModelFor(c) = ModelFor(d) => c = d

Held4 == HeldByCallers /\ HeldByLeftovers /\ NoneWhileLoading /\ OneLoads

LEMMA HeldLive == Held4 => LiveSessions
BY DEF Held4, HeldByCallers, HeldByLeftovers, NoneWhileLoading, OneLoads, Held, LiveSessions

\* Callers that neither take nor load a session can be forgotten.
LEMMA FewerHeld ==
  ASSUME Held4, UNCHANGED <<session, idle>>,
         \A c \in Callers : call'[c].pc \in {"load", "infer"} => call'[c] = call[c],
         \A l \in abandoned' : l.loading = 0 => l \in abandoned
  PROVE  Held4'
BY DEF Held4, HeldByCallers, HeldByLeftovers, NoneWhileLoading, OneLoads, Held, ModelFor

LEMMA OtherCalls ==
  ASSUME CallsOK, NEW c \in Callers, NEW r, call' = [call EXCEPT ![c] = r]
  PROVE  call'[c] = r /\ \A d \in Callers : d # c => call'[d] = call[d]
BY DEF CallsOK

LEMMA EnterHeld ==
  ASSUME CallsOK, Held4, NEW c \in Callers, NEW key \in Keys, Enter(c, key)
  PROVE  Held4'
<1>1. call'[c] = At(Place(key), key) /\ \A d \in Callers : d # c => call'[d] = call[d]
  BY OtherCalls DEF Enter
<1>2. call'[c].pc \notin {"load", "infer"}
  BY <1>1, PlaceOK DEF At
<1> QED BY <1>1, <1>2, FewerHeld DEF Enter

LEMMA SettleHeld ==
  ASSUME CallsOK, Held4, NEW c \in Callers, NEW pc \in {"query", "failed"},
         Settle(c, call[c].key, pc, pc), UNCHANGED <<session, idle, abandoned>>
  PROVE  Held4'
<1>1. \A d \in Callers : call'[d] = At(pc, call[c].key) \/ call'[d] = call[d]
  BY DEF Settle
<1>2. At(pc, call[c].key).pc \notin {"load", "infer"}
  BY DEF At
<1> QED BY <1>1, <1>2, FewerHeld

LEMMA HandOutHeld ==
  ASSUME CallsOK, RestOK, Held4, NEW c \in Callers, HandOut(c)
  PROVE  Held4'
<1> DEFINE m == ModelFor(c)
           r == [call[c] EXCEPT !.pc = "infer", !.session = session[m], !.age = 0]
<1>1. m \in Models /\ call[c].pc = "lock" /\ session' = session
  BY DEF HandOut, CallsOK, CallOK, ModelFor
<1>2. call' = [call EXCEPT ![c] = r]
  BY DEF HandOut, CallsOK
<1>3. call'[c] = r /\ \A d \in Callers : d # c => call'[d] = call[d]
  <2> HIDE DEF r
  <2> QED BY <1>2, OtherCalls
<1>4. /\ call'[c].pc = "infer" /\ call'[c].session = session[m] /\ call'[c].age = 0
      /\ call'[c].key = call[c].key
  BY <1>3 DEF CallsOK, Calls
<1>5. \A n \in Models : idle'[n] = IF n = m THEN 0 ELSE idle[n]
  BY <1>1 DEF HandOut, RestOK
<1>6. \A s, a, n : n \in Models /\ a \in 0..IdleTimeout /\ Held(s, a, n) => Held(s, a, n)'
  BY <1>1, <1>5 DEF Held
<1>7. \A d \in Callers : call'[d].key = call[d].key
  BY <1>3, <1>4
<1>8. HeldByCallers'
  <2> SUFFICES ASSUME NEW d \in Callers, call'[d].pc = "infer"
               PROVE  \/ /\ call'[d].session = session'[ModelFor(d)]
                         /\ call'[d].age >= idle'[ModelFor(d)]
                      \/ call'[d].age = IdleTimeout
    BY <1>7 DEF HeldByCallers, Held, ModelFor
  <2>1. CASE d = c
    BY <2>1, <1>1, <1>4, <1>5
  <2>2. CASE d # c
    <3>1. /\ call[d].age \in 0..IdleTimeout /\ ModelFor(d) \in Models
          /\ call'[d] = call[d] /\ call[d].pc = "infer"
      BY <2>2, <1>3 DEF CallsOK, CallOK, Calls, ModelFor
    <3>2. Held(call[d].session, call[d].age, ModelFor(d))
      BY <3>1 DEF Held4, HeldByCallers
    <3> QED BY <3>1, <3>2, <1>1, <1>5 DEF Held
  <2> QED BY <2>1, <2>2
<1>9. HeldByLeftovers'
  BY <1>6 DEF HandOut, RestOK, Leftovers, Held4, HeldByLeftovers
<1>10. \A d \in Callers : call'[d].pc = "load" =>
          call[d].pc = "load" /\ ModelOf[call'[d].key] = ModelFor(d)
  BY <1>3, <1>4, <1>7 DEF ModelFor
<1>11. NoneWhileLoading'
  BY <1>1, <1>10 DEF Held4, NoneWhileLoading, ModelFor
<1>12. OneLoads'
  BY <1>10 DEF Held4, OneLoads, ModelFor
<1> QED BY <1>8, <1>9, <1>11, <1>12 DEF Held4

LEMMA LoadHeld ==
  ASSUME CallsOK, RestOK, Held4, NEW c \in Callers, Load(c)
  PROVE  Held4'
<1>1. PICK s \in Sessions : call' = [call EXCEPT ![c].pc = "load", ![c].session = s]
  BY DEF Load
<1> DEFINE r == [call[c] EXCEPT !.pc = "load", !.session = s]
<1>2. call' = [call EXCEPT ![c] = r]
  BY <1>1 DEF CallsOK
<1>3. call'[c] = r /\ \A d \in Callers : d # c => call'[d] = call[d]
  <2> HIDE DEF r
  <2> QED BY <1>2, OtherCalls
<1>4. call'[c].pc = "load" /\ call'[c].key = call[c].key
  BY <1>3 DEF CallsOK, Calls
<1>5. \A d \in Callers : call'[d].key = call[d].key
  BY <1>3, <1>4
<1>6. session[ModelFor(c)] = 0 /\ \A d \in Callers : call[d].pc = "load" => ModelFor(d) # ModelFor(c)
  BY DEF Load, Locked
<1>7. HeldByCallers' /\ HeldByLeftovers'
  <2>1. session' = session /\ idle' = idle /\ abandoned' = abandoned
    BY DEF Load
  <2>2. HeldByCallers'
    <3> SUFFICES ASSUME NEW d \in Callers, call'[d].pc = "infer"
                 PROVE  Held(call[d].session, call[d].age, ModelFor(d))'
      BY DEF HeldByCallers
    <3>1. d # c
      BY <1>4
    <3>2. call'[d] = call[d]
      BY <1>3, <3>1
    <3>3. Held(call[d].session, call[d].age, ModelFor(d))
      BY <3>2 DEF Held4, HeldByCallers
    <3> QED BY <2>1, <3>2, <3>3 DEF Held, ModelFor
  <2>3. HeldByLeftovers'
    BY <2>1 DEF Held4, HeldByLeftovers, Held
  <2> QED BY <2>2, <2>3
<1>8. \A d \in Callers : call'[d].pc = "load" =>
         /\ ModelOf[call'[d].key] = ModelFor(d)
         /\ d = c \/ (call[d].pc = "load" /\ ModelFor(d) # ModelFor(c))
  <2>1. \A d \in Callers : ModelOf[call'[d].key] = ModelFor(d)
    BY <1>5 DEF ModelFor
  <2>2. \A d \in Callers : d # c => call'[d] = call[d]
    BY <1>3
  <2>3. ASSUME NEW d \in Callers, d # c, call'[d].pc = "load"
        PROVE  call[d].pc = "load" /\ ModelFor(d) # ModelFor(c)
    BY <1>6, <2>2, <2>3
  <2> QED BY <2>1, <2>3
<1>9. NoneWhileLoading'
  BY <1>6, <1>8 DEF Load, Held4, NoneWhileLoading, ModelFor
<1>10. OneLoads'
  BY <1>8 DEF Held4, OneLoads, ModelFor
<1> QED BY <1>7, <1>9, <1>10 DEF Held4

\* The only load of its model: whoever still uses another session has had it for a timeout.
LEMMA LoadedHeld ==
  ASSUME CallsOK, RestOK, Held4, NEW c \in Callers, Loaded(c)
  PROVE  Held4'
<1> DEFINE m == ModelFor(c)
           r == [call[c] EXCEPT !.pc = "infer", !.age = 0]
<1>1. m \in Models /\ call[c].pc = "load" /\ abandoned' = abandoned
  BY DEF Loaded, CallsOK, CallOK, ModelFor
<1>2. call' = [call EXCEPT ![c] = r]
  BY DEF Loaded, CallsOK
<1>3. call'[c] = r /\ \A d \in Callers : d # c => call'[d] = call[d]
  <2> HIDE DEF r
  <2> QED BY <1>2, OtherCalls
<1>4. /\ call'[c].pc = "infer" /\ call'[c].session = call[c].session /\ call'[c].age = 0
      /\ call'[c].key = call[c].key
  BY <1>3 DEF CallsOK, Calls
<1>5. \A n \in Models : /\ idle'[n] = IF n = m THEN 0 ELSE idle[n]
                        /\ session'[n] = IF n = m THEN call[c].session ELSE session[n]
  BY <1>1 DEF Loaded, RestOK
<1>6. session[m] = 0
  BY <1>1 DEF Held4, NoneWhileLoading
<1>7. \A s, a, n : s # 0 /\ n \in Models /\ a \in 0..IdleTimeout /\ Held(s, a, n) => Held(s, a, n)'
  BY <1>1, <1>5, <1>6 DEF Held
<1>8. \A d \in Callers : call'[d].key = call[d].key
  BY <1>3, <1>4
<1>9. HeldByCallers'
  <2> SUFFICES ASSUME NEW d \in Callers, call'[d].pc = "infer"
               PROVE  \/ /\ call'[d].session = session'[ModelFor(d)]
                         /\ call'[d].age >= idle'[ModelFor(d)]
                      \/ call'[d].age = IdleTimeout
    BY <1>8 DEF HeldByCallers, Held, ModelFor
  <2>1. CASE d = c
    BY <2>1, <1>1, <1>4, <1>5
  <2>2. CASE d # c
    <3>1. /\ call[d].age \in 0..IdleTimeout /\ ModelFor(d) \in Models /\ call[d].session # 0
          /\ call'[d] = call[d] /\ call[d].pc = "infer"
      BY <2>2, <1>3 DEF CallsOK, CallOK, Calls, ModelFor
    <3>2. Held(call[d].session, call[d].age, ModelFor(d))
      BY <3>1 DEF Held4, HeldByCallers
    <3> QED BY <3>1, <3>2, <1>1, <1>5, <1>6 DEF Held
  <2> QED BY <2>1, <2>2
<1>10. HeldByLeftovers'
  BY <1>1, <1>7 DEF RestOK, Leftovers, Held4, HeldByLeftovers
<1>11. NoneWhileLoading' /\ OneLoads'
  <2>1. \A d \in Callers : call'[d].pc = "load" =>
           call[d].pc = "load" /\ d # c /\ ModelFor(d) # m /\ ModelFor(d) \in Models
    BY <1>1, <1>3, <1>4 DEF Held4, OneLoads, CallsOK, CallOK, ModelFor
  <2> QED BY <2>1, <1>5, <1>8 DEF Held4, NoneWhileLoading, OneLoads, ModelFor
<1> QED BY <1>9, <1>10, <1>11 DEF Held4

LEMMA ComputeHeld ==
  ASSUME CallsOK, RestOK, Held4, NEW c \in Callers, ComputeStep(c)
  PROVE  Held4'
<1>1. CASE Retry(c)
  <2>1. call[c].key \in Keys
    BY <1>1 DEF Retry, CallsOK, CallOK
  <2> QED BY <1>1, <2>1, EnterHeld DEF Retry
<1>2. CASE HandOut(c)      BY <1>2, HandOutHeld
<1>3. CASE Load(c)         BY <1>3, LoadHeld
<1>4. CASE Loaded(c)       BY <1>4, LoadedHeld
<1>5. CASE ComputeFails(c) BY <1>5, SettleHeld DEF ComputeFails
<1>6. CASE Infer(c)        BY <1>6, SettleHeld DEF Infer
<1> QED BY <1>1, <1>2, <1>3, <1>4, <1>5, <1>6 DEF ComputeStep

LEMMA LeaveHeld ==
  ASSUME CallsOK, Held4, NEW c \in Callers, Leave(c)
  PROVE  Held4'
<1>1. call'[c] = At("out", None) /\ \A d \in Callers : d # c => call'[d] = call[d]
  BY OtherCalls DEF Leave
<1>2. call'[c].pc = "out"
  BY <1>1 DEF At
<1> QED BY <1>1, <1>2, FewerHeld DEF Leave

\* What a dropped caller used goes on using it.
LEMMA DropHeld ==
  ASSUME CallsOK, RestOK, Held4, NEW c \in Callers, Drop(c)
  PROVE  Held4'
<1>1. \A d \in Callers : call'[d].pc \in {"load", "infer"} => call'[d] = call[d]
  BY DEF Drop, At
<1>2. UNCHANGED <<session, idle>> /\ abandoned' = abandoned \cup Leftover(c)
  BY DEF Drop
<1>3. ASSUME NEW l \in Leftover(c), l.loading = 0
      PROVE  l.session # 0 /\ Held(l.session, l.age, l.model)
  <2>1. /\ call[c].pc = "infer" /\ l.model = ModelFor(c)
        /\ l.session = call[c].session /\ l.age = call[c].age
    BY <1>3, LeftoverOK
  <2> QED BY <2>1 DEF Held4, HeldByCallers, CallsOK, CallOK
<1>4. \A l \in abandoned' : l.loading = 0 => l.session # 0 /\ Held(l.session, l.age, l.model)
  BY <1>2, <1>3 DEF Held4, HeldByLeftovers
<1>5. HeldByLeftovers'
  BY <1>2, <1>4 DEF HeldByLeftovers, Held
<1> QED BY <1>1, <1>2, <1>5 DEF Held4, HeldByCallers, NoneWhileLoading, OneLoads, Held, ModelFor

LEMMA AbandonedEndsHeld ==
  ASSUME Held4, NEW l \in abandoned, AbandonedEnds(l)
  PROVE  Held4'
BY FewerHeld DEF AbandonedEnds

\* What is unloaded has not been handed out for a timeout.
LEMMA ReapHeld ==
  ASSUME CallsOK, RestOK, Held4, NEW m \in Models, Reap(m)
  PROVE  Held4'
<1>1. /\ idle[m] = IdleTimeout /\ ~Locked(m)
      /\ UNCHANGED <<call, idle, abandoned>>
      /\ \A n \in Models : session'[n] = IF n = m THEN 0 ELSE session[n]
  BY DEF Reap, RestOK
<1>2. \A s, a, n : n \in Models /\ a \in 0..IdleTimeout /\ Held(s, a, n)
         => \/ s = session'[n] /\ a >= idle'[n]
            \/ a = IdleTimeout
  BY <1>1, EngineAssumption DEF EngineAssumption, Held
<1>3. HeldByCallers'
  <2>1. \A c \in Callers : call[c].pc = "infer" => ModelFor(c) \in Models /\ call[c].age \in 0..IdleTimeout
    BY DEF CallsOK, CallOK, Calls, ModelFor
  <2>2. \A c \in Callers : call[c].pc = "infer" =>
           \/ call[c].session = session'[ModelFor(c)] /\ call[c].age >= idle'[ModelFor(c)]
           \/ call[c].age = IdleTimeout
    BY <1>2, <2>1 DEF Held4, HeldByCallers
  <2> QED BY <1>1, <2>2 DEF HeldByCallers, Held, ModelFor
<1>4. HeldByLeftovers'
  <2>1. \A l \in abandoned : l.model \in Models /\ l.age \in 0..IdleTimeout
    BY DEF RestOK, Leftovers
  <2> QED BY <1>1, <1>2, <2>1 DEF Held4, HeldByLeftovers, Held
<1>5. NoneWhileLoading' /\ OneLoads'
  <2>1. \A c \in Callers : call[c].pc = "load" => ModelFor(c) \in Models
    BY DEF CallsOK, CallOK, ModelFor
  <2> QED BY <1>1, <2>1 DEF Held4, NoneWhileLoading, OneLoads, ModelFor
<1> QED BY <1>3, <1>4, <1>5 DEF Held4

LEMMA TickHeld ==
  ASSUME CallsOK, RestOK, Held4, EngineTick
  PROVE  Held4'
<1>1. ASSUME NEW c \in Callers
      PROVE  /\ call'[c].pc = call[c].pc /\ call'[c].key = call[c].key
             /\ call'[c].session = call[c].session
             /\ call[c].pc = "infer" => call'[c].age = Older(call[c].age)
  <2>1. call[c] \in Calls
    BY DEF CallsOK
  <2>2. call'[c] = IF call[c].pc = "infer" THEN [call[c] EXCEPT !.age = Older(@)] ELSE call[c]
    BY DEF EngineTick
  <2> QED BY <2>1, <2>2 DEF Calls
<1>2. session' = session /\ \A m \in Models : idle'[m] = IF session[m] = 0 THEN idle[m] ELSE Older(idle[m])
  BY DEF EngineTick
<1>3. ASSUME NEW m \in Models, NEW s, NEW a \in 0..IdleTimeout, s # 0, Held(s, a, m)
      PROVE  \/ s = session'[m] /\ Older(a) >= idle'[m]
             \/ Older(a) = IdleTimeout
  <2>1. idle[m] \in 0..IdleTimeout
    BY DEF RestOK
  <2>2. CASE s = session[m] /\ a >= idle[m]
    BY <1>2, <1>3, <2>1, <2>2, OlderOK
  <2>3. CASE a = IdleTimeout
    BY <2>3, OlderOK
  <2> QED BY <1>3, <2>2, <2>3 DEF Held
<1>4. HeldByCallers'
  <2>1. \A c \in Callers : call[c].pc = "infer" =>
           ModelFor(c) \in Models /\ call[c].age \in 0..IdleTimeout /\ call[c].session # 0
    BY DEF CallsOK, CallOK, Calls, ModelFor
  <2>2. \A c \in Callers : call[c].pc = "infer" =>
           \/ call[c].session = session'[ModelFor(c)] /\ Older(call[c].age) >= idle'[ModelFor(c)]
           \/ Older(call[c].age) = IdleTimeout
    BY <1>3, <2>1 DEF Held4, HeldByCallers
  <2> QED BY <1>1, <2>2 DEF HeldByCallers, Held, ModelFor
<1>5. HeldByLeftovers'
  <2> DEFINE g(l) == IF l.loading = 0 THEN [l EXCEPT !.age = Older(@)] ELSE l
  <2>1. ASSUME NEW l \in abandoned, g(l).loading = 0
        PROVE  /\ g(l).session # 0
               /\ \/ g(l).session = session'[g(l).model] /\ g(l).age >= idle'[g(l).model]
                  \/ g(l).age = IdleTimeout
    <3>1. l \in Leftovers
      BY DEF RestOK
    <3>2. l.loading = 0
      BY <2>1, <3>1
    <3>3. /\ l.session # 0 /\ Held(l.session, l.age, l.model)
          /\ l.model \in Models /\ l.age \in 0..IdleTimeout
      BY <3>1, <3>2 DEF Held4, HeldByLeftovers, Leftovers
    <3>4. g(l).session = l.session /\ g(l).model = l.model /\ g(l).age = Older(l.age)
      BY <3>1, <3>2 DEF Leftovers
    <3> HIDE DEF g
    <3> QED BY <1>3, <3>3, <3>4
  <2>2. abandoned' = {g(l) : l \in abandoned}
    BY DEF EngineTick
  <2> HIDE DEF g
  <2> QED BY <2>1, <2>2 DEF HeldByLeftovers, Held
<1>6. NoneWhileLoading' /\ OneLoads'
  BY <1>1, <1>2 DEF Held4, NoneWhileLoading, OneLoads, ModelFor
<1> QED BY <1>4, <1>5, <1>6 DEF Held4

LEMMA StillHeld ==
  ASSUME Held4, UNCHANGED engine
  PROVE  Held4'
BY FewerHeld DEF engine

LEMMA NextHeld == Inv /\ Held4 /\ [Next]_vars => Held4'
<1> SUFFICES ASSUME Inv, Held4, [Next]_vars PROVE Held4'
  OBVIOUS
<1>1. ASSUME NEW c \in Callers, Proxy(c) PROVE Held4'
  <2>1. CASE Forwarded(c)
    BY <1>1, <2>1, EnterHeld DEF Proxy, Forwarded, Inv, RequestsOK
  <2>2. CASE UNCHANGED engine
    BY <2>2, StillHeld
  <2> QED BY <1>1, <2>1, <2>2 DEF Proxy, Fetched, Refused, Unreached
<1>2. ASSUME NEW c \in Callers, Compute(c) PROVE Held4'
  BY <1>2, ComputeHeld DEF Compute, Inv
<1>3. ASSUME NEW c \in Callers, Respond(c) PROVE Held4'
  BY <1>3, LeaveHeld DEF Respond, Inv
<1>4. ASSUME NEW c \in Callers, Disconnect(c) PROVE Held4'
  BY <1>4, DropHeld DEF Disconnect, Inv
<1>5. CASE Tick
  BY <1>5, TickHeld DEF Tick, Inv
<1>6. CASE Behind
  BY <1>6, ReapHeld, AbandonedEndsHeld DEF Behind, Inv
<1>7. ASSUME NEW c \in Callers, Charge(c) PROVE Held4'
  BY <1>7, StillHeld DEF Charge
<1>8. ASSUME NEW c \in Callers, NEW key, NEW readable, Receive(c, key, readable) PROVE Held4'
  BY <1>8, StillHeld DEF Receive
<1>9. CASE UNCHANGED vars
  BY <1>9, StillHeld DEF vars
<1> QED BY <1>1, <1>2, <1>3, <1>4, <1>5, <1>6, <1>7, <1>8, <1>9 DEF Next, Step

LEMMA InitHeld == Init => Held4
BY DEF Init, EngineInit, At, Held4, HeldByCallers, HeldByLeftovers, NoneWhileLoading, OneLoads

\* However many callers load, use, drop and leave models that the reaper unloads, sessions of one
\* model pile up only behind inferences that take an idle timeout or longer, and behind loads
\* whose caller has gone.
THEOREM SessionsBounded == Spec => []LiveSessions
<1>1. Inv /\ Held4 /\ [Next]_vars => Held4'
  BY NextHeld
<1>2. Held4 => LiveSessions
  BY HeldLive
<1> QED BY <1>1, <1>2, InvHolds, InitHeld, PTL DEF Spec
=============================================================================
