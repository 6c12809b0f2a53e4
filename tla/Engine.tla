------------------------------- MODULE Engine -------------------------------
(***************************************************************************)
(* How search_engine/src/lib.rs computes the embedding of a query: the     *)
(* cache of embeddings, which lets one caller compute and the others wait, *)
(* and LazyModel, which loads a model on demand and unloads it when idle.  *)
(*                                                                         *)
(* A caller is the future of one HTTP request.  It may be dropped at any   *)
(* await, when its client leaves; what it started with spawn_blocking, a   *)
(* load or an inference, then goes on without it.                          *)
(*                                                                         *)
(* The inner mutex of a model is held over an await only while loading, so *)
(* every other critical section is one step.  A session runs one inference *)
(* at a time: an inference is the one step in which it has its turn.       *)
(***************************************************************************)
EXTENDS Naturals, FiniteSets, FiniteSetsExt

CONSTANTS
  None,
  Callers,
  Keys,          \* what is searched for
  Models,
  ModelOf,       \* key -> the model its embedding takes, None if it takes none
  IdleTimeout,   \* --idle-timeout
  MaxAbandoned   \* bound: loads and inferences that lost their caller

ASSUME EngineAssumption ==
  /\ ModelOf \in [Keys -> Models \cup {None}]
  /\ None \notin Models \cup Callers \cup Keys
  /\ IdleTimeout \in Nat \ {0}
  /\ IsFiniteSet(Callers)
  /\ MaxAbandoned \in Nat

VARIABLES
  call,          \* caller -> where it is
  session,       \* model -> Inner.session, a number naming the session, 0 if none
  idle,          \* model -> time since Inner.last_used while it is loaded, as far as IdleTimeout
  abandoned,     \* inferences and loads that go on without a caller
  cached         \* keys whose embedding is in the cache

Sessions == 1..(Cardinality(Callers) + MaxAbandoned)

engine == <<call, session, idle, abandoned, cached>>

Places == {"out", "retry", "wait", "lock", "load", "infer", "query", "failed"}

\* session, age: the session being loaded or used, the time since it was handed out.
Calls == [pc : Places, key : Keys \cup {None}, session : Nat, age : 0..IdleTimeout]
Leftovers == [model : Models, session : Nat, age : 0..IdleTimeout, loading : {0, 1}]

EngineTypeOK ==
  /\ call \in [Callers -> Calls]
  /\ \A c \in Callers :
       call[c].pc \in {"retry", "wait", "lock", "load", "infer"} =>
         call[c].key \in Keys /\ ModelOf[call[c].key] \in Models
  /\ session \in [Models -> Nat]
  /\ idle \in [Models -> 0..IdleTimeout]
  /\ abandoned \subseteq Leftovers
  /\ cached \subseteq Keys

At(pc, key) == [pc |-> pc, key |-> key, session |-> 0, age |-> 0]

EngineInit ==
  /\ call = [c \in Callers |-> At("out", None)]
  /\ session = [m \in Models |-> 0]
  /\ idle = [m \in Models |-> 0]
  /\ abandoned = {}
  /\ cached = {}

ModelFor(c) == ModelOf[call[c].key]
Uses(c, m) == call[c].pc \in {"load", "infer"} /\ ModelFor(c) = m

\* The sessions of a model in memory, those being loaded included.
Live(m) ==
  ({session[m]} \ {0})
    \cup {call[c].session : c \in {d \in Callers : Uses(d, m)}}
    \cup {l.session : l \in {k \in abandoned : k.model = m}}

\* Names of sessions are used again once they are gone: the first that is free.
IsNew(s, m) == s \notin Live(m) /\ \A t \in Sessions : t < s => t \in Live(m)

-----------------------------------------------------------------------------
(* One call. *)

Computing(c) == call[c].pc \in {"lock", "load", "infer"}
Computed(key) == \E c \in Callers : Computing(c) /\ call[c].key = key

BugPlace(key) ==
  IF ModelOf[key] = None \/ key \in cached THEN "query" ELSE "lock"
\* Where a caller goes that asks for a key.  A query by id takes no embedding.  try_get_with: a
\* cached key is used, a key that another caller computes is waited for.
Place(key) ==
  IF ModelOf[key] = None \/ key \in cached THEN "query"
  ELSE IF Computed(key) THEN "wait"
  ELSE "lock"

Enter(c, key) ==
  /\ call' = [call EXCEPT ![c] = At(Place(key), key)]
  /\ UNCHANGED <<session, idle, abandoned, cached>>

\* The caller it waited for was dropped: look again.
Retry(c) ==
  /\ call[c].pc = "retry"
  /\ Enter(c, call[c].key)

\* The computation of a key is over: the caller leaves it, those that wait for it hear of it.
Settle(c, key, mine, theirs) ==
  call' = [d \in Callers |-> IF d = c THEN At(mine, key)
                             ELSE IF call[d].pc = "wait" /\ call[d].key = key THEN At(theirs, key)
                             ELSE call[d]]

Locked(m) == \E c \in Callers : call[c].pc = "load" /\ ModelFor(c) = m

\* session(): hand out the session there is, as used now.
HandOut(c) ==
  LET m == ModelFor(c)
  IN /\ call[c].pc = "lock"
     /\ ~Locked(m) /\ session[m] # 0
     /\ call' = [call EXCEPT ![c].pc = "infer", ![c].session = session[m], ![c].age = 0]
     /\ idle' = [idle EXCEPT ![m] = 0]
     /\ UNCHANGED <<session, abandoned, cached>>

\* There is none: load it, keeping the mutex.
Load(c) ==
  LET m == ModelFor(c)
  IN /\ call[c].pc = "lock"
     /\ ~Locked(m) /\ session[m] = 0
     /\ \E s \in Sessions :
          /\ IsNew(s, m)
          /\ call' = [call EXCEPT ![c].pc = "load", ![c].session = s]
     /\ UNCHANGED <<session, idle, abandoned, cached>>

BugLoaded(c) ==
  LET m == ModelFor(c)
  IN /\ call[c].pc = "load"
     /\ session' = [session EXCEPT ![m] = call[c].session]
     /\ call' = [call EXCEPT ![c].pc = "infer", ![c].age = 0]
     /\ UNCHANGED <<idle, abandoned, cached>>
Loaded(c) ==
  LET m == ModelFor(c)
  IN /\ call[c].pc = "load"
     /\ session' = [session EXCEPT ![m] = call[c].session]
     /\ idle' = [idle EXCEPT ![m] = 0]
     /\ call' = [call EXCEPT ![c].pc = "infer", ![c].age = 0]
     /\ UNCHANGED <<abandoned, cached>>

\* The load or the inference fails: an error for everyone who waits, and nothing is cached.
BugComputeFails(c) ==
  /\ call[c].pc \in {"load", "infer"}
  /\ Settle(c, call[c].key, "failed", "wait")
  /\ UNCHANGED <<session, idle, abandoned, cached>>
ComputeFails(c) ==
  /\ call[c].pc \in {"load", "infer"}
  /\ Settle(c, call[c].key, "failed", "failed")
  /\ UNCHANGED <<session, idle, abandoned, cached>>

Infer(c) ==
  /\ call[c].pc = "infer"
  /\ Settle(c, call[c].key, "query", "query")
  /\ cached' = cached \cup {call[c].key}
  /\ UNCHANGED <<session, idle, abandoned>>

\* The query of the database, with its rows or an error, or the error of the computation.
Leave(c) ==
  /\ call[c].pc \in {"query", "failed"}
  /\ call' = [call EXCEPT ![c] = At("out", None)]
  /\ UNCHANGED <<session, idle, abandoned, cached>>

\* The caller is dropped: its mutex is released, whoever waits for its key computes it instead.
Leftover(c) ==
  IF call[c].pc \in {"load", "infer"}
  THEN {[model |-> ModelFor(c), session |-> call[c].session, age |-> call[c].age,
         loading |-> IF call[c].pc = "load" THEN 1 ELSE 0]}
  ELSE {}

Drop(c) ==
  /\ Cardinality(abandoned \cup Leftover(c)) <= MaxAbandoned
  /\ abandoned' = abandoned \cup Leftover(c)
  /\ call' = [d \in Callers |-> IF d = c THEN At("out", None)
                                ELSE IF /\ Computing(c) /\ call[d].pc = "wait"
                                        /\ call[d].key = call[c].key
                                     THEN At("retry", call[d].key)
                                ELSE call[d]]
  /\ UNCHANGED <<session, idle, cached>>

-----------------------------------------------------------------------------
(* Behind the calls. *)

\* A load or an inference ends that nobody waits for: its session is dropped.
AbandonedEnds(l) ==
  /\ abandoned' = abandoned \ {l}
  /\ UNCHANGED <<call, session, idle, cached>>

\* The reaper wakes up and finds the session handed out long enough ago, in use or not.
Reap(m) ==
  /\ ~Locked(m) /\ session[m] # 0
  /\ idle[m] = IdleTimeout
  /\ session' = [session EXCEPT ![m] = 0]
  /\ UNCHANGED <<call, idle, abandoned, cached>>

Older(t) == IF t < IdleTimeout THEN t + 1 ELSE t

EngineTick ==
  /\ idle' = [m \in Models |-> IF session[m] = 0 THEN idle[m] ELSE Older(idle[m])]
  /\ call' = [c \in Callers |-> IF call[c].pc = "infer"
                                THEN [call[c] EXCEPT !.age = Older(@)] ELSE call[c]]
  /\ abandoned' = {IF l.loading = 0 THEN [l EXCEPT !.age = Older(@)] ELSE l : l \in abandoned}
  /\ UNCHANGED <<session, cached>>

ComputeStep(c) ==
  Retry(c) \/ HandOut(c) \/ Load(c) \/ Loaded(c) \/ ComputeFails(c) \/ Infer(c)

-----------------------------------------------------------------------------
(* Correctness. *)

\* A session the model no longer has is kept in memory only by an inference it was handed out
\* for an idle timeout ago or earlier; and a session being loaded, unless its caller has gone,
\* is the only one of its model but for such.  So two callers never load a model twice, and a
\* prompt inference never has its model loaded next to it (session, spawn_reaper).
LiveSessions ==
  /\ \A c \in Callers : call[c].pc = "infer" =>
       call[c].session = session[ModelFor(c)] \/ call[c].age = IdleTimeout
  /\ \A l \in abandoned : l.loading = 0 =>
       l.session = session[l.model] \/ l.age = IdleTimeout
  /\ \A c \in Callers : call[c].pc = "load" => session[ModelFor(c)] = 0
  /\ \A c, d \in Callers :
       call[c].pc = "load" /\ call[d].pc = "load" /\ ModelFor(c) = ModelFor(d) => c = d

\* An embedding is computed by one caller at a time, and never again once it is cached; whoever
\* waits for it has someone to wait for (search_clip_cached, search_dinov3_cached).
ComputedOnce ==
  /\ \A c \in Callers : Computing(c) => call[c].key \notin cached
  /\ \A c, d \in Callers : Computing(c) /\ Computing(d) /\ call[c].key = call[d].key => c = d
  /\ \A c \in Callers : call[c].pc = "wait" => Computed(call[c].key)
=============================================================================
