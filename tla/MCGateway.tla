----------------------------- MODULE MCGateway ------------------------------
(***************************************************************************)
(* A small instance of Gateway: two clients, one model.                    *)
(***************************************************************************)
EXTENDS Gateway

CONSTANTS clip, ann, bob, tab1, tab2, photo, near, dog, cat

MCModelOf == [k \in Keys |-> IF k \in {dog, cat} THEN clip ELSE None]
MCKindOf == [k \in Keys |-> CASE k = photo -> "media"
                              [] k = near  -> "free"
                              [] OTHER     -> "search"]
MCAsks == [c \in Callers |-> Keys \ IF c = tab1 THEN {cat} ELSE {photo}]
MCUserOf == [c \in Callers |-> IF bob \in Users /\ c = tab2 THEN bob ELSE ann]
=============================================================================
