------------------------------- MODULE Likes --------------------------------
(***************************************************************************)
(* The likes of one account: user_worker/src/likes.rs and the buttons of   *)
(* search/app/src/components/like_button.rs.  The worker's handlers are    *)
(* one statement each.  Requests take their time: the worker may apply one *)
(* long after it was sent, its answer may be lost, and a button may be     *)
(* gone by then, while its request is not.  The worker reads the clock for *)
(* an INSERT before it awaits the database, so the row may be older than   *)
(* the moment it lands.                                                    *)
(***************************************************************************)
EXTENDS Naturals, FiniteSets

CONSTANTS
  None,
  Targets,       \* what can be liked
  Buttons,
  TargetOf,      \* button -> its target
  Limit,         \* rows of a page of the list
  MaxTime,       \* bound of the clock, in seconds
  MaxLate        \* bound: requests of buttons that are gone

ASSUME LikesAssumption ==
  /\ TargetOf \in [Buttons -> Targets]
  /\ IsFiniteSet(Targets)
  /\ Limit \in Nat \ {0}
  /\ MaxTime \in Nat \ {0}

VARIABLES
  now,
  likes,         \* target -> created_at, 0 where there is no row
  button,        \* button -> None where there is none, else a record
  late,          \* requests whose buttons are gone
  doubted,       \* history: buttons whose target was written since they heard of it
  list           \* None, or the listing under way

likesVars == <<now, likes, button, late, doubted, list>>

\* net: the request under way ("get", "POST", "DELETE") or its answer on the way back;
\* since: the second a POST was sent, 1 without one (only an INSERT stores the time).
Requests == {"get", "POST", "DELETE"}
Replies == {"Liked", "NotLiked", "SignedOut", "Err"}
States == {"unknown", "Liked", "NotLiked", "SignedOut"}
ButtonRecords == [state : States, prev : States, net : {"none"} \cup Requests \cup Replies,
                  since : 1..MaxTime]
LateRequests == [target : Targets, net : {"POST", "DELETE"}, since : 1..MaxTime]
Rows == [target : Targets, created_at : 1..MaxTime]

LikesTypeOK ==
  /\ now \in 1..MaxTime
  /\ likes \in [Targets -> 0..MaxTime]
  /\ button \in [Buttons -> {None} \cup ButtonRecords]
  /\ late \subseteq LateRequests
  /\ doubted \subseteq Buttons
  /\ list = None \/
       list \in [cursor : 0..(MaxTime + 1), got : SUBSET Rows, twice : SUBSET Targets,
                 backdated : SUBSET Targets, there : SUBSET Rows, edges : SUBSET (1..MaxTime),
                 done : BOOLEAN]

LikesInit ==
  /\ now = 1
  /\ likes \in [Targets -> 0..1]
  /\ button = [b \in Buttons |-> None]
  /\ late = {} /\ doubted = {}
  /\ list = None

Tick ==
  /\ now < MaxTime
  /\ now' = now + 1
  /\ UNCHANGED <<likes, button, late, doubted, list>>

-----------------------------------------------------------------------------
(* The worker: one statement. *)

\* INSERT OR IGNORE with the second the worker read, DELETE.
After(t, net, at) ==
  CASE net = "POST" /\ likes[t] = 0 -> [likes EXCEPT ![t] = at]
    [] net = "DELETE"               -> [likes EXCEPT ![t] = 0]
    [] OTHER                        -> likes

Answer(t, net) ==
  IF net = "POST" \/ (net = "get" /\ likes[t] # 0) THEN "Liked" ELSE "NotLiked"

\* A request of second `since` gets to the worker, which reads the clock, and then to the
\* database.  A write raises doubt about every other button of its target.  For a listing under
\* way it may end a row's stay in the table, or add a row older than the moment it lands.
Write(t, net, since, by) ==
  /\ \E at \in since..now :
       /\ likes' = After(t, net, at)
       /\ list' = IF list = None THEN None
                  ELSE [list EXCEPT !.there = {r \in @ : likes'[r.target] = r.created_at},
                          !.backdated = IF likes'[t] = likes[t] \/ likes'[t] \in {0, now} THEN @
                                        ELSE @ \cup {t}]
  /\ doubted' = IF net = "get" THEN doubted \ by
                ELSE (doubted \cup {b \in Buttons : TargetOf[b] = t}) \ by

-----------------------------------------------------------------------------
(* A button. *)

\* It appears, knows nothing and asks.
Mount(b) ==
  /\ button[b] = None
  /\ button' = [button EXCEPT ![b] = [state |-> "unknown", prev |-> "unknown", net |-> "get",
                                           since |-> 1]]
  /\ UNCHANGED <<now, likes, late, doubted, list>>

\* The page is left.  A write on its way arrives all the same.
Unmounted(bs) == [b \in Buttons |-> IF b \in bs THEN None ELSE button[b]]
Underway(bs) ==
  { [target |-> TargetOf[b], net |-> button[b].net, since |-> button[b].since] :
      b \in {c \in bs : button[c] # None /\ button[c].net \in {"POST", "DELETE"}} }
Unmount(bs) ==
  /\ Cardinality(late \cup Underway(bs)) <= MaxLate
  /\ button' = Unmounted(bs)
  /\ late' = late \cup Underway(bs)

\* toggle: nothing while a toggle is pending or the state is not known.
Toggle(b) ==
  /\ button[b] # None
  /\ button[b].net = "none"
  /\ button[b].state \in {"Liked", "NotLiked"}
  /\ button' = [button EXCEPT ![b] =
       IF @.state = "Liked"
       THEN [state |-> "NotLiked", prev |-> "Liked", net |-> "DELETE", since |-> 1]
       ELSE [state |-> "Liked", prev |-> "NotLiked", net |-> "POST", since |-> now]]
  /\ UNCHANGED <<now, likes, late, doubted, list>>

\* The worker serves the request of a button, or refuses it: an expired session, an error.
Serve(b) ==
  /\ button[b] # None
  /\ button[b].net \in Requests
  /\ \/ /\ Write(TargetOf[b], button[b].net, button[b].since, {b})
        /\ button' = [button EXCEPT ![b].net = Answer(TargetOf[b], button[b].net)]
     \/ /\ \E reply \in {"SignedOut", "Err"} : button' = [button EXCEPT ![b].net = reply]
        /\ UNCHANGED <<likes, doubted, list>>
  /\ UNCHANGED <<now, late>>

\* The answer to a served request is lost.
Lose(b) ==
  /\ button[b] # None
  /\ button[b].net \in {"Liked", "NotLiked"}
  /\ button' = [button EXCEPT ![b].net = "Err"]
  /\ doubted' = doubted \cup {b}
  /\ UNCHANGED <<now, likes, late, list>>

\* What the answer makes of the button: an error reverts a toggle and hides a first status.
BugHeard(record) == IF record.net = "Err" THEN record.state ELSE record.net
Heard(record) ==
  IF record.net # "Err" THEN record.net
  ELSE IF record.state = "unknown" THEN "SignedOut"
  ELSE record.prev

Hear(b) ==
  /\ button[b] # None
  /\ button[b].net \in Replies
  /\ button' = [button EXCEPT ![b] = [state |-> Heard(@), prev |-> "unknown", net |-> "none",
                                           since |-> 1]]
  /\ UNCHANGED <<now, likes, late, doubted, list>>

\* A request without a button: applied at last, or lost.
ServeLate(r) ==
  /\ late' = late \ {r}
  /\ \/ Write(r.target, r.net, r.since, {})
     \/ UNCHANGED <<likes, doubted, list>>
  /\ UNCHANGED <<now, button>>

\* Another window of the same account; its request may have been under way all the while.
Elsewhere(t, net) ==
  /\ Write(t, net, 1, {})
  /\ UNCHANGED <<now, button, late>>

-----------------------------------------------------------------------------
(* The list, page by page. *)

BugOlder(row, cursor) == row.created_at <= cursor
\* AND created_at < ?
Older(row, cursor) == row.created_at < cursor

Table == { r \in Rows : likes[r.target] = r.created_at }

StartList ==
  /\ list' = [cursor |-> MaxTime + 1, got |-> {}, twice |-> {}, backdated |-> {},
              there |-> Table, edges |-> {}, done |-> FALSE]

\* ORDER BY created_at DESC LIMIT ?: the newest, in any order within a second.
Pages(rows) ==
  { p \in SUBSET rows :
      /\ Cardinality(p) = IF Cardinality(rows) < Limit THEN Cardinality(rows) ELSE Limit
      /\ \A r \in p, s \in rows \ p : r.created_at >= s.created_at }

\* The second of the page's last row.
Last(p) == { r.created_at : r \in {q \in p : \A s \in p : q.created_at <= s.created_at} }

\* page_cursor: only a full page has a next one.
ListPage ==
  /\ list # None
  /\ ~list.done
  /\ \E p \in Pages({r \in Table : Older(r, list.cursor)}) :
       LET again == {t \in Targets : \E r \in p, s \in list.got : r.target = t /\ s.target = t}
           read == [list EXCEPT !.got = @ \cup p, !.twice = @ \cup again]
       IN \/ /\ Cardinality(p) = Limit
             /\ \E last \in Last(p) :
                  list' = [read EXCEPT !.cursor = last, !.edges = @ \cup {last}]
          \/ /\ Cardinality(p) # Limit
             /\ list' = [read EXCEPT !.done = TRUE]
  /\ UNCHANGED <<now, likes, button, late, doubted>>

-----------------------------------------------------------------------------
(* Correctness. *)

\* A button at rest tells the truth: it shows whether the row is there, whatever was toggled,
\* refused, or failed, unless its own answer was lost or another window or a page left behind
\* wrote to its target since it last heard (toggle, the status effect).
ButtonTellsTruth ==
  \A b \in Buttons \ doubted :
    button[b] # None /\ button[b].net = "none" /\ button[b].state \in {"Liked", "NotLiked"}
    => (button[b].state = "Liked" <=> likes[TargetOf[b]] # 0)

\* Whatever is liked and unliked between its pages, the list shows a target twice only if it was
\* liked again meanwhile by a request that was held up between the worker's look at the clock and
\* the INSERT (like), so that the row landed behind the cursor.  In the end the list shows every
\* like there was all the while, but for those of a second in which a full page ended: the cursor
\* has only the second (list, page_cursor).
ListedOnce ==
  list # None =>
    /\ list.twice \subseteq list.backdated
    /\ list.done =>
         \A r \in list.there : r \in list.got \/ r.created_at \in list.edges
=============================================================================
