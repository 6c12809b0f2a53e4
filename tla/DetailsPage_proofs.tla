-------------------------- MODULE DetailsPage_proofs --------------------------
(***************************************************************************)
(* Proofs about DetailsPage: its viewer, its like buttons and the list of  *)
(* likes, for every number of targets, buttons and images, every page size *)
(* and every length of time.                                               *)
(***************************************************************************)
EXTENDS DetailsPage, FiniteSetTheorems, TLAPS

-----------------------------------------------------------------------------
(***************************************************************************)
(* The viewer.  That it is stuck only after a cancelled touch is           *)
(* inductive, given the types.                                             *)
(***************************************************************************)

Viewers == [index : Nat, total : Nat, animating : BOOLEAN, moving : BOOLEAN,
            dragging : BOOLEAN, drag : Pulls, jolted : BOOLEAN]

\* An open viewer as it should be.
Fine(v) ==
  /\ v \in Viewers
  /\ v.index < v.total
  /\ v.animating /\ ~v.moving => v.jolted

ViewerInv == viewer = Closed \/ Fine(viewer)

LEMMA OpenAtFine ==
  ASSUME NEW i \in Nat, NEW n \in Nat, i < n, OpenAt(i, n)
  PROVE  Fine(viewer')
BY ViewerAssumption DEF ViewerAssumption, OpenAt, Fine, Viewers

LEMMA MovedFine ==
  ASSUME NEW v, Fine(v), NEW by \in {-1, 1}, v.index + by \in Nat, v.index + by < v.total
  PROVE  Fine(Moved(v, by)) /\ Moved(v, by).moving
BY DEF Fine, Viewers, Moved

LEMMA ReleasedFine ==
  ASSUME NEW v, Fine(v)
  PROVE  Fine(Released(v))
<1> DEFINE w == Released(v)
<1>1. w \in Viewers
  BY ViewerAssumption DEF ViewerAssumption, Fine, Viewers, Released
<1>2. w.index = v.index /\ w.total = v.total
  BY DEF Fine, Viewers, Released
<1>3. w.animating = v.animating /\ w.jolted = v.jolted /\ (v.moving => w.moving)
  BY DEF Fine, Viewers, Released
<1> HIDE DEF w
<1>4. w.animating /\ ~w.moving => w.jolted
  BY <1>3 DEF Fine
<1>5. Fine(w)
  BY <1>1, <1>2, <1>4 DEF Fine
<1> QED BY <1>5 DEF w

LEMMA SlideFine ==
  ASSUME ViewerInv, NEW by \in {-1, 1}, Slide(by)
  PROVE  Fine(viewer')
<1>1. Fine(viewer) /\ viewer' = Moved(viewer, by)
  BY DEF ViewerInv, Slide, Open
<1>2. viewer.index + by \in Nat /\ viewer.index + by < viewer.total
  BY <1>1 DEF Slide, HasNext, HasPrev, Fine, Viewers
<1> QED BY <1>1, <1>2, MovedFine

LEMMA TransitionEndFine ==
  ASSUME ViewerInv, TransitionEnd
  PROVE  Fine(viewer')
BY DEF ViewerInv, TransitionEnd, Open, Fine, Viewers

LEMMA TouchStartFine ==
  ASSUME ViewerInv, TouchStart
  PROVE  Fine(viewer')
BY DEF ViewerInv, TouchStart, Open, Fine, Viewers

LEMMA TouchMoveFine ==
  ASSUME ViewerInv, NEW pull \in Pulls, TouchMove(pull)
  PROVE  Fine(viewer')
<1> DEFINE d == IF (pull > 0 /\ ~HasPrev) \/ (pull < 0 /\ ~HasNext) THEN 0 ELSE pull
<1>1. d \in Pulls
  BY ViewerAssumption DEF ViewerAssumption
<1>2. /\ Fine(viewer)
      /\ viewer' = [viewer EXCEPT !.drag = d, !.moving = @ \/ (viewer.animating /\ d # viewer.drag)]
  BY DEF ViewerInv, TouchMove, Open
<1> HIDE DEF d
<1>3. viewer' \in Viewers
  BY <1>1, <1>2 DEF Fine, Viewers
<1>4. /\ viewer'.index = viewer.index /\ viewer'.total = viewer.total
      /\ viewer'.animating = viewer.animating /\ viewer'.jolted = viewer.jolted
      /\ viewer.moving => viewer'.moving
  BY <1>2 DEF Fine, Viewers
<1> QED BY <1>2, <1>3, <1>4 DEF Fine

LEMMA TouchEndFine ==
  ASSUME ViewerInv, TouchEnd
  PROVE  Fine(viewer')
<1>1. Fine(viewer)
  BY DEF ViewerInv, TouchEnd, Open
<1>2. CASE viewer.drag = -2 /\ HasNext
  <2>1. Fine(Moved(viewer, 1))
    BY <1>1, <1>2, MovedFine DEF HasNext, Fine, Viewers
  <2> QED BY <1>2, <2>1, ReleasedFine DEF TouchEnd
<1>3. CASE viewer.drag = 2 /\ HasPrev
  <2>1. Fine(Moved(viewer, -1))
    <3>1. viewer.index + (-1) \in Nat /\ viewer.index + (-1) < viewer.total
      BY <1>1, <1>3 DEF HasPrev, Fine, Viewers
    <3> QED BY <1>1, <3>1, MovedFine
  <2>2. viewer' = Released(Moved(viewer, -1))
    BY <1>3 DEF TouchEnd
  <2> QED BY <2>1, <2>2, ReleasedFine
<1>4. CASE ~(viewer.drag = -2 /\ HasNext) /\ ~(viewer.drag = 2 /\ HasPrev)
  BY <1>1, <1>4, ReleasedFine DEF TouchEnd
<1> QED BY <1>2, <1>3, <1>4

\* A touch that had pulled nothing while nothing moved is the one exception.
LEMMA TouchCancelFine ==
  ASSUME ViewerInv, TouchCancel
  PROVE  Fine(viewer')
<1>1. Fine(viewer)
  BY DEF ViewerInv, TouchCancel, Open
<1>2. viewer' \in Viewers
  BY <1>1, ViewerAssumption DEF ViewerAssumption, TouchCancel, Released, Fine, Viewers
<1>3. /\ viewer'.index = viewer.index /\ viewer'.total = viewer.total
      /\ viewer.drag # 0 \/ viewer.moving => viewer'.moving
      /\ viewer.drag = 0 /\ ~viewer.moving => viewer'.jolted
  BY <1>1 DEF TouchCancel, Released, Fine, Viewers
<1> QED BY <1>1, <1>2, <1>3 DEF Fine

LEMMA ViewerNextInv == ViewerInv /\ ViewerNext => ViewerInv'
<1> SUFFICES ASSUME ViewerInv, ViewerNext PROVE ViewerInv'
  OBVIOUS
<1>1. CASE Close
  BY <1>1 DEF Close, ViewerInv
<1>2. CASE TransitionEnd BY <1>2, TransitionEndFine DEF ViewerInv
<1>3. CASE TouchStart    BY <1>3, TouchStartFine DEF ViewerInv
<1>4. CASE TouchEnd      BY <1>4, TouchEndFine DEF ViewerInv
<1>5. CASE TouchCancel   BY <1>5, TouchCancelFine DEF ViewerInv
<1>6. ASSUME NEW by \in {-1, 1}, Slide(by) PROVE ViewerInv'
  BY <1>6, SlideFine DEF ViewerInv
<1>7. ASSUME NEW pull \in Pulls, TouchMove(pull) PROVE ViewerInv'
  BY <1>7, TouchMoveFine DEF ViewerInv
<1> QED BY <1>1, <1>2, <1>3, <1>4, <1>5, <1>6, <1>7 DEF ViewerNext

-----------------------------------------------------------------------------
(***************************************************************************)
(* The worker.  What a write does to the rows, the buttons it raises doubt *)
(* about, and a listing under way.                                         *)
(***************************************************************************)

RowsOK ==
  /\ now \in 1..MaxTime
  /\ likes \in [Targets -> 0..MaxTime]
  /\ \A t \in Targets : likes[t] <= now
  /\ late \subseteq LateRequests
  /\ doubted \subseteq Buttons

Listings == [cursor : 0..(MaxTime + 1), got : SUBSET Rows, twice : SUBSET Targets,
             backdated : SUBSET Targets, there : SUBSET Rows, edges : SUBSET (1..MaxTime),
             done : BOOLEAN]

\* No later row of a target is older than one that was listed, unless it is backdated, so that a
\* target listed once is never older than the cursor again.
Kept(s) == s.created_at <= now /\ (likes[s.target] = 0 \/ likes[s.target] >= s.created_at)

Listing(l) ==
  /\ l \in Listings
  /\ l.twice \subseteq l.backdated
  /\ \A r \in l.there : likes[r.target] = r.created_at
  /\ \A s \in l.got : s.target \in l.backdated \/ Kept(s)
  /\ ~l.done => \A s \in l.got : s.created_at >= l.cursor
  /\ \A r \in l.there : r \in l.got \/ r.created_at \in l.edges \/ (~l.done /\ r.created_at < l.cursor)

ListInv == list = None \/ Listing(list)

LEMMA LikesConstants ==
  /\ TargetOf \in [Buttons -> Targets] /\ IsFiniteSet(Targets)
  /\ Limit \in Nat \ {0} /\ MaxTime \in Nat \ {0}
BY LikesAssumption DEF LikesAssumption

LEMMA AfterOK ==
  ASSUME RowsOK, NEW t \in Targets, NEW net \in Requests, NEW at \in 1..MaxTime, at <= now
  PROVE  /\ After(t, net, at) \in [Targets -> 0..MaxTime]
         /\ \A u \in Targets : u # t => After(t, net, at)[u] = likes[u]
         /\ After(t, net, at)[t] \in {likes[t], 0, at}
         /\ net = "get" => After(t, net, at) = likes
         /\ After(t, net, at)[t] # 0 <=> Answer(t, net) = "Liked"
<1>1. at \in 0..MaxTime /\ 0 \in 0..MaxTime /\ at # 0
  BY LikesConstants
<1>2. CASE net = "POST" /\ likes[t] = 0
  <2>1. After(t, net, at) = [likes EXCEPT ![t] = at] /\ Answer(t, net) = "Liked"
    BY <1>2 DEF After, Answer
  <2> QED BY <1>1, <1>2, <2>1 DEF RowsOK
<1>3. CASE net = "DELETE"
  <2>1. After(t, net, at) = [likes EXCEPT ![t] = 0] /\ Answer(t, net) = "NotLiked"
    BY <1>3 DEF After, Answer
  <2> QED BY <1>1, <1>3, <2>1 DEF RowsOK
<1>4. CASE ~(net = "POST" /\ likes[t] = 0) /\ net # "DELETE"
  <2>1. After(t, net, at) = likes
    BY <1>4 DEF After
  <2>2. likes[t] # 0 <=> Answer(t, net) = "Liked"
    BY <1>4 DEF Answer, Requests
  <2> QED BY <1>1, <2>1, <2>2 DEF RowsOK
<1> QED BY <1>2, <1>3, <1>4

\* The listing after a write that stored the second `at`.
Relisted(t) ==
  [list EXCEPT !.there = {r \in @ : likes'[r.target] = r.created_at},
     !.backdated = IF likes'[t] = likes[t] \/ likes'[t] \in {0, now} THEN @ ELSE @ \cup {t}]

LEMMA WriteIs ==
  ASSUME RowsOK, NEW t \in Targets, NEW net \in Requests, NEW since \in 1..MaxTime,
         NEW by \in SUBSET Buttons, Write(t, net, since, by)
  PROVE  /\ \E at \in 1..MaxTime : at <= now /\ likes' = After(t, net, at)
         /\ list' = IF list = None THEN None ELSE Relisted(t)
<1>1. PICK at \in since..now : likes' = After(t, net, at)
  BY DEF Write
<1>2. at \in 1..MaxTime /\ at <= now
  BY LikesConstants DEF RowsOK
<1>3. list' = IF list = None THEN None ELSE Relisted(t)
  BY DEF Write, Relisted
<1> QED BY <1>1, <1>2, <1>3

LEMMA WriteRows ==
  ASSUME RowsOK, NEW t \in Targets, NEW net \in Requests, NEW since \in 1..MaxTime,
         NEW by \in SUBSET Buttons, Write(t, net, since, by), now' = now, late' \subseteq late
  PROVE  /\ RowsOK'
         /\ \A u \in Targets : u # t => likes'[u] = likes[u]
         /\ likes[t] <= now
         /\ likes'[t] # 0 <=> Answer(t, net) = "Liked"
         /\ Answer(t, net) \in {"Liked", "NotLiked"}
         /\ \A b \in Buttons : b \notin by /\ b \notin doubted' =>
              b \notin doubted /\ likes'[TargetOf[b]] = likes[TargetOf[b]]
<1>1. PICK at \in 1..MaxTime : at <= now /\ likes' = After(t, net, at)
  BY WriteIs
<1>2. /\ likes' \in [Targets -> 0..MaxTime]
      /\ \A u \in Targets : u # t => likes'[u] = likes[u]
      /\ likes'[t] \in {likes[t], 0, at}
      /\ net = "get" => likes' = likes
      /\ likes'[t] # 0 <=> Answer(t, net) = "Liked"
  BY <1>1, AfterOK
<1>3. RowsOK'
  <2>1. \A u \in Targets : likes'[u] <= now
    <3>1. 0 <= now
      BY LikesConstants DEF RowsOK
    <3>2. likes'[t] <= now
      BY <1>1, <1>2, <3>1 DEF RowsOK
    <3> QED BY <1>2, <3>2 DEF RowsOK
  <2>2. doubted' \subseteq Buttons
    BY DEF Write, RowsOK
  <2> QED BY <1>2, <2>1, <2>2 DEF RowsOK
<1>4. Answer(t, net) \in {"Liked", "NotLiked"}
  BY DEF Answer
<1>5. ASSUME NEW b \in Buttons, b \notin by, b \notin doubted'
      PROVE  b \notin doubted /\ likes'[TargetOf[b]] = likes[TargetOf[b]]
  <2>1. TargetOf[b] \in Targets
    BY LikesConstants
  <2>2. CASE net = "get"
    BY <1>2, <1>5, <2>2 DEF Write
  <2>3. CASE net # "get"
    BY <1>2, <1>5, <2>1, <2>3 DEF Write
  <2> QED BY <2>2, <2>3
<1> QED BY <1>2, <1>3, <1>4, <1>5 DEF RowsOK

LEMMA WriteList ==
  ASSUME RowsOK, ListInv, NEW t \in Targets, NEW net \in Requests, NEW since \in 1..MaxTime,
         NEW by \in SUBSET Buttons, Write(t, net, since, by), now' = now, late' \subseteq late
  PROVE  ListInv'
<1>1. CASE list = None
  BY <1>1, WriteIs DEF ListInv
<1>2. CASE list # None
  <2> DEFINE stay == {r \in list.there : likes'[r.target] = r.created_at}
             dated == IF likes'[t] = likes[t] \/ likes'[t] \in {0, now} THEN list.backdated
                      ELSE list.backdated \cup {t}
             l == [list EXCEPT !.there = stay, !.backdated = dated]
  <2>1. Listing(list) /\ list \in Listings
    BY <1>2 DEF ListInv, Listing
  <2>2. list' = l
    BY <1>2, <2>1, WriteIs DEF Relisted, Listings
  <2>3. stay \subseteq list.there /\ list.backdated \subseteq dated
    OBVIOUS
  <2>4. /\ l.there = stay /\ l.got = list.got /\ l.twice = list.twice /\ l.backdated = dated
        /\ l.edges = list.edges /\ l.done = list.done /\ l.cursor = list.cursor
        /\ l \in Listings
    <3>1. dated \in SUBSET Targets
      BY <2>1 DEF Listings
    <3> HIDE DEF dated
    <3> QED BY <2>1, <2>3, <3>1 DEF Listings
  <2>5. \A s \in list.got :
          s.target \in dated \/
            (s.created_at <= now /\ (likes'[s.target] = 0 \/ likes'[s.target] >= s.created_at))
    <3> SUFFICES ASSUME NEW s \in list.got, s.target \notin dated
                 PROVE  s.created_at <= now /\ (likes'[s.target] = 0 \/ likes'[s.target] >= s.created_at)
      OBVIOUS
    <3>1. Kept(s) /\ s.target \in Targets
      BY <2>1, <2>3 DEF Listing, Listings, Rows
    <3>2. CASE s.target = t
      <4>1. likes'[t] = likes[t] \/ likes'[t] \in {0, now}
        BY <3>2
      <4>2. s.created_at <= now
        BY <3>1 DEF Kept
      <4>3. now >= s.created_at
        <5>1. now \in Nat /\ s.created_at \in Nat
          BY <2>1, LikesConstants DEF RowsOK, Listings, Rows
        <5> QED BY <4>2, <5>1
      <4> QED BY <3>1, <3>2, <4>1, <4>3 DEF Kept
    <3>3. CASE s.target # t
      BY <3>1, <3>3, WriteRows DEF Kept
    <3> QED BY <3>2, <3>3
  <2>6. \A r \in stay : likes'[r.target] = r.created_at
    OBVIOUS
  <2> HIDE DEF stay, dated, l
  <2>7. Listing(list)'
    BY <2>1, <2>2, <2>3, <2>4, <2>5, <2>6 DEF Listing, Kept
  <2> QED BY <2>7 DEF ListInv
<1> QED BY <1>1, <1>2

-----------------------------------------------------------------------------
(* The list. *)

LEMMA TableOK ==
  ASSUME RowsOK
  PROVE  /\ IsFiniteSet(Table) /\ Table \subseteq Rows
         /\ \A r \in Table : r.target \in Targets /\ likes[r.target] = r.created_at /\ Kept(r)
         /\ \A r \in Rows : likes[r.target] = r.created_at => r \in Table
<1> DEFINE f == [t \in Targets |-> [target |-> t, created_at |-> likes[t]]]
           T == {f[t] : t \in Targets}
<1>1. f \in Surjection(Targets, T)
  BY DEF Surjection
<1>2. IsFiniteSet(T)
  <2> HIDE DEF f, T
  <2> QED BY <1>1, FS_Surjection, LikesConstants
<1>3. \A r \in Table : r.target \in Targets /\ r = f[r.target]
  BY DEF Table, Rows
<1>4. IsFiniteSet(Table)
  <2>1. Table \in SUBSET T
    BY <1>3
  <2> HIDE DEF T
  <2> QED BY <1>2, <2>1, FS_Subset
<1>5. \A r \in Table : /\ r.target \in Targets /\ likes[r.target] = r.created_at
                      /\ r.created_at <= now /\ likes[r.target] >= r.created_at
  BY DEF Table, Rows, RowsOK
<1>6. Table \subseteq Rows /\ \A r \in Rows : likes[r.target] = r.created_at => r \in Table
  BY DEF Table
<1> QED BY <1>4, <1>5, <1>6 DEF Kept

LEMMA StartListOK ==
  ASSUME RowsOK, StartList
  PROVE  Listing(list')
<1> DEFINE l == [cursor |-> MaxTime + 1, got |-> {}, twice |-> {}, backdated |-> {},
                 there |-> Table, edges |-> {}, done |-> FALSE]
<1>1. l \in Listings
  BY LikesConstants, TableOK DEF Listings
<1>2. \A r \in Table : likes[r.target] = r.created_at /\ r.created_at < MaxTime + 1
  BY LikesConstants, TableOK DEF Rows
<1>3. list' = l
  BY DEF StartList
<1> QED BY <1>1, <1>2, <1>3 DEF Listing

\* The rows of a page: of the table, older than the cursor, and no row left behind is newer.
LEMMA PageOK ==
  ASSUME RowsOK, Listing(list), NEW p \in Pages({r \in Table : Older(r, list.cursor)})
  PROVE  /\ p \subseteq Rows
         /\ \A r \in p : r \in Table /\ r.created_at < list.cursor
         /\ \A r \in p, s \in Table : s.created_at < list.cursor /\ s \notin p
                                    => r.created_at >= s.created_at
         /\ Cardinality(p) # Limit => \A s \in Table : s.created_at < list.cursor => s \in p
<1> DEFINE rows == {r \in Table : Older(r, list.cursor)}
<1>1. \A r : r \in rows <=> r \in Table /\ r.created_at < list.cursor
  BY DEF Older
<1>2. IsFiniteSet(rows)
  <2>1. rows \in SUBSET Table
    OBVIOUS
  <2> HIDE DEF rows
  <2> QED BY <2>1, TableOK, FS_Subset
<1>3. p \in Pages(rows)
  OBVIOUS
<1> HIDE DEF rows
<1>4. /\ p \subseteq rows
      /\ Cardinality(p) = IF Cardinality(rows) < Limit THEN Cardinality(rows) ELSE Limit
      /\ \A r \in p, s \in rows \ p : r.created_at >= s.created_at
  BY <1>3 DEF Pages
<1>5. Cardinality(p) # Limit => p = rows
  BY <1>2, <1>4, FS_Subset
<1> QED BY <1>1, <1>4, <1>5, TableOK

\* A page lists no target again but backdated ones: whatever else was listed has no older row.
LEMMA NothingAgain ==
  ASSUME RowsOK, Listing(list), ~list.done, NEW p \in Pages({r \in Table : Older(r, list.cursor)})
  PROVE  \A r \in p, s \in list.got : r.target = s.target => r.target \in list.backdated
<1> SUFFICES ASSUME NEW r \in p, NEW s \in list.got, r.target = s.target,
                    s.target \notin list.backdated
             PROVE  FALSE
  OBVIOUS
<1>1. r \in Table /\ r.created_at < list.cursor
  BY PageOK
<1>2. likes[r.target] = r.created_at /\ r.created_at \in 1..MaxTime
  BY <1>1, TableOK DEF Rows
<1>3. Kept(s) /\ s.created_at >= list.cursor /\ s.created_at \in 1..MaxTime /\ list.cursor \in Nat
  BY LikesConstants DEF Listing, Listings, Rows
<1> QED BY <1>1, <1>2, <1>3, LikesConstants DEF Kept

LEMMA ListPageInv ==
  ASSUME RowsOK, ListInv, ListPage
  PROVE  ListInv'
<1>1. Listing(list) /\ list \in Listings /\ ~list.done
  BY DEF ListPage, ListInv, Listing
<1>2. PICK p \in Pages({r \in Table : Older(r, list.cursor)}) :
        LET again == {t \in Targets : \E r \in p, s \in list.got : r.target = t /\ s.target = t}
            read == [list EXCEPT !.got = @ \cup p, !.twice = @ \cup again]
        IN \/ /\ Cardinality(p) = Limit
              /\ \E last \in Last(p) :
                   list' = [read EXCEPT !.cursor = last, !.edges = @ \cup {last}]
           \/ /\ Cardinality(p) # Limit
              /\ list' = [read EXCEPT !.done = TRUE]
  BY DEF ListPage
<1> DEFINE again == {t \in Targets : \E r \in p, s \in list.got : r.target = t /\ s.target = t}
           read == [list EXCEPT !.got = @ \cup p, !.twice = @ \cup again]
<1>3. again \subseteq list.backdated
  BY <1>1, NothingAgain
<1>4. /\ p \subseteq Rows
      /\ \A r \in p : r \in Table /\ r.created_at < list.cursor
      /\ \A r \in p, s \in Table : s.created_at < list.cursor /\ s \notin p
                                 => r.created_at >= s.created_at
      /\ Cardinality(p) # Limit => \A s \in Table : s.created_at < list.cursor => s \in p
  BY <1>1, PageOK
<1>5. /\ read \in Listings /\ read.got = list.got \cup p /\ read.twice \subseteq read.backdated
      /\ read.backdated = list.backdated /\ read.there = list.there /\ read.edges = list.edges /\ read.cursor = list.cursor
      /\ read.done = list.done
  <2> HIDE DEF again
  <2> QED BY <1>1, <1>3, <1>4 DEF Listing, Listings
<1>6. UNCHANGED <<now, likes>>
  BY DEF ListPage
<1>7. \A s \in read.got : (s.target \in read.backdated \/ Kept(s)) /\ s.created_at \in Nat
  <2> HIDE DEF read
  <2>1. \A s \in list.got : (s.target \in list.backdated \/ Kept(s)) /\ s \in Rows
    BY <1>1 DEF Listing, Listings
  <2>2. \A s \in p : Kept(s) /\ s \in Rows
    BY <1>4, TableOK
  <2>3. \A s \in Rows : s.created_at \in Nat
    BY LikesConstants DEF Rows
  <2> QED BY <1>5, <2>1, <2>2, <2>3
<1>8. \A r \in list.there : likes[r.target] = r.created_at /\ r \in Table /\ r.created_at \in Nat
  BY <1>1, TableOK DEF Listing, Listings, Rows
<1>9. \A r \in list.there : r \in list.got \/ r.created_at \in list.edges \/ r.created_at < list.cursor
  BY <1>1 DEF Listing
<1>10. CASE Cardinality(p) = Limit
  <2>1. PICK last \in Last(p) : list' = [read EXCEPT !.cursor = last, !.edges = @ \cup {last}]
    BY <1>2, <1>10
  <2>2. PICK r0 \in p : last = r0.created_at /\ \A s \in p : last <= s.created_at
    BY <2>1 DEF Last
  <2>3. last \in 1..MaxTime /\ last < list.cursor
    BY <1>4, <2>2 DEF Rows
  <2> HIDE DEF read
  <2>4. /\ list' \in Listings /\ list'.got = list.got \cup p /\ list'.twice \subseteq list'.backdated
        /\ list'.backdated = list.backdated
        /\ list'.there = list.there /\ list'.edges = list.edges \cup {last} /\ list'.cursor = last
        /\ list'.done = list.done
    <3>1. last \in 0..(MaxTime + 1) /\ last \in 1..MaxTime
      BY <2>3, LikesConstants
    <3>2. read.edges \cup {last} \in SUBSET (1..MaxTime)
      BY <1>5, <3>1 DEF Listings
    <3> QED BY <1>5, <2>1, <3>1, <3>2 DEF Listings
  <2>5. \A s \in list.got : s.created_at >= list.cursor /\ s.created_at \in Nat
    BY <1>1 DEF Listing, Listings, Rows
  <2>6. list.cursor \in Nat
    BY <1>1, LikesConstants DEF Listings
  <2>7. \A s \in list'.got : s.created_at >= list'.cursor
    BY <2>2, <2>3, <2>4, <2>5, <2>6
  <2>8. \A r \in list.there :
           r \in list'.got \/ r.created_at \in list'.edges \/ r.created_at < list'.cursor
    <3> SUFFICES ASSUME NEW r \in list.there, r \notin p, r.created_at < list.cursor
                 PROVE  r.created_at = last \/ r.created_at < last
      BY <1>9, <2>4
    <3>1. r0.created_at >= r.created_at /\ r.created_at \in Nat
      BY <1>4, <1>8
    <3> QED BY <2>2, <2>3, <3>1
  <2>9. Listing(list)'
    BY <1>1, <1>5, <1>6, <1>7, <1>8, <2>4, <2>7, <2>8 DEF Listing, Kept
  <2> QED BY <2>9 DEF ListInv
<1>11. CASE Cardinality(p) # Limit
  <2>1. list' = [read EXCEPT !.done = TRUE]
    BY <1>2, <1>11
  <2> HIDE DEF read
  <2>2. /\ list' \in Listings /\ list'.got = list.got \cup p /\ list'.twice \subseteq list'.backdated
        /\ list'.backdated = list.backdated
        /\ list'.there = list.there /\ list'.edges = list.edges /\ list'.done
    BY <1>5, <2>1 DEF Listings
  <2>3. \A r \in list.there : r \in list'.got \/ r.created_at \in list'.edges
    BY <1>4, <1>8, <1>9, <1>11, <2>2
  <2>4. Listing(list)'
    BY <1>5, <1>6, <1>7, <1>8, <2>2, <2>3 DEF Listing, Kept
  <2> QED BY <2>4 DEF ListInv
<1> QED BY <1>10, <1>11

-----------------------------------------------------------------------------
(***************************************************************************)
(* The buttons.  While a toggle is under way the button shows what may not *)
(* be so; it is `prev` that is true, until the answer is there.            *)
(***************************************************************************)

Truthful(r, since) ==
  /\ r.net = "none" /\ r.state \in {"Liked", "NotLiked"} => (r.state = "Liked" <=> since # 0)
  /\ r.net \in {"Liked", "NotLiked"} => (r.net = "Liked" <=> since # 0)
  /\ r.net \in {"POST", "DELETE"} \/ (r.net = "Err" /\ r.state # "unknown")
     => r.prev \in {"Liked", "NotLiked"} /\ (r.prev = "Liked" <=> since # 0)
  /\ r.net = "get" => r.state = "unknown"

ButtonsInv ==
  /\ button \in [Buttons -> {None} \cup ButtonRecords]
  /\ \A b \in Buttons \ doubted : button[b] # None => Truthful(button[b], likes[TargetOf[b]])

LEMMA ButtonsTruth == ButtonsInv => ButtonTellsTruth
BY DEF ButtonsInv, Truthful, ButtonTellsTruth

\* Whoever is not in doubt has not been, and its target is as it was.
Undisturbed(b) == b \notin doubted' => b \notin doubted /\ likes'[TargetOf[b]] = likes[TargetOf[b]]

LEMMA PutButton ==
  ASSUME ButtonsInv, NEW b \in Buttons, NEW r \in ButtonRecords, button' = [button EXCEPT ![b] = r],
         \A d \in Buttons : d # b => Undisturbed(d),
         b \notin doubted' => Truthful(r, likes'[TargetOf[b]])
  PROVE  ButtonsInv'
<1>1. button' \in [Buttons -> {None} \cup ButtonRecords]
  BY DEF ButtonsInv
<1>2. ASSUME NEW d \in Buttons \ doubted', button'[d] # None
      PROVE  Truthful(button'[d], likes'[TargetOf[d]])
  <2>1. CASE d = b
    BY <2>1 DEF ButtonsInv
  <2>2. CASE d # b
    <3>1. button'[d] = button[d] /\ d \notin doubted /\ likes'[TargetOf[d]] = likes[TargetOf[d]]
      BY <1>2, <2>2 DEF ButtonsInv, Undisturbed
    <3> QED BY <1>2, <3>1 DEF ButtonsInv
  <2> QED BY <2>1, <2>2
<1> QED BY <1>1, <1>2 DEF ButtonsInv, Truthful

\* Buttons that vanish or stay, none of them disturbed.
LEMMA SameButtons ==
  ASSUME ButtonsInv, button' \in [Buttons -> {None} \cup ButtonRecords],
         \A b \in Buttons : /\ button'[b] # None => button'[b] = button[b]
                            /\ Undisturbed(b)
  PROVE  ButtonsInv'
<1>1. \A b \in Buttons \ doubted' : button'[b] # None => Truthful(button'[b], likes'[TargetOf[b]])
  BY DEF ButtonsInv, Undisturbed
<1> QED BY <1>1 DEF ButtonsInv, Truthful

LEMMA MountButtons ==
  ASSUME ButtonsInv, NEW b \in Buttons, Mount(b)
  PROVE  ButtonsInv'
<1> DEFINE r == [state |-> "unknown", prev |-> "unknown", net |-> "get", since |-> 1]
<1>1. r \in ButtonRecords /\ \A l : Truthful(r, l)
  BY LikesConstants DEF ButtonRecords, States, Requests, Truthful
<1>2. button' = [button EXCEPT ![b] = r] /\ \A d \in Buttons : Undisturbed(d)
  BY DEF Mount, Undisturbed
<1> HIDE DEF r
<1> QED BY <1>1, <1>2, PutButton

LEMMA ToggleButtons ==
  ASSUME ButtonsInv, RowsOK, NEW b \in Buttons, Toggle(b)
  PROVE  ButtonsInv'
<1> DEFINE r == IF button[b].state = "Liked"
                THEN [state |-> "NotLiked", prev |-> "Liked", net |-> "DELETE", since |-> 1]
                ELSE [state |-> "Liked", prev |-> "NotLiked", net |-> "POST", since |-> now]
<1>1. /\ button[b] # None /\ button[b].net = "none" /\ button[b].state \in {"Liked", "NotLiked"}
      /\ button' = [button EXCEPT ![b] = r] /\ likes' = likes /\ doubted' = doubted
  BY DEF Toggle
<1>2. r \in ButtonRecords
  BY LikesConstants DEF RowsOK, ButtonRecords, States, Requests
<1>3. /\ r.net \in {"POST", "DELETE"} /\ r.prev = button[b].state
  BY <1>1
<1> HIDE DEF r
<1>4. b \notin doubted' => Truthful(r, likes'[TargetOf[b]])
  BY <1>1, <1>3 DEF ButtonsInv, Truthful
<1>5. \A d \in Buttons : Undisturbed(d)
  BY <1>1 DEF Undisturbed
<1> QED BY <1>1, <1>2, <1>4, <1>5, PutButton

LEMMA ServeButtons ==
  ASSUME ButtonsInv, RowsOK, NEW b \in Buttons, Serve(b)
  PROVE  ButtonsInv'
<1> DEFINE t == TargetOf[b]
           net == button[b].net
           since == button[b].since
<1>1. /\ t \in Targets /\ net \in Requests /\ button[b] # None /\ button[b] \in ButtonRecords
      /\ since \in 1..MaxTime /\ now' = now /\ late' = late
  BY LikesConstants DEF Serve, ButtonsInv, ButtonRecords
<1>2. CASE Write(t, net, since, {b}) /\ button' = [button EXCEPT ![b].net = Answer(t, net)]
  <2> DEFINE r == [button[b] EXCEPT !.net = Answer(t, net)]
  <2>1. /\ likes'[t] # 0 <=> Answer(t, net) = "Liked"
        /\ Answer(t, net) \in {"Liked", "NotLiked"}
        /\ \A d \in Buttons : d \notin {b} /\ d \notin doubted' =>
             d \notin doubted /\ likes'[TargetOf[d]] = likes[TargetOf[d]]
    BY <1>1, <1>2, WriteRows
  <2>2. r \in ButtonRecords /\ r.net = Answer(t, net)
    BY <1>1, <2>1 DEF ButtonRecords, Replies
  <2>3. button' = [button EXCEPT ![b] = r]
    BY <1>2 DEF ButtonsInv
  <2> HIDE DEF r
  <2>4. Truthful(r, likes'[t])
    BY <2>1, <2>2 DEF Truthful
  <2>5. \A d \in Buttons : d # b => Undisturbed(d)
    BY <2>1 DEF Undisturbed
  <2> QED BY <2>2, <2>3, <2>4, <2>5, PutButton
<1>3. CASE (\E reply \in {"SignedOut", "Err"} : button' = [button EXCEPT ![b].net = reply])
           /\ UNCHANGED <<likes, doubted, list>>
  <2>1. PICK reply \in {"SignedOut", "Err"} : button' = [button EXCEPT ![b].net = reply]
    BY <1>3
  <2> DEFINE r == [button[b] EXCEPT !.net = reply]
  <2>2. /\ r \in ButtonRecords /\ r.net = reply
        /\ r.state = button[b].state /\ r.prev = button[b].prev
    BY <1>1 DEF ButtonRecords, Replies
  <2>3. button' = [button EXCEPT ![b] = r]
    BY <2>1 DEF ButtonsInv
  <2> HIDE DEF r
  <2>4. b \notin doubted' => Truthful(r, likes'[t])
    BY <1>1, <1>3, <2>2 DEF ButtonsInv, Truthful, Requests
  <2>5. \A d \in Buttons : Undisturbed(d)
    BY <1>3 DEF Undisturbed
  <2> QED BY <2>2, <2>3, <2>4, <2>5, PutButton
<1> QED BY <1>2, <1>3 DEF Serve

LEMMA LoseButtons ==
  ASSUME ButtonsInv, NEW b \in Buttons, Lose(b)
  PROVE  ButtonsInv'
<1> DEFINE r == [button[b] EXCEPT !.net = "Err"]
<1>1. button[b] \in ButtonRecords /\ b \in doubted' /\ doubted \subseteq doubted' /\ likes' = likes
  BY DEF Lose, ButtonsInv
<1>2. r \in ButtonRecords
  BY <1>1 DEF ButtonRecords, Replies
<1>3. button' = [button EXCEPT ![b] = r]
  BY DEF Lose, ButtonsInv
<1> HIDE DEF r
<1>4. \A d \in Buttons : Undisturbed(d)
  BY <1>1 DEF Undisturbed
<1> QED BY <1>1, <1>2, <1>3, <1>4, PutButton

LEMMA HearButtons ==
  ASSUME ButtonsInv, NEW b \in Buttons, Hear(b)
  PROVE  ButtonsInv'
<1> DEFINE q == button[b]
           r == [state |-> Heard(q), prev |-> "unknown", net |-> "none", since |-> 1]
<1>1. /\ q # None /\ q \in ButtonRecords /\ q.net \in Replies /\ q.state \in States /\ q.prev \in States
      /\ likes' = likes /\ doubted' = doubted
  BY DEF Hear, ButtonsInv, ButtonRecords
<1>2. Heard(q) \in States
  BY <1>1 DEF Heard, Replies, States
<1>3. r \in ButtonRecords /\ r.state = Heard(q) /\ r.net = "none"
  BY <1>2, LikesConstants DEF ButtonRecords, States
<1>4. button' = [button EXCEPT ![b] = r]
  BY DEF Hear, ButtonsInv
<1>5. ASSUME b \notin doubted PROVE Truthful(r, likes[TargetOf[b]])
  <2>1. Truthful(q, likes[TargetOf[b]])
    BY <1>1, <1>5 DEF ButtonsInv
  <2>2. Heard(q) \in {"Liked", "NotLiked"} => (Heard(q) = "Liked" <=> likes[TargetOf[b]] # 0)
    BY <1>1, <2>1 DEF Heard, Truthful, Replies
  <2> HIDE DEF r
  <2> QED BY <1>3, <2>2 DEF Truthful
<1>6. \A d \in Buttons : Undisturbed(d)
  BY <1>1 DEF Undisturbed
<1> HIDE DEF q, r
<1> QED BY <1>1, <1>3, <1>4, <1>5, <1>6, PutButton

-----------------------------------------------------------------------------
(* The likes together: rows, listing and buttons. *)

LikesInv == RowsOK /\ ListInv /\ ButtonsInv

LEMMA SameLikes == LikesInv /\ UNCHANGED likesVars => LikesInv'
<1> SUFFICES ASSUME LikesInv, UNCHANGED likesVars PROVE LikesInv'
  OBVIOUS
<1>1. UNCHANGED <<now, likes, button, late, doubted, list>>
  BY DEF likesVars
<1>2. RowsOK'
  BY <1>1 DEF LikesInv, RowsOK
<1>3. ListInv'
  BY <1>1 DEF LikesInv, ListInv, Listing, Kept
<1>4. ButtonsInv'
  BY <1>1 DEF LikesInv, ButtonsInv
<1> QED BY <1>2, <1>3, <1>4 DEF LikesInv

\* A button changes, rows and listing do not.
LEMMA OnlyButtons ==
  ASSUME LikesInv, UNCHANGED <<now, likes, late, list>>, doubted' \subseteq Buttons, ButtonsInv'
  PROVE  LikesInv'
<1>1. RowsOK'
  BY DEF LikesInv, RowsOK
<1>2. ListInv'
  BY DEF LikesInv, ListInv, Listing, Kept
<1> QED BY <1>1, <1>2 DEF LikesInv

LEMMA ServeLikes ==
  ASSUME LikesInv, NEW b \in Buttons, Serve(b)
  PROVE  LikesInv'
<1>1. ButtonsInv'
  BY ServeButtons DEF LikesInv
<1>2. CASE Write(TargetOf[b], button[b].net, button[b].since, {b})
  <2>1. /\ TargetOf[b] \in Targets /\ button[b].net \in Requests /\ {b} \in SUBSET Buttons
        /\ button[b].since \in 1..MaxTime /\ now' = now /\ late' \subseteq late
    BY LikesConstants DEF Serve, LikesInv, ButtonsInv, ButtonRecords
  <2> QED BY <1>1, <1>2, <2>1, WriteRows, WriteList DEF LikesInv
<1>3. CASE UNCHANGED <<likes, doubted, list>>
  BY <1>1, <1>3, OnlyButtons DEF Serve, LikesInv, RowsOK
<1> QED BY <1>2, <1>3 DEF Serve

\* A write that is not a button's own.
LEMMA WriteLikes ==
  ASSUME LikesInv, NEW t \in Targets, NEW net \in {"POST", "DELETE"}, NEW since \in 1..MaxTime,
         Write(t, net, since, {}), now' = now, button' = button, late' \subseteq late
  PROVE  LikesInv'
<1>1. net \in Requests /\ {} \in SUBSET Buttons
  BY DEF Requests
<1>2. RowsOK' /\ ListInv'
  BY <1>1, WriteRows, WriteList DEF LikesInv
<1>3. \A b \in Buttons : Undisturbed(b)
  BY <1>1, WriteRows DEF LikesInv, Undisturbed
<1>4. ButtonsInv'
  BY <1>3, SameButtons DEF LikesInv, ButtonsInv
<1> QED BY <1>2, <1>4 DEF LikesInv

LEMMA ServeLateLikes ==
  ASSUME LikesInv, NEW r \in late, ServeLate(r)
  PROVE  LikesInv'
<1>1. r.target \in Targets /\ r.net \in {"POST", "DELETE"} /\ r.since \in 1..MaxTime
  BY DEF LikesInv, RowsOK, LateRequests
<1>2. CASE Write(r.target, r.net, r.since, {})
  BY <1>1, <1>2, WriteLikes DEF ServeLate
<1>3. CASE UNCHANGED <<likes, doubted, list>>
  <2>1. RowsOK'
    BY <1>3 DEF ServeLate, LikesInv, RowsOK
  <2>2. ListInv' /\ ButtonsInv'
    BY <1>3 DEF ServeLate, LikesInv, ListInv, Listing, Kept, ButtonsInv
  <2> QED BY <2>1, <2>2 DEF LikesInv
<1> QED BY <1>2, <1>3 DEF ServeLate

\* The page with the buttons is left for a new listing.
LEMMA OpenLikesLikes ==
  ASSUME LikesInv, Unmount(Buttons), StartList, UNCHANGED <<now, likes, doubted>>
  PROVE  LikesInv'
<1>1. Underway(Buttons) \subseteq LateRequests
  BY LikesConstants DEF Underway, LateRequests, LikesInv, ButtonsInv, ButtonRecords
<1>2. RowsOK'
  BY <1>1 DEF Unmount, LikesInv, RowsOK
<1>3. ListInv'
  <2>1. Listing(list')
    BY StartListOK DEF LikesInv
  <2>2. Listing(list)'
    BY <2>1 DEF Listing, Kept
  <2> QED BY <2>2 DEF ListInv
<1>4. ButtonsInv'
  <2>1. \A b \in Buttons : button'[b] = None
    BY DEF Unmount, Unmounted
  <2>2. button' \in [Buttons -> {None} \cup ButtonRecords]
    BY DEF Unmount, Unmounted
  <2> QED BY <2>1, <2>2 DEF ButtonsInv
<1> QED BY <1>2, <1>3, <1>4 DEF LikesInv

LEMMA ClockLikes ==
  ASSUME LikesInv, Tick
  PROVE  LikesInv'
<1>1. RowsOK'
  BY LikesConstants DEF Tick, LikesInv, RowsOK
<1>2. ListInv'
  <2>1. CASE list = None
    BY <2>1 DEF Tick, ListInv
  <2>2. CASE list # None
    <3>1. Listing(list) /\ \A s \in list.got : s.created_at \in Nat
      BY <2>2 DEF LikesInv, ListInv, Listing, Listings, Rows
    <3>2. \A s \in list.got : Kept(s) => s.created_at <= now + 1
      BY <3>1 DEF LikesInv, RowsOK, Kept
    <3>3. Listing(list)'
      BY <3>1, <3>2 DEF Tick, Listing, Kept
    <3> QED BY <3>3 DEF ListInv
  <2> QED BY <2>1, <2>2
<1>3. ButtonsInv'
  BY DEF Tick, LikesInv, ButtonsInv
<1> QED BY <1>1, <1>2, <1>3 DEF LikesInv

LEMMA ListPageLikes ==
  ASSUME LikesInv, ListPage
  PROVE  LikesInv'
<1>1. ListInv'
  BY ListPageInv DEF LikesInv
<1>2. RowsOK' /\ ButtonsInv'
  BY DEF ListPage, LikesInv, RowsOK, ButtonsInv
<1> QED BY <1>1, <1>2 DEF LikesInv

LEMMA ButtonLikes ==
  ASSUME LikesInv, NEW b \in Buttons, Mount(b) \/ Toggle(b) \/ Lose(b) \/ Hear(b)
  PROVE  LikesInv'
<1>1. ButtonsInv'
  BY MountButtons, ToggleButtons, LoseButtons, HearButtons DEF LikesInv
<1>2. UNCHANGED <<now, likes, late, list>> /\ doubted' \subseteq Buttons
  BY DEF Mount, Toggle, Lose, Hear, LikesInv, RowsOK
<1> QED BY <1>1, <1>2, OnlyButtons

-----------------------------------------------------------------------------
(* The page. *)

\* The images of the post have arrived only where there is a post, and then the store has them.
PlaceInv ==
  /\ place \in {"details", "likes"} /\ loaded \in BOOLEAN
  /\ store \in {"empty", "post", "single"}
  /\ loaded => store = "post"
  /\ store = "post" => Position # None

Inv == LikesInv /\ ViewerInv /\ PlaceInv

LEMMA InitInv == Init => Inv
<1> SUFFICES ASSUME Init PROVE Inv
  OBVIOUS
<1>1. RowsOK
  <2>1. likes \in [Targets -> 0..1] /\ now = 1 /\ late = {} /\ doubted = {}
    BY DEF Init, LikesInit
  <2> QED BY <2>1, LikesConstants DEF RowsOK
<1>2. ListInv /\ ButtonsInv
  BY DEF Init, LikesInit, ListInv, ButtonsInv
<1>3. ViewerInv /\ PlaceInv
  BY DEF Init, ViewerInit, ViewerInv, PlaceInv
<1> QED BY <1>1, <1>2, <1>3 DEF Inv, LikesInv

LEMMA SameViewer == ViewerInv /\ UNCHANGED viewer => ViewerInv'
BY DEF ViewerInv

LEMMA SamePlace == PlaceInv /\ UNCHANGED <<place, loaded, store>> => PlaceInv'
BY DEF PlaceInv

LEMMA PositionOK == PostImages \in Nat /\ (Position # None => Position \in 0..(PostImages - 1))
BY DetailsPageAssumption DEF DetailsPageAssumption

LEMMA OpenDetailsInv ==
  ASSUME Inv, OpenDetails
  PROVE  Inv'
<1>1. LikesInv'
  <2>1. RowsOK' /\ ButtonsInv' /\ ListInv'
    BY DEF OpenDetails, Inv, LikesInv, RowsOK, ButtonsInv, ListInv
  <2> QED BY <2>1 DEF LikesInv
<1>2. ViewerInv' /\ PlaceInv'
  BY DEF OpenDetails, Inv, ViewerInv, PlaceInv
<1> QED BY <1>1, <1>2 DEF Inv

LEMMA ImagesArriveInv ==
  ASSUME Inv, ImagesArrive
  PROVE  Inv'
<1>1. LikesInv' /\ ViewerInv'
  BY SameLikes, SameViewer DEF ImagesArrive, Inv
<1>2. PlaceInv'
  BY DEF ImagesArrive, Inv, PlaceInv
<1> QED BY <1>1, <1>2 DEF Inv

LEMMA ClickPictureInv ==
  ASSUME Inv, NEW i \in 0..(PostImages - 1), ClickPicture(i)
  PROVE  Inv'
<1>1. OpenAt(i, PostImages)
  BY DEF ClickPicture, Inv, PlaceInv
<1>2. Fine(viewer')
  BY <1>1, PositionOK, OpenAtFine
<1>3. LikesInv' /\ PlaceInv'
  BY SameLikes, SamePlace DEF ClickPicture, Inv
<1> QED BY <1>2, <1>3 DEF Inv, ViewerInv

LEMMA ClickInv ==
  ASSUME Inv, Click
  PROVE  Inv'
<1>1. LikesInv'
  BY SameLikes DEF Click, Inv
<1>2. CASE store = "post"
  <2>1. OpenAt(Position, PostImages) /\ UNCHANGED <<place, loaded, store>>
    BY <1>2 DEF Click
  <2>2. Position \in Nat /\ Position < PostImages /\ PostImages \in Nat
    BY <1>2, PositionOK DEF Inv, PlaceInv
  <2> QED BY <1>1, <2>1, <2>2, OpenAtFine, SamePlace DEF Inv, ViewerInv
<1>3. CASE store # "post"
  <2>1. Fine(viewer')
    BY <1>3, OpenAtFine DEF Click
  <2>2. PlaceInv'
    BY <1>3 DEF Click, Inv, PlaceInv
  <2> QED BY <1>1, <2>1, <2>2 DEF Inv, ViewerInv
<1> QED BY <1>2, <1>3

LEMMA OpenLikesInv ==
  ASSUME Inv, OpenLikes
  PROVE  Inv'
<1>1. LikesInv'
  BY OpenLikesLikes DEF OpenLikes, Inv
<1>2. ViewerInv' /\ PlaceInv'
  BY DEF OpenLikes, Inv, ViewerInv, PlaceInv
<1> QED BY <1>1, <1>2 DEF Inv

LEMMA NextInv == Inv /\ [Next]_vars => Inv'
<1> SUFFICES ASSUME Inv, [Next]_vars PROVE Inv'
  OBVIOUS
<1> DEFINE Rest == UNCHANGED <<viewer, place, loaded, store>>
<1>1. Rest /\ LikesInv' => Inv'
  BY SameViewer, SamePlace DEF Inv
<1>2. CASE OpenDetails
  BY <1>2, OpenDetailsInv
<1>3. CASE ImagesArrive
  BY <1>3, ImagesArriveInv
<1>4. CASE Click
  BY <1>4, ClickInv
<1>5. CASE OpenLikes
  BY <1>5, OpenLikesInv
<1>6. ASSUME NEW i \in 0..(PostImages - 1), ClickPicture(i) PROVE Inv'
  BY <1>6, ClickPictureInv
<1>7. CASE ViewerNext /\ UNCHANGED <<likesVars, place, loaded, store>>
  BY <1>7, ViewerNextInv, SameLikes, SamePlace DEF Inv
<1>8. ASSUME NEW b \in Buttons, Mount(b) \/ Toggle(b) \/ Serve(b) \/ Lose(b) \/ Hear(b), Rest
      PROVE  Inv'
  <2>1. LikesInv'
    BY <1>8, ButtonLikes, ServeLikes DEF Inv
  <2> QED BY <1>1, <1>8, <2>1
<1>9. ASSUME NEW r \in late, ServeLate(r), Rest PROVE Inv'
  BY <1>1, <1>9, ServeLateLikes DEF Inv
<1>10. ASSUME NEW t \in Targets, NEW net \in {"POST", "DELETE"}, Elsewhere(t, net), Rest PROVE Inv'
  <2>1. LikesInv'
    <3>1. 1 \in 1..MaxTime
      BY LikesConstants
    <3> QED BY <1>10, <3>1, WriteLikes DEF Elsewhere, Inv
  <2> QED BY <1>1, <1>10, <2>1
<1>11. CASE ListPage /\ Rest
  BY <1>1, <1>11, ListPageLikes DEF Inv
<1>12. CASE Tick /\ Rest
  BY <1>1, <1>12, ClockLikes DEF Inv
<1>13. CASE UNCHANGED vars
  BY <1>1, <1>13, SameLikes DEF vars, Inv
<1> QED BY <1>2, <1>3, <1>4, <1>5, <1>6, <1>7, <1>8, <1>9, <1>10, <1>11, <1>12, <1>13 DEF Next

THEOREM InvHolds == Spec => []Inv
<1> QED BY InitInv, NextInv, PTL DEF Spec

LEMMA InvTypes == Inv => TypeOK
<1> SUFFICES ASSUME Inv PROVE TypeOK
  OBVIOUS
<1>1. LikesTypeOK
  BY DEF Inv, LikesInv, RowsOK, ListInv, Listing, Listings, ButtonsInv, LikesTypeOK
<1>2. ViewerTypeOK
  BY DEF Inv, ViewerInv, Fine, Viewers, ViewerTypeOK
<1> QED BY <1>1, <1>2 DEF Inv, PlaceInv, TypeOK

\* Every variable of the page, its buttons, its viewer and the list keeps its type.
THEOREM TypeCorrect == Spec => []TypeOK
<1> QED BY InvHolds, InvTypes, PTL

LEMMA InvTruth == Inv => ButtonTellsTruth
BY ButtonsTruth DEF Inv, LikesInv

\* However toggles, errors and lost answers interleave, with any number of buttons of any targets:
\* a button at rest shows whether its target is liked, unless it was overtaken from elsewhere.
THEOREM ButtonsTellTruth == Spec => []ButtonTellsTruth
<1> QED BY InvHolds, InvTruth, PTL

LEMMA InvListed == Inv => ListedOnce
BY DEF Inv, LikesInv, ListInv, Listing, ListedOnce

\* Whatever is liked and unliked while the pages of the list are read, and for every size of a
\* page: nothing is listed twice but what a delayed request liked again, with a time older than
\* its arrival, and what stays liked is listed, but for the seconds in which pages end.
THEOREM AlwaysListedOnce == Spec => []ListedOnce
<1> QED BY InvHolds, InvListed, PTL

LEMMA InvStuck == Inv => StuckOnlyAfterCancel
BY DEF Inv, ViewerInv, Fine, Open, StuckOnlyAfterCancel

\* For any number of slides and any touches, the viewer waits for a transition that will not end
\* only after a cancelled touch.
THEOREM ViewerStuckOnlyAfterCancel == Spec => []StuckOnlyAfterCancel
<1> QED BY InvHolds, InvStuck, PTL
=============================================================================
