------------------------------ MODULE Results -------------------------------
(***************************************************************************)
(* The search page: components/results.rs with the search bar that leads   *)
(* to it, the server functions that answer it and the queries of           *)
(* search_engine.  The URL says what is searched; two effects start the    *)
(* requests (a new search, the next page); answers arrive in any order.    *)
(*                                                                         *)
(* The browser runs the effects a signal wakes before it handles the next  *)
(* event: user actions and answers wait until none is pending (Quiet).     *)
(* Rows are ids.  A search with an order sees the rows of the tables in    *)
(* that order, in which new rows may come anywhere (`listing`); a random   *)
(* one draws ids, without end, from its seed and the ids there are (Draw). *)
(***************************************************************************)
EXTENDS Masonry

CONSTANTS
  None,
  Searches,      \* what a URL asks for: mode, q, limit and seed in one
  ModeOf,        \* search -> "posts", "images", "picture", "similar", "random"
  LimitOf,       \* search -> rows it asks for at a time
  SamePost,      \* rows of the post whose image a similarity search starts from
  Pictures,      \* pictures one may search by
  Start,         \* the rows at first, in order
  MaxRows,       \* bound: rows there may ever be
  Draw,          \* number of rows -> the ids a random search then draws, over and over;
                 \* a drawn id that no row has is a gap in the ids of the table
  ColumnCounts,  \* numbers of columns the window may have room for
  MaxVisits,     \* bound: new searches one makes
  MaxPages       \* bound: pages of a random search one scrolls through

Modes == {"posts", "images", "picture", "similar", "random"}

ASSUME ResultsAssumption ==
  /\ ModeOf \in [Searches -> Modes]
  /\ LimitOf \in [Searches -> Nat \ {0}]
  /\ MaxVisits \in Nat
  /\ MaxRows \in Nat
  /\ ColumnCounts \subseteq Nat \ {0}
  /\ Height \in [1..MaxRows -> Nat]
  /\ MaxPages \in Nat \ {0}
  /\ Draw \in [0..MaxRows -> Seq(Nat \ {0})]
  /\ \A n \in 0..MaxRows : Draw[n] = <<>> <=> n = 0
  /\ Len(Start) <= MaxRows
  /\ Start \in Seq(1..Len(Start))
  /\ \A i, j \in DOMAIN Start : Start[i] = Start[j] => i = j
  /\ None \notin Searches \cup Pictures

VARIABLES
  url,           \* the search in the URL
  seen,          \* the search the params effect last ran for, None before it ran
  picture,       \* ImageQuery: the picture kept in client memory
  offset, hasMore, loading, error, reqId,
  inflight,      \* requests not yet answered
  shown,         \* the rows merged since the last new search, in order of arrival
  pages,         \* history: the requests whose answers these rows came with
  columns,
  intersecting,  \* the sentinel below the results is in view
  listing,       \* server: the rows in the order of a search
  base,          \* history: listing when page 0 of an ordered search was merged
  lost,          \* history: rows of it the server failed to read
  visits         \* history: new searches so far

client == <<url, seen, picture, visits>>
page == <<offset, hasMore, loading, error, reqId, inflight>>
view == <<shown, pages, columns, base, lost>>
vars == <<client, page, view, intersecting, listing>>

RowIds == Nat \ {0}
Requests == [id : Nat, search : Searches, picture : Pictures \cup {None}, off : Nat]
Pages == [search : Searches, picture : Pictures \cup {None}, off : Nat]

TypeOK ==
  /\ url \in Searches
  /\ seen \in Searches \cup {None}
  /\ picture \in Pictures \cup {None}
  /\ offset \in Nat /\ reqId \in Nat /\ visits \in Nat
  /\ hasMore \in BOOLEAN /\ loading \in BOOLEAN /\ error \in BOOLEAN
  /\ intersecting \in BOOLEAN
  /\ inflight \subseteq Requests
  /\ pages \in Seq(Pages)

Init ==
  /\ url \in Searches
  /\ seen = None
  /\ picture = None
  /\ offset = 0 /\ reqId = 0 /\ visits = 0
  /\ hasMore = TRUE /\ loading = FALSE /\ error = FALSE
  /\ inflight = {}
  /\ shown = <<>> /\ pages = <<>> /\ columns = Empty(1) /\ base = <<>> /\ lost = {}
  /\ intersecting = FALSE
  /\ listing = Start

-----------------------------------------------------------------------------
(* The server: one page of a search. *)

\* The members of a sequence that are in S.
Only(s, S) == FoldLeft(LAMBDA kept, x : IF x \in S THEN Append(kept, x) ELSE kept, <<>>, s)

\* LIMIT .. OFFSET ..
Slice(s, limit, off) == [i \in 1..Min({limit, Max({0, Len(s) - off})}) |-> s[off + i]]

\* random_ids: as many draws as asked for, at any offset, each id once; none of an empty table.
Draws(limit, off) ==
  LET ids == Draw[Len(listing)]
      w == [i \in 1..(IF ids = <<>> THEN 0 ELSE limit) |-> ids[((off + i - 1) % Len(ids)) + 1]]
  IN Only([i \in DOMAIN w |-> IF \E j \in 1..(i - 1) : w[j] = w[i] THEN 0 ELSE w[i]], RowIds)

Listed == { listing[i] : i \in DOMAIN listing }

Ordered(search) == ModeOf[search] # "random"

\* The queries with an order: the slice asked for.
InOrder(search, off) == Slice(listing, LimitOf[search], off)

\* The random ones: those of the drawn ids that are rows.
Drawn(search, off) == Only(Draws(LimitOf[search], off), Listed)

Window(search, off) == IF Ordered(search) THEN InOrder(search, off) ELSE Drawn(search, off)

\* What may fail to be read: a connection that breaks ends the stream early, without an error;
\* a post is left out when its images or videos cannot be listed.
Failures(search, w) ==
  { {w[i] : i \in k..Len(w)} : k \in 1..(Len(w) + 1) }
    \cup (IF ModeOf[search] \in {"posts", "random"} THEN SUBSET {w[i] : i \in DOMAIN w} ELSE {})

Counted(w, failed) == Only(w, RowIds \ failed)

\* Similar images of the same post are counted but not sent, unless the post cannot be listed.
LeftOut(search) == IF ModeOf[search] = "similar" THEN SamePost ELSE {}
Hidden(search) == {LeftOut(search), {}}
Sent(w, failed, hidden) == Only(w, RowIds \ (failed \cup hidden))

BugMore(search, w, failed) ==
  IF Ordered(search) THEN Len(Sent(w, failed, LeftOut(search))) >= LimitOf[search]
  ELSE Sent(w, failed, LeftOut(search)) # <<>>
More(search, w, failed) ==
  IF Ordered(search) THEN Len(Counted(w, failed)) >= LimitOf[search] ELSE Counted(w, failed) # <<>>

\* The import adds a row somewhere in the order; rows are never removed.
AddRow ==
  /\ Len(listing) < MaxRows
  /\ \E i \in 1..(Len(listing) + 1) : listing' = InsertAt(listing, i, Len(listing) + 1)
  /\ UNCHANGED <<client, page, view, intersecting>>

-----------------------------------------------------------------------------
(* The effects. *)

\* load_page claims the newest id.  A search by picture without a picture in memory ends at once.
LoadPage(search, off) ==
  LET pic == IF ModeOf[search] = "picture" THEN picture ELSE None
      nothing == ModeOf[search] = "picture" /\ picture = None
  IN /\ reqId' = reqId + 1
     /\ error' = FALSE
     /\ loading' = ~nothing
     /\ hasMore' = ~nothing
     /\ inflight' = IF nothing THEN inflight
                    ELSE inflight \cup
                         {[id |-> reqId + 1, search |-> search, picture |-> pic, off |-> off]}

\* The URL's search changed: start anew.
BugParamsEffect ==
  /\ url # seen
  /\ seen' = url
  /\ shown' = <<>> /\ pages' = <<>>
  /\ columns' = Empty(Len(columns))
  /\ offset' = offset
  /\ LoadPage(url, 0)
  /\ base' = <<>> /\ lost' = {}
  /\ UNCHANGED <<url, picture, visits, intersecting, listing>>
ParamsEffect ==
  /\ url # seen
  /\ seen' = url
  /\ shown' = <<>> /\ pages' = <<>>
  /\ columns' = Empty(Len(columns))
  /\ offset' = 0
  /\ LoadPage(url, 0)
  /\ base' = <<>> /\ lost' = {}
  /\ UNCHANGED <<url, picture, visits, intersecting, listing>>

\* The bound on random searches, which with no gaps in the ids go on for ever.
Enough == Len(pages) >= MaxPages /\ ~Ordered(seen)

WantsMore == intersecting /\ ~loading /\ hasMore /\ ~Enough

\* The sentinel is in view: ask for the next page.
SentinelEffect ==
  /\ WantsMore
  /\ offset' = offset + LimitOf[url]
  /\ LoadPage(url, offset + LimitOf[url])
  /\ UNCHANGED <<client, view, intersecting, listing>>

Quiet == url = seen /\ ~WantsMore

-----------------------------------------------------------------------------
(* Answers. *)

Stale(q) == q.id # reqId

BugAnswer(q) ==
  /\ Quiet
  /\ inflight' = inflight \ {q}
  /\ LET w == Window(q.search, q.off)
         rows == Sent(w, {}, LeftOut(q.search))
     IN /\ shown' = shown \o rows
        /\ pages' = Append(pages, [search |-> q.search, picture |-> q.picture, off |-> q.off])
        /\ columns' = PlaceAll(columns, rows)
        /\ hasMore' = More(q.search, w, {})
        /\ loading' = FALSE
        /\ base' = IF q.off = 0 /\ Ordered(q.search) THEN listing ELSE base
        /\ lost' = lost
  /\ UNCHANGED <<offset, error, reqId, client, intersecting, listing>>

\* The rows of a page in arrival order, placed and remembered.
Answer(q) ==
  /\ Quiet
  /\ inflight' = inflight \ {q}
  /\ \E w \in {Window(q.search, q.off)} :
     \E failed \in Failures(q.search, w), hidden \in Hidden(q.search) :
       LET rows == Sent(w, failed, hidden)
       IN IF Stale(q) THEN failed = {} /\ UNCHANGED <<hasMore, loading, view>>
          ELSE /\ shown' = shown \o rows
               /\ pages' = Append(pages, [search |-> q.search, picture |-> q.picture, off |-> q.off])
               /\ columns' = PlaceAll(columns, rows)
               /\ hasMore' = More(q.search, w, failed)
               /\ loading' = FALSE
               /\ base' = IF q.off = 0 /\ Ordered(q.search) THEN listing ELSE base
               /\ lost' = IF Ordered(q.search) THEN lost \cup failed ELSE lost
  /\ UNCHANGED <<offset, error, reqId, client, intersecting, listing>>

BugFail(q) ==
  /\ Quiet
  /\ inflight' = inflight \ {q}
  /\ IF Stale(q) THEN UNCHANGED <<hasMore, loading, error>>
     ELSE /\ error' = TRUE
          /\ UNCHANGED <<hasMore, loading>>
  /\ UNCHANGED <<offset, reqId, client, view, intersecting, listing>>

\* An error, of the network, the gateway or the engine: shown, and no further page.
Fail(q) ==
  /\ Quiet
  /\ inflight' = inflight \ {q}
  /\ IF Stale(q) THEN UNCHANGED <<hasMore, loading, error>>
     ELSE /\ error' = TRUE
          /\ hasMore' = FALSE
          /\ loading' = FALSE
  /\ UNCHANGED <<offset, reqId, client, view, intersecting, listing>>

-----------------------------------------------------------------------------
(* The user. *)

\* A submission, a link, a reload from history: any search.  The same one again does nothing.
Navigate(search) ==
  /\ Quiet
  /\ visits < MaxVisits
  /\ search # url
  /\ url' = search
  /\ visits' = visits + 1
  /\ UNCHANGED <<seen, picture, page, view, intersecting, listing>>

\* A file has been encoded, or a region cropped: the picture is stored and a fresh nonce, hence
\* another search, is navigated to.  The mode is that of the tab selected by then, which need
\* not be "picture".
PickPicture(p, search) ==
  /\ Quiet
  /\ visits < MaxVisits
  /\ search # url
  /\ picture' = p
  /\ url' = search
  /\ visits' = visits + 1
  /\ UNCHANGED <<seen, page, view, intersecting, listing>>

\* Scrolling and layout move the sentinel in and out of view.
Scroll ==
  /\ Quiet
  /\ intersecting' = ~intersecting
  /\ UNCHANGED <<client, page, view, listing>>

Resize(n) ==
  /\ Quiet
  /\ n # Len(columns)
  /\ columns' = Relayout(columns, n)
  /\ UNCHANGED <<client, page, shown, pages, base, lost, intersecting, listing>>

Next ==
  \/ ParamsEffect \/ SentinelEffect \/ AddRow \/ Scroll
  \/ \E q \in inflight : Answer(q) \/ Fail(q)
  \/ \E s \in Searches : Navigate(s) \/ \E p \in Pictures : PickPicture(p, s)
  \/ \E n \in ColumnCounts : Resize(n)

Spec == Init /\ [][Next]_vars

\* The browser runs its effects, and the newest request is answered or fails.
FairSpec ==
  /\ Spec
  /\ WF_vars(ParamsEffect) /\ WF_vars(SentinelEffect)
  /\ WF_vars(\E q \in inflight : ~Stale(q) /\ (Answer(q) \/ Fail(q)))

-----------------------------------------------------------------------------
(* Correctness. *)

ShownIds == { shown[i] : i \in DOMAIN shown }

\* What is shown are the pages of one search, the one the page was last started for, and of one
\* picture, each exactly once and in their order.  Answers to earlier searches arrive late, and
\* the picture is global (req_id in load_page: "late responses can't corrupt the current view").
PagesOfOneSearch ==
  \A i \in DOMAIN pages :
    /\ pages[i].search = seen
    /\ pages[i].picture = pages[1].picture
    /\ pages[i].off = IF i = 1 THEN 0 ELSE pages[i - 1].off + LimitOf[seen]

\* Paging skips nothing: of the rows there were when the search began, one that comes before a
\* shown row is shown as well, though OFFSET counts rows of a table that has grown meanwhile
\* (rows the server failed to read, or left out on purpose, aside).
NothingSkipped ==
  seen # None =>
    \A i, j \in DOMAIN base : i < j /\ base[j] \in ShownIds =>
      base[i] \in ShownIds \cup lost \cup LeftOut(seen)

\* When the page shows its end, everything there was is shown: unless a request failed or the
\* server could not read a row, which ends the results early and, with rows, without an error.
EndMeansEnd ==
  /\ seen = url /\ ~loading /\ ~hasMore /\ ~error /\ lost = {}
  => \A i \in DOMAIN base : base[i] \in ShownIds \cup LeftOut(seen)

\* The columns hold every shown item exactly as often as it was merged, whatever the layouts it
\* went through, but posts without a cover (the width effect, place_post, place_image).
LayoutKeepsAll ==
  \A row \in Listed :
    Times(row, FlattenSeq(columns)) = IF row \in Coverless THEN 0 ELSE Times(row, shown)

\* With the sentinel in view for good the page never waits in vain (the sentinel effect,
\* load_page): whatever answer is late, dropped or failed, a search with an order comes to its
\* end, or to an error.  A random one does, or goes on to the last page of the bound: the code
\* reshuffles endlessly, and its search ends only with a window that has no row.
ReachesEnd == <>[]intersecting => <>[](~loading /\ (hasMore => Enough))
=============================================================================
