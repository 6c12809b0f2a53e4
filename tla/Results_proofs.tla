---------------------------- MODULE Results_proofs ----------------------------
(***************************************************************************)
(* Proofs about Results, for every set of searches and pictures, limits,   *)
(* tables and draws, and any number of visits: what is shown comes from    *)
(* one search, whatever the order and the fate of the answers; the layout  *)
(* loses nothing; and paging skips nothing of a table that grows.          *)
(***************************************************************************)
EXTENDS Results, Masonry_proofs, TLAPS

-----------------------------------------------------------------------------
(***************************************************************************)
(* The inductive invariant.  An answer that is not stale is the answer to  *)
(* the one newest request, and that request asks for the page after the    *)
(* last one shown.                                                         *)
(***************************************************************************)

PicFor(search) == IF ModeOf[search] = "picture" THEN picture ELSE None

NextOff == IF pages = <<>> THEN 0 ELSE pages[Len(pages)].off + LimitOf[seen]

Sane ==
  /\ \A q \in inflight : q.id <= reqId
  /\ \A q, r \in inflight : q.id = reqId /\ r.id = reqId => q = r

NewestFits == \A q \in inflight : q.id = reqId =>
  /\ q.search = seen /\ q.off = NextOff /\ q.off = offset
  /\ loading
  /\ url = seen => q.picture = PicFor(seen)

OffsetFits == seen # None /\ ~loading /\ hasMore =>
  pages # <<>> /\ offset = pages[Len(pages)].off

PicturesFit == url = seen => \A i \in DOMAIN pages : pages[i].picture = PicFor(seen)

EffectsWait == url # seen => ~WantsMore

Inv ==
  /\ TypeOK
  /\ PagesOfOneSearch
  /\ Sane
  /\ NewestFits
  /\ OffsetFits
  /\ PicturesFit
  /\ EffectsWait

LEMMA InitInv == Init => Inv
<1> SUFFICES ASSUME Init PROVE Inv
  OBVIOUS
<1>1. TypeOK
  <2>1. url \in Searches /\ seen \in Searches \cup {None} /\ picture \in Pictures \cup {None}
    BY DEF Init
  <2>2. offset \in Nat /\ reqId \in Nat /\ visits \in Nat /\ inflight \subseteq Requests
    BY DEF Init
  <2>3. hasMore \in BOOLEAN /\ loading \in BOOLEAN /\ error \in BOOLEAN /\ intersecting \in BOOLEAN
    BY DEF Init
  <2>4. pages \in Seq(Pages)
    BY DEF Init
  <2> QED BY <2>1, <2>2, <2>3, <2>4 DEF TypeOK
<1>2. Sane /\ NewestFits
  BY DEF Init, Sane, NewestFits
<1>3. OffsetFits /\ EffectsWait
  BY DEF Init, OffsetFits, EffectsWait, WantsMore
<1>4. PagesOfOneSearch /\ PicturesFit
  BY DEF Init, PagesOfOneSearch, PicturesFit
<1> QED BY <1>1, <1>2, <1>3, <1>4 DEF Inv

LEMMA LimitOK == \A s \in Searches : LimitOf[s] \in Nat \ {0}
BY ResultsAssumption DEF ResultsAssumption

\* Nothing the page is made of changes.
LEMMA SamePage ==
  ASSUME Inv, UNCHANGED <<url, seen, picture, visits, page, pages, intersecting>>
  PROVE  Inv'
BY DEF page, Inv, TypeOK, PagesOfOneSearch, Sane, NewestFits, NextOff, PicFor, OffsetFits,
       PicturesFit, EffectsWait, WantsMore, Enough

\* A request is sent: the newest of all.
LEMMA LoadPageOK ==
  ASSUME Inv, NEW search \in Searches, NEW off \in Nat, LoadPage(search, off)
  PROVE  /\ reqId' \in Nat /\ error' \in BOOLEAN /\ loading' \in BOOLEAN /\ hasMore' \in BOOLEAN
         /\ inflight' \subseteq Requests
         /\ Sane'
         /\ ~loading' => ~hasMore'
         /\ \A q \in inflight' : q.id = reqId' =>
              q.search = search /\ q.off = off /\ loading' /\ q.picture = PicFor(search)
<1> DEFINE q == [id |-> reqId + 1, search |-> search, picture |-> PicFor(search), off |-> off]
<1>1. /\ reqId \in Nat /\ inflight \subseteq Requests
      /\ \A r \in inflight : r.id \in Nat /\ r.id <= reqId
  BY DEF Inv, TypeOK, Sane, Requests
<1>2. PicFor(search) \in Pictures \cup {None}
  BY DEF Inv, TypeOK, PicFor
<1>3. q \in Requests
  BY <1>1, <1>2 DEF Requests
<1>4. /\ reqId' = reqId + 1 /\ error' = FALSE /\ hasMore' = loading' /\ loading' \in BOOLEAN
      /\ inflight' = inflight \/ (inflight' = inflight \cup {q} /\ loading')
  BY DEF LoadPage, PicFor
<1>5. q.id = reqId + 1 /\ q.search = search /\ q.off = off /\ q.picture = PicFor(search)
  OBVIOUS
<1> HIDE DEF q
<1>6. \A r \in inflight' : r = q \/ (r \in inflight /\ r.id <= reqId /\ r.id # reqId')
  BY <1>1, <1>4
<1>7. Sane'
  BY <1>1, <1>4, <1>5, <1>6 DEF Sane
<1>8. \A r \in inflight' : r.id = reqId' => r = q /\ loading'
  BY <1>1, <1>4, <1>6
<1>9. inflight' \subseteq Requests
  BY <1>1, <1>3, <1>4
<1>10. reqId' \in Nat
  BY <1>1, <1>4
<1>11. error' \in BOOLEAN /\ loading' \in BOOLEAN /\ hasMore' \in BOOLEAN /\ (~loading' => ~hasMore')
  BY <1>4
<1> QED BY <1>5, <1>7, <1>8, <1>9, <1>10, <1>11

LEMMA ParamsInv ==
  ASSUME Inv, ParamsEffect
  PROVE  Inv'
<1>1. url \in Searches /\ url' = url /\ seen' = url /\ pages' = <<>> /\ offset' = 0 /\ picture' = picture
  BY DEF ParamsEffect, Inv, TypeOK
<1>2. /\ reqId' \in Nat /\ error' \in BOOLEAN /\ loading' \in BOOLEAN /\ hasMore' \in BOOLEAN
      /\ inflight' \subseteq Requests /\ Sane' /\ (~loading' => ~hasMore')
      /\ \A q \in inflight' : q.id = reqId' =>
           q.search = url /\ q.off = 0 /\ loading' /\ q.picture = PicFor(url)
  BY <1>1, LoadPageOK DEF ParamsEffect
<1>3. TypeOK'
  BY <1>1, <1>2 DEF ParamsEffect, Inv, TypeOK
<1>4. NewestFits'
  BY <1>1, <1>2 DEF NewestFits, NextOff, PicFor
<1>5. PagesOfOneSearch' /\ OffsetFits' /\ PicturesFit' /\ EffectsWait'
  BY <1>1, <1>2 DEF PagesOfOneSearch, OffsetFits, PicturesFit, EffectsWait
<1> QED BY <1>2, <1>3, <1>4, <1>5 DEF Inv

LEMMA SentinelInv ==
  ASSUME Inv, SentinelEffect
  PROVE  Inv'
<1>1. /\ url = seen /\ url \in Searches /\ ~loading /\ hasMore /\ seen # None
      /\ UNCHANGED <<url, seen, picture, visits, pages, intersecting>>
      /\ offset' = offset + LimitOf[url] /\ offset \in Nat
  BY ResultsAssumption DEF ResultsAssumption, SentinelEffect, WantsMore, client, view,
       Inv, EffectsWait, TypeOK
<1>2. pages # <<>> /\ offset = pages[Len(pages)].off
  BY <1>1 DEF Inv, OffsetFits
<1>3. offset' \in Nat
  BY <1>1, LimitOK
<1>4. /\ reqId' \in Nat /\ error' \in BOOLEAN /\ loading' \in BOOLEAN /\ hasMore' \in BOOLEAN
      /\ inflight' \subseteq Requests /\ Sane' /\ (~loading' => ~hasMore')
      /\ \A q \in inflight' : q.id = reqId' =>
           q.search = url /\ q.off = offset' /\ loading' /\ q.picture = PicFor(url)
  BY <1>1, <1>3, LoadPageOK DEF SentinelEffect
<1>5. TypeOK'
  BY <1>1, <1>3, <1>4 DEF Inv, TypeOK
<1>6. NewestFits'
  BY <1>1, <1>2, <1>4 DEF NewestFits, NextOff, PicFor
<1>7. PagesOfOneSearch' /\ PicturesFit'
  BY <1>1 DEF Inv, PagesOfOneSearch, PicturesFit, PicFor
<1>8. OffsetFits' /\ EffectsWait'
  BY <1>1, <1>4 DEF OffsetFits, EffectsWait
<1> QED BY <1>4, <1>5, <1>6, <1>7, <1>8 DEF Inv

-----------------------------------------------------------------------------
(* Answers and errors. *)

\* A request is gone.
LEMMA OneLess ==
  ASSUME Sane, NEW q \in inflight, inflight' = inflight \ {q}, reqId' = reqId
  PROVE  /\ Sane'
         /\ ~Stale(q) => \A r \in inflight' : r.id # reqId'
BY DEF Sane, Stale

\* A stale one changes nothing else.
LEMMA StaleInv ==
  ASSUME Inv, NEW q \in inflight, Stale(q), inflight' = inflight \ {q},
         UNCHANGED <<url, seen, picture, visits, offset, hasMore, loading, error, reqId, pages,
                     intersecting>>
  PROVE  Inv'
<1>1. Sane'
  BY OneLess DEF Inv
<1>2. NewestFits'
  BY DEF Inv, NewestFits, NextOff, PicFor
<1>3. TypeOK' /\ PagesOfOneSearch' /\ OffsetFits' /\ PicturesFit' /\ EffectsWait'
  BY DEF Inv, TypeOK, PagesOfOneSearch, OffsetFits, PicturesFit, PicFor, EffectsWait, WantsMore, Enough
<1> QED BY <1>1, <1>2, <1>3 DEF Inv

LEMMA MoreBoolean ==
  ASSUME NEW search, NEW w, NEW failed
  PROVE  More(search, w, failed) \in BOOLEAN
<1>1. CASE Ordered(search)
  BY <1>1 DEF More
<1>2. CASE ~Ordered(search)
  BY <1>2 DEF More
<1> QED BY <1>1, <1>2

\* The newest answer is the page that comes next.
LEMMA NextPage ==
  ASSUME Inv, url = seen, NEW q \in inflight, ~Stale(q),
         pages' = Append(pages, [search |-> q.search, picture |-> q.picture, off |-> q.off]),
         UNCHANGED <<url, seen, picture, offset>>
  PROVE  /\ pages' \in Seq(Pages)
         /\ PagesOfOneSearch' /\ PicturesFit'
         /\ pages' # <<>> /\ offset' = pages'[Len(pages')].off
<1> DEFINE p == [search |-> q.search, picture |-> q.picture, off |-> q.off]
<1>1. /\ q.id = reqId /\ q.search = seen /\ q.off = NextOff /\ q.off = offset
      /\ q.picture = PicFor(seen)
  BY DEF Stale, Inv, NewestFits
<1>2. p \in Pages /\ p.search = seen /\ p.off = NextOff /\ p.off = offset /\ p.picture = PicFor(seen)
  BY <1>1 DEF Inv, TypeOK, Requests, Pages
<1> HIDE DEF p
<1>3. pages \in Seq(Pages) /\ pages' = Append(pages, p)
  BY DEF Inv, TypeOK, p
<1>4. /\ Len(pages') = Len(pages) + 1 /\ Len(pages) \in Nat
      /\ DOMAIN pages' = 1..(Len(pages) + 1)
      /\ pages'[Len(pages) + 1] = p
      /\ \A i \in 1..Len(pages) : pages'[i] = pages[i]
      /\ DOMAIN pages = 1..Len(pages)
      /\ pages' \in Seq(Pages)
  BY <1>2, <1>3
<1>5. \A i \in DOMAIN pages' : pages'[i].picture = PicFor(seen)
  BY <1>2, <1>4 DEF Inv, PicturesFit
<1>6. \A i \in DOMAIN pages' : pages'[i].search = seen
  BY <1>2, <1>4 DEF Inv, PagesOfOneSearch
<1>7. ASSUME NEW i \in DOMAIN pages'
      PROVE  pages'[i].off = IF i = 1 THEN 0 ELSE pages'[i - 1].off + LimitOf[seen]
  <2>1. CASE i \in 1..Len(pages)
    BY <2>1, <1>4 DEF Inv, PagesOfOneSearch
  <2>2. CASE i = Len(pages) + 1
    <3>1. pages = <<>> <=> Len(pages) = 0
      BY <1>3
    <3>2. CASE pages = <<>>
      BY <2>2, <3>1, <3>2, <1>2, <1>4 DEF NextOff
    <3>3. CASE pages # <<>>
      <4>1. i # 1 /\ i - 1 = Len(pages) /\ Len(pages) \in 1..Len(pages)
        BY <2>2, <3>1, <3>3, <1>4
      <4>2. pages'[i - 1] = pages[Len(pages)] /\ pages'[i] = p
        BY <2>2, <4>1, <1>4
      <4> QED BY <3>3, <4>1, <4>2, <1>2 DEF NextOff
    <3> QED BY <3>2, <3>3
  <2> QED BY <1>4, <2>1, <2>2
<1>8. 1 \in DOMAIN pages'
  BY <1>4
<1>9. PagesOfOneSearch'
  BY <1>5, <1>6, <1>7, <1>8 DEF PagesOfOneSearch
<1>10. PicturesFit'
  BY <1>5 DEF PicturesFit, PicFor
<1>11. pages' # <<>> /\ offset' = pages'[Len(pages')].off
  BY <1>2, <1>4
<1> QED BY <1>4, <1>9, <1>10, <1>11

LEMMA AnswerInv ==
  ASSUME Inv, NEW q \in inflight, Answer(q)
  PROVE  Inv'
<1>1. /\ url = seen /\ inflight' = inflight \ {q} /\ ~WantsMore
      /\ UNCHANGED <<offset, error, reqId, url, seen, picture, visits, intersecting>>
  BY DEF Answer, Quiet, client
<1>2. CASE Stale(q)
  <2>1. UNCHANGED <<hasMore, loading, pages>>
    BY <1>2 DEF Answer, view
  <2> QED BY <1>1, <1>2, <2>1, StaleInv
<1>3. CASE ~Stale(q)
  <2>1. /\ pages' = Append(pages, [search |-> q.search, picture |-> q.picture, off |-> q.off])
        /\ loading' = FALSE /\ hasMore' \in BOOLEAN
    BY <1>3, MoreBoolean DEF Answer
  <2>2. /\ pages' \in Seq(Pages) /\ PagesOfOneSearch' /\ PicturesFit'
        /\ pages' # <<>> /\ offset' = pages'[Len(pages')].off
    BY <1>1, <1>3, <2>1, NextPage
  <2>3. Sane' /\ \A r \in inflight' : r.id # reqId'
    BY <1>1, <1>3, OneLess DEF Inv
  <2>4. TypeOK'
    BY <1>1, <2>1, <2>2 DEF Inv, TypeOK
  <2>5. NewestFits' /\ OffsetFits' /\ EffectsWait'
    BY <1>1, <2>2, <2>3 DEF NewestFits, OffsetFits, EffectsWait
  <2> QED BY <2>2, <2>3, <2>4, <2>5 DEF Inv
<1> QED BY <1>2, <1>3

LEMMA FailInv ==
  ASSUME Inv, NEW q \in inflight, Fail(q)
  PROVE  Inv'
<1>1. /\ url = seen /\ inflight' = inflight \ {q}
      /\ UNCHANGED <<offset, reqId, url, seen, picture, visits, pages, intersecting>>
  BY DEF Fail, Quiet, client, view
<1>2. CASE Stale(q)
  <2>1. UNCHANGED <<hasMore, loading, error>>
    BY <1>2 DEF Fail
  <2> QED BY <1>1, <1>2, <2>1, StaleInv
<1>3. CASE ~Stale(q)
  <2>1. error' = TRUE /\ hasMore' = FALSE /\ loading' = FALSE
    BY <1>3 DEF Fail
  <2>2. Sane' /\ \A r \in inflight' : r.id # reqId'
    BY <1>1, <1>3, OneLess DEF Inv
  <2>3. TypeOK' /\ PagesOfOneSearch' /\ PicturesFit'
    BY <1>1, <2>1 DEF Inv, TypeOK, PagesOfOneSearch, PicturesFit, PicFor
  <2>4. NewestFits' /\ OffsetFits' /\ EffectsWait'
    BY <1>1, <2>1, <2>2 DEF NewestFits, OffsetFits, EffectsWait
  <2> QED BY <2>2, <2>3, <2>4 DEF Inv
<1> QED BY <1>2, <1>3

-----------------------------------------------------------------------------
(* The user. *)

\* Another search is asked for: nothing but the URL and the picture changes until the effects run.
LEMMA LeadAway ==
  ASSUME Inv, Quiet, NEW search \in Searches, search # url, url' = search,
         picture' \in Pictures \cup {None}, visits' = visits + 1,
         UNCHANGED <<seen, page, view, intersecting, listing>>
  PROVE  Inv'
<1>1. /\ url = seen /\ url' # seen' /\ ~WantsMore
      /\ UNCHANGED <<seen, offset, hasMore, loading, error, reqId, inflight, pages, intersecting>>
  BY DEF Quiet, page, view
<1>2. TypeOK'
  BY <1>1 DEF Inv, TypeOK
<1>3. PagesOfOneSearch' /\ Sane' /\ OffsetFits'
  BY <1>1 DEF Inv, PagesOfOneSearch, Sane, OffsetFits
<1>4. NewestFits'
  BY <1>1 DEF Inv, NewestFits, NextOff
<1>5. PicturesFit' /\ EffectsWait'
  BY <1>1 DEF PicturesFit, EffectsWait, WantsMore, Enough
<1> QED BY <1>2, <1>3, <1>4, <1>5 DEF Inv

LEMMA NavigateInv ==
  ASSUME Inv, NEW s \in Searches, Navigate(s)
  PROVE  Inv'
BY LeadAway DEF Navigate, Inv, TypeOK

LEMMA PickPictureInv ==
  ASSUME Inv, NEW p \in Pictures, NEW s \in Searches, PickPicture(p, s)
  PROVE  Inv'
BY LeadAway DEF PickPicture

\* The sentinel comes into view only when the effects have run.
LEMMA ScrollInv ==
  ASSUME Inv, Scroll
  PROVE  Inv'
<1>1. url = seen /\ UNCHANGED <<url, seen, picture, visits, page, pages>>
  BY DEF Scroll, Quiet, client, view
<1>2. TypeOK'
  BY <1>1 DEF Scroll, page, Inv, TypeOK
<1> QED BY <1>1, <1>2 DEF page, Inv, PagesOfOneSearch, Sane, NewestFits, NextOff, PicFor, OffsetFits,
       PicturesFit, EffectsWait

LEMMA NextInv == Inv /\ [Next]_vars => Inv'
<1> SUFFICES ASSUME Inv, [Next]_vars PROVE Inv'
  OBVIOUS
<1>1. CASE ParamsEffect
  BY <1>1, ParamsInv
<1>2. CASE SentinelEffect
  BY <1>2, SentinelInv
<1>3. CASE AddRow
  BY <1>3, SamePage DEF AddRow, client, view
<1>4. CASE Scroll
  BY <1>4, ScrollInv
<1>5. ASSUME NEW q \in inflight, Answer(q) \/ Fail(q) PROVE Inv'
  BY <1>5, AnswerInv, FailInv
<1>6. ASSUME NEW s \in Searches, Navigate(s) PROVE Inv'
  BY <1>6, NavigateInv
<1>7. ASSUME NEW s \in Searches, NEW p \in Pictures, PickPicture(p, s) PROVE Inv'
  BY <1>7, PickPictureInv
<1>8. ASSUME NEW n \in ColumnCounts, Resize(n) PROVE Inv'
  BY <1>8, SamePage DEF Resize, client
<1>9. CASE UNCHANGED vars
  BY <1>9, SamePage DEF vars, client, view
<1> QED BY <1>1, <1>2, <1>3, <1>4, <1>5, <1>6, <1>7, <1>8, <1>9 DEF Next

THEOREM InvHolds == Spec => []Inv
<1> QED BY InitInv, NextInv, PTL DEF Spec

LEMMA InvTypes == Inv => TypeOK
BY DEF Inv

\* The variables of the search page keep their types.
THEOREM TypeCorrect == Spec => []TypeOK
<1> QED BY InvHolds, InvTypes, PTL

LEMMA InvPages == Inv => PagesOfOneSearch
BY DEF Inv

\* Whatever the user searches for and the order in which answers arrive, fail or come too late:
\* the pages shown are those of one search and one picture, from the first, none missing, none
\* twice.
THEOREM AlwaysOneSearch == Spec => []PagesOfOneSearch
<1> QED BY InvHolds, InvPages, PTL
-----------------------------------------------------------------------------
(***************************************************************************)
(* What the server answers.                                                *)
(***************************************************************************)

\* What one member adds to Only.
Keep(kept, x, S) == IF x \in S THEN Append(kept, x) ELSE kept

\* Only as steps.
LEMMA OnlySteps ==
  ASSUME NEW X, NEW s \in Seq(X), NEW S
  PROVE  \E f : /\ \A k \in 0..Len(s) : f[k] \in Seq(X)
                /\ f[0] = <<>>
                /\ \A k \in 1..Len(s) : f[k] = Keep(f[k - 1], s[k], S)
                /\ f[Len(s)] = Only(s, S)
<1> DEFINE n == Len(s)
           R == Seq(X)
           pick == [t \in SUBSET (1..n) |-> Max(t)]
           step == [p \in (1..n) \X R |-> Keep(p[2], s[p[1]], S)]
           Put(t, f) == IF t = {} THEN <<>> ELSE Keep(f[t \ {Max(t)}], s[Max(t)], S)
           Fits(f) == f = [t \in SUBSET (1..n) |-> Put(t, f)]
           iter == CHOOSE f : Fits(f)
<1>1. n \in Nat /\ DOMAIN s = 1..n /\ \A i \in 1..n : s[i] \in X
  OBVIOUS
<1>2. Only(s, S) = iter[1..n]
  BY <1>1 DEF Only, FoldLeft, MapThenFoldSet, Keep
<1> HIDE DEF n, iter
<1>3. \A t \in (SUBSET (1..n)) \ {{}} : pick[t] \in t /\ pick[t] = Max(t) /\ Max(t) \in 1..n
  BY <1>1, MaxPicks
<1>4. \A i \in 1..n, r \in R : step[<<i, r>>] = Keep(r, s[i], S) /\ Keep(r, s[i], S) \in R
  <2> TAKE i \in 1..n, r \in R
  <2>1. Keep(r, s[i], S) \in R
    BY <1>1 DEF Keep
  <2> QED BY <2>1
<1>5. <<>> \in R
  OBVIOUS
<1> HIDE DEF pick, step, Fits, R
<1>6. Picks(pick, n) /\ Steps(step, n, R)
  <2>1. \A i \in 1..n, r \in R : step[<<i, r>>] \in R
    <3> TAKE i \in 1..n, r \in R
    <3>1. step[<<i, r>>] = Keep(r, s[i], S) /\ Keep(r, s[i], S) \in R
      BY <1>4
    <3> QED BY <3>1
  <2> QED BY <1>3, <2>1 DEF Picks, Steps
<1>7. PICK f : Folds(f, n, R, <<>>, pick, step)
  <2> HIDE DEF Put
  <2> QED BY <1>1, <1>5, <1>6, FoldExists
<1>8. \A t \in SUBSET (1..n) : f[t] = Put(t, f)
  <2> TAKE t \in SUBSET (1..n)
  <2>1. CASE t = {}
    BY <1>7, <2>1 DEF Folds
  <2>2. CASE t # {}
    <3>1. pick[t] = Max(t) /\ Max(t) \in 1..n /\ f[t \ {Max(t)}] \in R
      BY <1>3, <1>7, <2>2 DEF Folds
    <3> QED BY <1>4, <1>7, <2>2, <3>1 DEF Folds
  <2> QED BY <2>1, <2>2
<1>9. Fits(iter)
  <2> HIDE DEF Put
  <2>1. f = [t \in SUBSET (1..n) |-> f[t]]
    BY <1>7 DEF Folds
  <2>2. Fits(f)
    BY <1>8, <2>1 DEF Fits
  <2> QED BY <2>2 DEF iter
<1>10. \A t \in SUBSET (1..n) : iter[t] = Put(t, iter)
  <2> HIDE DEF Put
  <2> QED BY <1>9 DEF Fits
<1>11. iter[{}] = <<>>
  <2>1. {} \in SUBSET (1..n) /\ Put({}, iter) = <<>>
    OBVIOUS
  <2> HIDE DEF Put
  <2> QED BY <1>10, <2>1
<1>12. \A t \in (SUBSET (1..n)) \ {{}} :
         iter[t \ {Max(t)}] \in R => iter[t] = step[<<Max(t), iter[t \ {Max(t)}]>>]
  <2> TAKE t \in (SUBSET (1..n)) \ {{}}
  <2> HAVE iter[t \ {Max(t)}] \in R
  <2>1. Max(t) \in 1..n
    BY <1>3
  <2>2. iter[t] = Keep(iter[t \ {Max(t)}], s[Max(t)], S)
    BY <1>10
  <2> QED BY <1>4, <2>1, <2>2
<1>13. FoldsLeft(iter, n, R, <<>>, step)
  BY <1>11, <1>12 DEF FoldsLeft
<1>14. PICK g : Walks(g, n, R, <<>>, step) /\ g[n] = iter[1..n]
  <2> HIDE DEF Put
  <2> QED BY <1>1, <1>5, <1>6, <1>13, LeftSteps
<1>15. \A k \in 1..n : g[k] = Keep(g[k - 1], s[k], S)
  <2> TAKE k \in 1..n
  <2>1. k - 1 \in 0..n
    BY <1>1
  <2>2. g[k - 1] \in R
    BY <1>14, <2>1 DEF Walks
  <2> QED BY <1>4, <1>14, <2>2 DEF Walks
<1>16. g[0] = <<>> /\ \A k \in 0..n : g[k] \in R
  BY <1>14 DEF Walks
<1> QED BY <1>2, <1>14, <1>15, <1>16 DEF n, R

\* The members of a sequence.
Ids(s) == { s[i] : i \in DOMAIN s }

LEMMA IdsIn ==
  ASSUME NEW X, NEW s \in Seq(X)
  PROVE  Ids(s) \subseteq X
<1>1. \A i \in DOMAIN s : s[i] \in X
  OBVIOUS
<1> QED BY <1>1 DEF Ids

LEMMA IdsOfAppend ==
  ASSUME NEW X, NEW s \in Seq(X), NEW x \in X
  PROVE  Ids(Append(s, x)) = Ids(s) \cup {x}
<1> DEFINE a == Append(s, x)
           n == Len(s)
<1>1. n \in Nat /\ DOMAIN s = 1..n /\ DOMAIN a = 1..(n + 1)
  OBVIOUS
<1>2. a[n + 1] = x /\ \A i \in 1..n : a[i] = s[i]
  OBVIOUS
<1> HIDE DEF a, n
<1>3. \A i : i \in 1..(n + 1) <=> i \in 1..n \/ i = n + 1
  BY <1>1
<1>4. Ids(a) = Ids(s) \cup {x}
  BY <1>1, <1>2, <1>3 DEF Ids
<1> QED BY <1>4 DEF a

LEMMA IdsOfConcat ==
  ASSUME NEW X, NEW a \in Seq(X), NEW b \in Seq(X)
  PROVE  Ids(a \o b) = Ids(a) \cup Ids(b)
<1> DEFINE m == Len(a)
           n == Len(b)
           c == a \o b
<1>1. /\ m \in Nat /\ n \in Nat
      /\ DOMAIN c = 1..(m + n) /\ DOMAIN a = 1..m /\ DOMAIN b = 1..n
  OBVIOUS
<1>2. /\ \A i \in 1..m : c[i] = a[i]
      /\ \A i \in 1..n : c[i + m] = b[i]
  OBVIOUS
<1> HIDE DEF m, n, c
<1>3. \A i \in 1..(m + n) : i \in 1..m \/ (i - m \in 1..n /\ (i - m) + m = i)
  BY <1>1
<1>4. (\A i \in 1..m : i \in 1..(m + n)) /\ (\A i \in 1..n : i + m \in 1..(m + n))
  BY <1>1
<1>5. \A x \in Ids(c) : x \in Ids(a) \cup Ids(b)
  <2> TAKE x \in Ids(c)
  <2>1. PICK i \in 1..(m + n) : c[i] = x
    BY <1>1 DEF Ids
  <2>2. CASE i \in 1..m
    <3>1. a[i] = x /\ i \in DOMAIN a
      BY <1>1, <1>2, <2>1, <2>2
    <3> QED BY <3>1 DEF Ids
  <2>3. CASE i - m \in 1..n /\ (i - m) + m = i
    <3>1. b[i - m] = x /\ i - m \in DOMAIN b
      BY <1>1, <1>2, <2>1, <2>3
    <3> QED BY <3>1 DEF Ids
  <2> QED BY <1>3, <2>2, <2>3
<1>6. \A x \in Ids(a) : x \in Ids(c)
  BY <1>1, <1>2, <1>4 DEF Ids
<1>7. \A x \in Ids(b) : x \in Ids(c)
  <2> TAKE x \in Ids(b)
  <2>1. PICK i \in 1..n : b[i] = x
    BY <1>1 DEF Ids
  <2>2. c[i + m] = x /\ i + m \in DOMAIN c
    BY <1>1, <1>2, <1>4, <2>1
  <2> QED BY <2>2 DEF Ids
<1> QED BY <1>5, <1>6, <1>7 DEF c

\* Only keeps the members of S, and all of them; all members being in S, it changes nothing.
LEMMA OnlyIs ==
  ASSUME NEW X, NEW s \in Seq(X), NEW S
  PROVE  /\ Only(s, S) \in Seq(X)
         /\ Ids(Only(s, S)) = Ids(s) \cap S
         /\ Ids(s) \subseteq S => Only(s, S) = s
<1> DEFINE n == Len(s)
<1>1. n \in Nat /\ DOMAIN s = 1..n /\ \A i \in 1..n : s[i] \in X
  OBVIOUS
<1>2. PICK f : /\ \A k \in 0..n : f[k] \in Seq(X)
               /\ f[0] = <<>>
               /\ \A k \in 1..n : f[k] = Keep(f[k - 1], s[k], S)
               /\ f[n] = Only(s, S)
  BY OnlySteps
<1> HIDE DEF n
<1>3. 0 \in 0..n /\ n \in 0..n
  BY <1>1
<1>4. Ids(f[n]) = Ids(s) \cap S
  <2> DEFINE P(k) == Ids(f[k]) = {s[i] : i \in 1..k} \cap S
             T == {k \in 0..n : P(k)}
  <2>1. 0 \in T
    <3>1. \A i : i \notin 1..0
      OBVIOUS
    <3>2. Ids(<<>>) = {}
      BY DEF Ids
    <3> QED BY <1>2, <1>3, <3>1, <3>2
  <2>2. ASSUME NEW k \in 1..n, k - 1 \in T PROVE k \in T
    <3>1. k - 1 \in 0..n /\ k \in 0..n /\ s[k] \in X /\ f[k - 1] \in Seq(X)
      BY <1>1, <1>2
    <3>2. \A i : i \in 1..k <=> i \in 1..(k - 1) \/ i = k
      BY <1>1
    <3>3. {s[i] : i \in 1..k} = {s[i] : i \in 1..(k - 1)} \cup {s[k]}
      BY <3>2
    <3>4. P(k - 1)
      BY <2>2
    <3>5. CASE s[k] \in S
      <4>1. f[k] = Append(f[k - 1], s[k])
        BY <1>2, <3>5 DEF Keep
      <4>2. Ids(f[k]) = Ids(f[k - 1]) \cup {s[k]}
        BY <3>1, <4>1, IdsOfAppend
      <4> QED BY <3>1, <3>3, <3>4, <3>5, <4>2
    <3>6. CASE s[k] \notin S
      <4>1. f[k] = f[k - 1]
        BY <1>2, <3>6 DEF Keep
      <4> QED BY <3>1, <3>3, <3>4, <3>6, <4>1
    <3> QED BY <3>5, <3>6
  <2>3. P(n)
    <3> HIDE DEF P
    <3>1. 0..n \subseteq T
      <4> HIDE DEF T
      <4> QED BY <1>1, <2>1, <2>2, UpTo
    <3> QED BY <1>3, <3>1
  <2> QED BY <1>1, <2>3 DEF Ids
<1>5. ASSUME Ids(s) \subseteq S PROVE f[n] = s
  <2> DEFINE P(k) == Len(f[k]) = k /\ \A i \in 1..k : f[k][i] = s[i]
             T == {k \in 0..n : P(k)}
  <2>1. 0 \in T
    <3>1. \A i : i \notin 1..0
      OBVIOUS
    <3>2. Len(<<>>) = 0
      OBVIOUS
    <3> QED BY <1>2, <1>3, <3>1, <3>2
  <2>2. ASSUME NEW k \in 1..n, k - 1 \in T PROVE k \in T
    <3>1. k - 1 \in 0..n /\ k \in 0..n /\ s[k] \in X /\ s[k] \in S
      BY <1>1, <1>5 DEF Ids
    <3>2. f[k - 1] \in Seq(X) /\ f[k] = Append(f[k - 1], s[k])
      BY <1>2, <3>1 DEF Keep
    <3>3. Len(f[k - 1]) = k - 1 /\ \A i \in 1..(k - 1) : f[k - 1][i] = s[i]
      BY <2>2
    <3>4. Len(f[k]) = k /\ f[k][k] = s[k] /\ \A i \in 1..(k - 1) : f[k][i] = f[k - 1][i]
      BY <3>1, <3>2, <3>3
    <3>5. \A i : i \in 1..k <=> i \in 1..(k - 1) \/ i = k
      BY <1>1
    <3>6. P(k)
      BY <3>3, <3>4, <3>5
    <3> HIDE DEF P
    <3> QED BY <3>1, <3>6
  <2>3. P(n)
    <3> HIDE DEF P
    <3>1. 0..n \subseteq T
      <4> HIDE DEF T
      <4> QED BY <1>1, <2>1, <2>2, UpTo
    <3> QED BY <1>3, <3>1
  <2>4. f[n] \in Seq(X) /\ DOMAIN f[n] = 1..n
    BY <1>2, <1>3, <2>3
  <2> QED BY <1>1, <2>3, <2>4
<1>6. f[n] \in Seq(X)
  BY <1>2, <1>3
<1> QED BY <1>2, <1>4, <1>5, <1>6

LEMMA OfTwo ==
  ASSUME NEW a \in Int, NEW b \in Int
  PROVE  /\ Max({a, b}) = IF a >= b THEN a ELSE b
         /\ Min({a, b}) = IF a <= b THEN a ELSE b
<1>1. \E x \in {a, b} : \A y \in {a, b} : x >= y
  OBVIOUS
<1>2. Max({a, b}) \in {a, b} /\ \A y \in {a, b} : Max({a, b}) >= y
  BY <1>1 DEF Max
<1>3. \E x \in {a, b} : \A y \in {a, b} : x <= y
  OBVIOUS
<1>4. Min({a, b}) \in {a, b} /\ \A y \in {a, b} : Min({a, b}) <= y
  BY <1>3 DEF Min
<1> QED BY <1>2, <1>4

\* LIMIT .. OFFSET ..: the rows after the offset, up to the limit; fewer are the last ones.
LEMMA SliceIs ==
  ASSUME NEW X, NEW s \in Seq(X), NEW limit \in Nat, NEW off \in Nat
  PROVE  /\ Slice(s, limit, off) \in Seq(X)
         /\ \A p \in DOMAIN s : off < p /\ p <= off + limit => s[p] \in Ids(Slice(s, limit, off))
         /\ \A x \in Ids(Slice(s, limit, off)) : \E p \in DOMAIN s :
              p <= off + limit /\ s[p] = x
         /\ Len(Slice(s, limit, off)) < limit => Len(s) < off + limit
<1> DEFINE n == Len(s)
           rest == Max({0, n - off})
           m == Min({limit, rest})
           w == Slice(s, limit, off)
<1>1. n \in Nat /\ DOMAIN s = 1..n /\ \A i \in 1..n : s[i] \in X
  OBVIOUS
<1>2. w = [i \in 1..m |-> s[off + i]]
  BY DEF Slice
<1> HIDE DEF n, w
<1>3. n - off \in Int
  BY <1>1
<1>4. rest = IF 0 >= n - off THEN 0 ELSE n - off
  BY <1>3, OfTwo
<1>5. rest \in Nat /\ (rest = 0 \/ rest = n - off) /\ rest >= n - off
  BY <1>3, <1>4
<1> HIDE DEF rest
<1>6. m = IF limit <= rest THEN limit ELSE rest
  <2>1. rest \in Int /\ limit \in Int
    BY <1>5
  <2> QED BY <2>1, OfTwo
<1>7. m \in Nat /\ m <= limit /\ m <= rest /\ (m = limit \/ m = rest)
  BY <1>5, <1>6
<1> HIDE DEF m
<1>8. \A i \in 1..m : off + i \in 1..n /\ off + i <= off + limit
  BY <1>1, <1>5, <1>7
<1>9. w = [i \in 1..m |-> w[i]] /\ \A i \in 1..m : w[i] = s[off + i] /\ w[i] \in X
  BY <1>1, <1>2, <1>8
<1>10. w \in Seq(X) /\ Len(w) = m /\ DOMAIN w = 1..m
  BY <1>7, <1>9, IsSequence
<1>11. ASSUME NEW p \in DOMAIN s, off < p, p <= off + limit PROVE s[p] \in Ids(w)
  <2>1. p - off \in 1..m /\ off + (p - off) = p
    BY <1>1, <1>5, <1>7, <1>11
  <2> QED BY <1>9, <1>10, <2>1 DEF Ids
<1>12. ASSUME NEW x \in Ids(w) PROVE \E p \in DOMAIN s : p <= off + limit /\ s[p] = x
  <2>1. PICK i \in 1..m : w[i] = x
    BY <1>10 DEF Ids
  <2> QED BY <1>1, <1>8, <1>9, <2>1
<1>13. m < limit => n < off + limit
  BY <1>1, <1>5, <1>7
<1> QED BY <1>10, <1>11, <1>12, <1>13 DEF w, n

\* A sequence of members of Y.
LEMMA SeqOfIds ==
  ASSUME NEW X, NEW s \in Seq(X), NEW Y, Ids(s) \subseteq Y
  PROVE  s \in Seq(Y)
<1>1. Len(s) \in Nat /\ s = [i \in 1..Len(s) |-> s[i]] /\ \A i \in 1..Len(s) : s[i] \in Ids(s)
  BY DEF Ids
<1>2. \A i \in 1..Len(s) : s[i] \in Y
  BY <1>1
<1> QED BY <1>1, <1>2, IsSequence

\* The rows there are: each has its place in the order.
ServerInv ==
  /\ listing \in Seq(1..MaxRows)
  /\ \A i, j \in DOMAIN listing : listing[i] = listing[j] => i = j
  /\ \A i \in DOMAIN listing : listing[i] <= Len(listing)
  /\ Len(listing) <= MaxRows

\* Every search sees rows, of those there are.
LEMMA WindowIs ==
  ASSUME ServerInv, NEW search \in Searches, NEW off \in Nat
  PROVE  Window(search, off) \in Seq(1..MaxRows)
<1>1. listing \in Seq(1..MaxRows) /\ LimitOf[search] \in Nat
  BY ResultsAssumption, LimitOK DEF ResultsAssumption, ServerInv
<1>2. InOrder(search, off) \in Seq(1..MaxRows)
  BY <1>1, SliceIs DEF InOrder
<1>3. Drawn(search, off) \in Seq(1..MaxRows)
  <2> DEFINE ids == Draw[Len(listing)]
             m == IF ids = <<>> THEN 0 ELSE LimitOf[search]
             w == [i \in 1..m |-> ids[((off + i - 1) % Len(ids)) + 1]]
             once == [i \in DOMAIN w |-> IF \E j \in 1..(i - 1) : w[j] = w[i] THEN 0 ELSE w[i]]
  <2>1. w \in Seq(Nat)
    <3>1. Len(listing) \in 0..MaxRows
      BY <1>1, ResultsAssumption DEF ServerInv, ResultsAssumption
    <3>2. ids \in Seq(Nat)
      BY <3>1, ResultsAssumption DEF ResultsAssumption
    <3> HIDE DEF ids
    <3>3. Len(ids) \in Nat /\ (ids # <<>> => Len(ids) > 0) /\ m \in Nat /\ (m # 0 => ids # <<>>)
      BY <1>1, <3>2
    <3> HIDE DEF m
    <3>4. \A i \in 1..m : ((off + i - 1) % Len(ids)) + 1 \in 1..Len(ids)
      <4> SUFFICES ASSUME NEW i \in 1..m PROVE ((off + i - 1) % Len(ids)) + 1 \in 1..Len(ids)
        OBVIOUS
      <4>1. Len(ids) \in Nat /\ Len(ids) > 0 /\ off + i - 1 \in Nat
        BY <3>3
      <4> QED BY <4>1
    <3>5. \A i \in 1..m : ids[((off + i - 1) % Len(ids)) + 1] \in Nat
      BY <3>2, <3>4
    <3>6. w = [i \in 1..m |-> w[i]] /\ \A i \in 1..m : w[i] \in Nat
      BY <3>5
    <3> HIDE DEF w
    <3> QED BY <3>3, <3>6, IsSequence
  <2>2. Draws(LimitOf[search], off) = Only(once, RowIds)
    BY DEF Draws
  <2>3. once \in Seq(Nat)
    <3> HIDE DEF w
    <3>1. DOMAIN w = 1..Len(w) /\ Len(w) \in Nat
      BY <2>1
    <3>2. once = [i \in 1..Len(w) |-> once[i]]
      BY <3>1
    <3>3. \A i \in 1..Len(w) : w[i] \in Nat
      BY <2>1
    <3>4. \A i \in 1..Len(w) : once[i] \in {0, w[i]}
      BY <3>1
    <3>5. \A i \in 1..Len(w) : once[i] \in Nat
      <4> HIDE DEF once
      <4> QED BY <3>3, <3>4
    <3> HIDE DEF once
    <3> QED BY <3>1, <3>2, <3>5, IsSequence
  <2> HIDE DEF once
  <2>4. Draws(LimitOf[search], off) \in Seq(Nat)
    BY <2>2, <2>3, OnlyIs
  <2>5. Drawn(search, off) \in Seq(Nat) /\ Ids(Drawn(search, off)) \subseteq Listed
    BY <2>4, OnlyIs DEF Drawn
  <2>6. Listed \subseteq 1..MaxRows
    <3>1. Listed = Ids(listing)
      BY DEF Listed, Ids
    <3> QED BY <1>1, <3>1, IdsIn
  <2> QED BY <2>5, <2>6, SeqOfIds
<1> QED BY <1>2, <1>3 DEF Window

LEMMA SentIs ==
  ASSUME NEW w \in Seq(1..MaxRows), NEW failed, NEW hidden
  PROVE  /\ Sent(w, failed, hidden) \in Seq(1..MaxRows)
         /\ Ids(Sent(w, failed, hidden)) = Ids(w) \ (failed \cup hidden)
<1>1. Ids(w) \subseteq 1..MaxRows
  BY IdsIn
<1>2. 1..MaxRows \subseteq RowIds
  BY DEF RowIds
<1>3. /\ Sent(w, failed, hidden) \in Seq(1..MaxRows)
      /\ Ids(Sent(w, failed, hidden)) = Ids(w) \cap (RowIds \ (failed \cup hidden))
  BY OnlyIs DEF Sent
<1> QED BY <1>1, <1>2, <1>3

\* With nothing lost, a page that does not promise more ends where the rows end.
LEMMA ShortPage ==
  ASSUME ServerInv, NEW search \in Searches, NEW off \in Nat, Ordered(search),
         ~More(search, Window(search, off), {})
  PROVE  Len(listing) < off + LimitOf[search]
<1> DEFINE w == Window(search, off)
<1>1. w = Slice(listing, LimitOf[search], off)
  BY DEF Window, InOrder
<1>2. w \in Seq(1..MaxRows)
  BY WindowIs
<1> HIDE DEF w
<1>3. Ids(w) \subseteq RowIds \ {}
  <2>1. Ids(w) \subseteq 1..MaxRows
    BY <1>2, IdsIn
  <2>2. 1..MaxRows \subseteq RowIds
    BY DEF RowIds
  <2> QED BY <2>1, <2>2
<1>4. Counted(w, {}) = w
  BY <1>2, <1>3, OnlyIs DEF Counted
<1>5. Len(w) < LimitOf[search]
  <2>1. ~(Len(w) >= LimitOf[search])
    BY <1>4 DEF More, w
  <2>2. Len(w) \in Nat /\ LimitOf[search] \in Nat
    BY <1>2, LimitOK
  <2> QED BY <2>1, <2>2
<1>6. listing \in Seq(1..MaxRows) /\ LimitOf[search] \in Nat
  BY LimitOK DEF ServerInv
<1> QED BY <1>1, <1>5, <1>6, SliceIs

\* A row put in somewhere: those from there on move up by one.
LEMMA InsertIs ==
  ASSUME NEW X, NEW s \in Seq(X), NEW i \in 1..(Len(s) + 1), NEW e \in X
  PROVE  /\ InsertAt(s, i, e) \in Seq(X) /\ Len(InsertAt(s, i, e)) = Len(s) + 1
         /\ InsertAt(s, i, e)[i] = e
         /\ \A j \in DOMAIN s : j < i => InsertAt(s, i, e)[j] = s[j]
         /\ \A j \in DOMAIN s : j >= i => InsertAt(s, i, e)[j + 1] = s[j]
<1> DEFINE n == Len(s)
           a == SubSeq(s, 1, i - 1)
           b == SubSeq(s, i, n)
           c == a \o <<e>>
           t == c \o b
<1>1. n \in Nat /\ DOMAIN s = 1..n /\ \A j \in 1..n : s[j] \in X
  OBVIOUS
<1>2. i \in Nat \ {0} /\ i <= n + 1
  BY <1>1
<1>3. a \in Seq(X) /\ Len(a) = i - 1 /\ \A j \in 1..(i - 1) : a[j] = s[j]
  BY <1>1, <1>2
<1>4. b \in Seq(X) /\ Len(b) = (n + 1) - i /\ \A j \in 1..((n + 1) - i) : b[j] = s[j + (i - 1)]
  BY <1>1, <1>2
<1>5. t = InsertAt(s, i, e)
  BY DEF InsertAt
<1> HIDE DEF a, b, n
<1>6. /\ c \in Seq(X) /\ Len(c) = i
      /\ c[i] = e /\ \A j \in 1..(i - 1) : c[j] = s[j]
  BY <1>2, <1>3
<1> HIDE DEF c
<1>7. t \in Seq(X) /\ Len(t) = n + 1
  <2>1. t \in Seq(X)
    BY <1>4, <1>6
  <2>2. Len(t) = Len(c) + Len(b)
    <3>1. c \in Seq(X) /\ b \in Seq(X)
      BY <1>4, <1>6
    <3> QED BY <3>1
  <2> HIDE DEF t
  <2>3. Len(t) = n + 1
    BY <1>1, <1>2, <1>4, <1>6, <2>2
  <2> QED BY <2>1, <2>3
<1>8. t[i] = e /\ \A j \in 1..(i - 1) : t[j] = s[j]
  BY <1>2, <1>4, <1>6
<1>9. \A j \in i..n : t[j + 1] = s[j]
  <2> TAKE j \in i..n
  <2>1. j - (i - 1) \in 1..((n + 1) - i) /\ j + 1 = i + (j - (i - 1)) /\ (j - (i - 1)) + (i - 1) = j
    BY <1>1, <1>2
  <2>2. b[j - (i - 1)] = s[j]
    BY <1>4, <2>1
  <2>3. t[j + 1] = b[j - (i - 1)]
    BY <1>2, <1>4, <1>6, <2>1
  <2> QED BY <2>2, <2>3
<1>10. \A j \in DOMAIN s : (j < i => j \in 1..(i - 1)) /\ (j >= i => j \in i..n)
  BY <1>1, <1>2
<1> HIDE DEF t
<1>11. \A j \in DOMAIN s : (j < i => t[j] = s[j]) /\ (j >= i => t[j + 1] = s[j])
  BY <1>8, <1>9, <1>10
<1> QED BY <1>5, <1>7, <1>8, <1>11 DEF n

LEMMA ServerInit == Init => ServerInv
<1> SUFFICES ASSUME Init PROVE ServerInv
  OBVIOUS
<1>1. /\ listing = Start /\ Start \in Seq(1..Len(Start)) /\ Len(Start) <= MaxRows /\ MaxRows \in Nat
      /\ \A i, j \in DOMAIN Start : Start[i] = Start[j] => i = j
  BY ResultsAssumption DEF Init, ResultsAssumption
<1>2. Len(Start) \in Nat /\ DOMAIN Start = 1..Len(Start)
  BY <1>1
<1>3. \A i \in DOMAIN Start : Start[i] \in 1..Len(Start)
  BY <1>1
<1>4. 1..Len(Start) \subseteq 1..MaxRows
  BY <1>1, <1>2
<1>5. Start \in Seq(1..MaxRows)
  <2>1. Ids(Start) \subseteq 1..MaxRows
    BY <1>3, <1>4 DEF Ids
  <2> QED BY <1>1, <2>1, SeqOfIds
<1>6. \A i \in DOMAIN Start : Start[i] <= Len(Start)
  BY <1>2, <1>3
<1> QED BY <1>1, <1>5, <1>6 DEF ServerInv

\* What AddRow does to the order: every row keeps its place among the others.
LEMMA AddRowMoves ==
  ASSUME ServerInv, AddRow
  PROVE  /\ ServerInv'
         /\ Len(listing') = Len(listing) + 1
         /\ \E i \in 1..(Len(listing) + 1) :
              /\ listing'[i] = Len(listing) + 1
              /\ \A p \in DOMAIN listing : p < i => listing'[p] = listing[p]
              /\ \A p \in DOMAIN listing : p >= i => listing'[p + 1] = listing[p]
<1> DEFINE n == Len(listing)
<1>1. PICK i \in 1..(n + 1) : n < MaxRows /\ listing' = InsertAt(listing, i, n + 1)
  BY DEF AddRow
<1>2. /\ listing \in Seq(1..MaxRows) /\ MaxRows \in Nat
      /\ \A j, k \in DOMAIN listing : listing[j] = listing[k] => j = k
      /\ \A j \in DOMAIN listing : listing[j] <= n
  BY ResultsAssumption DEF ServerInv, ResultsAssumption
<1>3. n \in Nat /\ DOMAIN listing = 1..n /\ n + 1 \in 1..MaxRows
  BY <1>1, <1>2
<1>4. /\ listing' \in Seq(1..MaxRows) /\ Len(listing') = n + 1
      /\ listing'[i] = n + 1
      /\ \A p \in DOMAIN listing : p < i => listing'[p] = listing[p]
      /\ \A p \in DOMAIN listing : p >= i => listing'[p + 1] = listing[p]
  <2> DEFINE R == 1..MaxRows
             e == n + 1
             t == InsertAt(listing, i, e)
  <2>1. listing \in Seq(R) /\ i \in 1..(Len(listing) + 1) /\ e \in R
    BY <1>2, <1>3
  <2> HIDE DEF R, e
  <2>2. /\ t \in Seq(R) /\ Len(t) = Len(listing) + 1
        /\ t[i] = e
        /\ \A p \in DOMAIN listing : p < i => t[p] = listing[p]
        /\ \A p \in DOMAIN listing : p >= i => t[p + 1] = listing[p]
    BY <2>1, InsertIs
  <2> HIDE DEF t
  <2>3. listing' = t
    BY <1>1 DEF t, e
  <2> QED BY <2>2, <2>3 DEF R, e
<1> HIDE DEF n
<1>5. DOMAIN listing' = 1..(n + 1)
  BY <1>4
<1>6. \A q \in 1..(n + 1) : \/ q = i /\ listing'[q] = n + 1
                            \/ q < i /\ q \in 1..n /\ listing'[q] = listing[q]
                            \/ q > i /\ q - 1 \in 1..n /\ listing'[q] = listing[q - 1]
  <2> TAKE q \in 1..(n + 1)
  <2>1. CASE q < i
    <3>1. q \in 1..n
      BY <1>3, <2>1
    <3> QED BY <1>3, <1>4, <2>1, <3>1
  <2>2. CASE q > i
    <3>1. q - 1 \in 1..n /\ q - 1 >= i /\ (q - 1) + 1 = q
      BY <1>3, <2>2
    <3>2. listing'[(q - 1) + 1] = listing[q - 1]
      BY <1>3, <1>4, <3>1
    <3> QED BY <2>2, <3>1, <3>2
  <2>3. q < i \/ q > i \/ q = i
    BY <1>3
  <2> QED BY <1>4, <2>1, <2>2, <2>3
<1>7. \A p \in 1..n : listing[p] \in Nat /\ listing[p] <= n /\ listing[p] # n + 1
  BY <1>2, <1>3
<1>8. \A q \in DOMAIN listing' : listing'[q] <= Len(listing')
  <2> TAKE q \in DOMAIN listing'
  <2>1. listing'[q] = n + 1 \/ \E p \in 1..n : listing'[q] = listing[p]
    BY <1>5, <1>6
  <2> QED BY <1>3, <1>4, <1>7, <2>1
<1>9. ASSUME NEW q \in DOMAIN listing', NEW r \in DOMAIN listing', listing'[q] = listing'[r]
      PROVE  q = r
  <2>1. q \in 1..(n + 1) /\ r \in 1..(n + 1)
    BY <1>5
  <2>2. CASE q = i
    BY <1>6, <1>7, <1>9, <2>1, <2>2
  <2>3. CASE r = i
    BY <1>6, <1>7, <1>9, <2>1, <2>3
  <2>4. CASE q # i /\ r # i
    <3>1. \/ q < i /\ q \in 1..n /\ listing'[q] = listing[q]
          \/ q > i /\ q - 1 \in 1..n /\ listing'[q] = listing[q - 1]
      BY <1>6, <2>1, <2>4
    <3>2. \/ r < i /\ r \in 1..n /\ listing'[r] = listing[r]
          \/ r > i /\ r - 1 \in 1..n /\ listing'[r] = listing[r - 1]
      BY <1>6, <2>1, <2>4
    <3>3. \A j, k \in 1..n : listing[j] = listing[k] => j = k
      BY <1>2, <1>3
    <3>4. q \in Nat /\ r \in Nat /\ i \in Nat
      BY <1>3, <2>1
    <3>5. CASE q < i /\ r < i
      BY <1>9, <3>1, <3>2, <3>3, <3>4, <3>5
    <3>6. CASE q > i /\ r > i
      <4>1. q - 1 = r - 1
        BY <1>9, <3>1, <3>2, <3>3, <3>4, <3>6
      <4> QED BY <3>4, <4>1
    <3>7. CASE q < i /\ r > i
      <4>1. q = r - 1
        BY <1>9, <3>1, <3>2, <3>3, <3>4, <3>7
      <4> QED BY <3>4, <3>7, <4>1
    <3>8. CASE q > i /\ r < i
      <4>1. q - 1 = r
        BY <1>9, <3>1, <3>2, <3>3, <3>4, <3>8
      <4> QED BY <3>4, <3>8, <4>1
    <3> QED BY <3>1, <3>2, <3>5, <3>6, <3>7, <3>8
  <2> QED BY <2>2, <2>3, <2>4
<1>10. ServerInv'
  BY <1>1, <1>2, <1>3, <1>4, <1>8, <1>9 DEF ServerInv
<1> QED BY <1>4, <1>10 DEF n

\* Nobody else touches the rows.
LEMMA ServerNext == ServerInv /\ [Next]_vars => ServerInv'
<1> SUFFICES ASSUME ServerInv, [Next]_vars PROVE ServerInv'
  OBVIOUS
<1>1. CASE UNCHANGED listing
  BY <1>1 DEF ServerInv
<1>2. CASE AddRow
  BY <1>2, AddRowMoves
<1>3. UNCHANGED listing \/ AddRow
  BY DEF Next, vars, ParamsEffect, SentinelEffect, Scroll, Answer, Fail, Navigate, PickPicture, Resize
<1> QED BY <1>1, <1>2, <1>3

-----------------------------------------------------------------------------
(***************************************************************************)
(* The layout.                                                             *)
(***************************************************************************)

LayoutInv ==
  /\ columns \in Seq(Seq(1..MaxRows)) /\ columns # <<>>
  /\ shown \in Seq(1..MaxRows)
  /\ \A row \in 1..MaxRows : Times(row, FlattenSeq(columns)) = Covered(row, shown)

LEMMA HeightOK == \A row \in 1..MaxRows : Height[row] \in Nat
BY ResultsAssumption DEF ResultsAssumption

LEMMA NothingCovered == \A x : Covered(x, <<>>) = 0
<1>1. \A x : Places(x, <<>>) = {}
  BY DEF Places
<1>2. \A x : Times(x, <<>>) = Cardinality(Places(x, <<>>))
  BY DEF Times, Places
<1> QED BY <1>1, <1>2, FS_EmptySet DEF Covered

LEMMA LayoutInit == Init => LayoutInv
<1> SUFFICES ASSUME Init PROVE LayoutInv
  OBVIOUS
<1>1. columns = Empty(1) /\ shown = <<>>
  BY DEF Init
<1>2. 1 \in Nat \ {0} /\ <<>> \in Seq(1..MaxRows)
  OBVIOUS
<1>3. /\ Empty(1) \in Seq(Seq(1..MaxRows)) /\ Empty(1) # <<>>
      /\ \A x : Times(x, FlattenSeq(Empty(1))) = 0
  BY <1>2, EmptyHolds
<1> QED BY <1>1, <1>2, <1>3, NothingCovered DEF LayoutInv

LEMMA ParamsLayout ==
  ASSUME LayoutInv, ParamsEffect
  PROVE  LayoutInv'
<1> DEFINE n == Len(columns)
<1>1. columns' = Empty(n) /\ shown' = <<>>
  BY DEF ParamsEffect
<1>2. n \in Nat \ {0} /\ <<>> \in Seq(1..MaxRows)
  BY DEF LayoutInv
<1> HIDE DEF n
<1>3. /\ Empty(n) \in Seq(Seq(1..MaxRows)) /\ Empty(n) # <<>>
      /\ \A x : Times(x, FlattenSeq(Empty(n))) = 0
  BY <1>2, EmptyHolds
<1> QED BY <1>1, <1>2, <1>3, NothingCovered DEF LayoutInv

\* Rows are merged.
LEMMA MergeLayout ==
  ASSUME LayoutInv, NEW rows \in Seq(1..MaxRows),
         shown' = shown \o rows, columns' = PlaceAll(columns, rows)
  PROVE  LayoutInv'
<1> DEFINE R == 1..MaxRows
<1>1. columns \in Seq(Seq(R)) /\ columns # <<>> /\ shown \in Seq(R) /\ rows \in Seq(R)
  BY DEF LayoutInv
<1>2. \A y \in R : Height[y] \in Nat
  BY HeightOK
<1>3. \A row \in R : Times(row, FlattenSeq(columns)) = Covered(row, shown)
  BY DEF LayoutInv
<1> HIDE DEF R
<1>4. /\ columns' \in Seq(Seq(R)) /\ Len(columns') = Len(columns)
      /\ \A x : Times(x, FlattenSeq(columns')) = Times(x, FlattenSeq(columns)) + Covered(x, rows)
  BY <1>1, <1>2, PlaceAllCounts
<1>5. columns' # <<>>
  BY <1>1, <1>4
<1>6. shown' \in Seq(R)
  BY <1>1
<1>7. \A x : Covered(x, shown') = Covered(x, shown) + Covered(x, rows)
  <2> TAKE x
  <2>1. Times(x, shown \o rows) = Times(x, shown) + Times(x, rows)
    BY <1>1, TimesOfConcat
  <2> QED BY <2>1 DEF Covered
<1>8. \A row \in R : Times(row, FlattenSeq(columns')) = Covered(row, shown')
  BY <1>3, <1>4, <1>7
<1> QED BY <1>4, <1>5, <1>6, <1>8 DEF LayoutInv, R

LEMMA ResizeLayout ==
  ASSUME LayoutInv, NEW n \in ColumnCounts, Resize(n)
  PROVE  LayoutInv'
<1> DEFINE R == 1..MaxRows
<1>1. columns' = Relayout(columns, n) /\ shown' = shown
  BY DEF Resize
<1>2. n \in Nat \ {0}
  BY ResultsAssumption DEF ResultsAssumption
<1>3. columns \in Seq(Seq(R)) /\ shown \in Seq(R)
      /\ \A row \in R : Times(row, FlattenSeq(columns)) = Covered(row, shown)
  BY DEF LayoutInv
<1>4. \A y \in R : Height[y] \in Nat
  BY HeightOK
<1> HIDE DEF R
<1>5. /\ Relayout(columns, n) \in Seq(Seq(R)) /\ Len(Relayout(columns, n)) = n
      /\ \A x : Times(x, FlattenSeq(Relayout(columns, n)))
                  = IF x \in Coverless THEN 0 ELSE Times(x, FlattenSeq(columns))
  BY <1>2, <1>3, <1>4, RelayoutKeepsAll
<1>6. Relayout(columns, n) # <<>>
  BY <1>2, <1>5
<1>7. \A row \in R : Times(row, FlattenSeq(Relayout(columns, n))) = Covered(row, shown)
  BY <1>3, <1>5 DEF Covered
<1> QED BY <1>1, <1>3, <1>5, <1>6, <1>7 DEF LayoutInv, R

\* What an answer that is not stale does.
LEMMA AnswerMerges ==
  ASSUME Inv, ServerInv, NEW q \in inflight, Answer(q), ~Stale(q)
  PROVE  /\ q.search = seen /\ q.off = NextOff /\ seen \in Searches /\ q.off \in Nat
         /\ q.picture = PicFor(seen)
         /\ UNCHANGED <<url, seen, picture, listing, error>>
         /\ inflight' = inflight \ {q}
         /\ pages' = Append(pages, [search |-> q.search, picture |-> q.picture, off |-> q.off])
         /\ base' = IF q.off = 0 /\ Ordered(q.search) THEN listing ELSE base
         /\ loading' = FALSE
         /\ \E w \in {Window(seen, NextOff)} : \E failed \in Failures(seen, w), hidden \in Hidden(seen) :
              /\ w \in Seq(1..MaxRows)
              /\ Sent(w, failed, hidden) \in Seq(1..MaxRows)
              /\ shown' = shown \o Sent(w, failed, hidden)
              /\ columns' = PlaceAll(columns, Sent(w, failed, hidden))
              /\ hasMore' = More(seen, w, failed)
              /\ lost' = IF Ordered(seen) THEN lost \cup failed ELSE lost
<1>1. url = seen /\ UNCHANGED <<url, seen, picture, listing, error>> /\ inflight' = inflight \ {q}
  BY DEF Answer, Quiet, client
<1>2. q.id = reqId /\ q.search = seen /\ q.off = NextOff /\ q.picture = PicFor(seen)
  BY <1>1 DEF Stale, Inv, NewestFits
<1>3. q \in Requests
  BY DEF Inv, TypeOK
<1>4. q.off \in Nat /\ q.search \in Searches
  BY <1>3 DEF Requests
<1>5. Window(seen, NextOff) \in Seq(1..MaxRows)
  BY <1>2, <1>4, WindowIs
<1>6. PICK w \in {Window(q.search, q.off)} :
        \E failed \in Failures(q.search, w), hidden \in Hidden(q.search) :
        LET rows == Sent(w, failed, hidden)
        IN  /\ shown' = shown \o rows
            /\ pages' = Append(pages, [search |-> q.search, picture |-> q.picture, off |-> q.off])
            /\ columns' = PlaceAll(columns, rows)
            /\ hasMore' = More(q.search, w, failed)
            /\ loading' = FALSE
            /\ base' = IF q.off = 0 /\ Ordered(q.search) THEN listing ELSE base
            /\ lost' = IF Ordered(q.search) THEN lost \cup failed ELSE lost
  BY DEF Answer
<1>7. w \in {Window(seen, NextOff)} /\ w \in Seq(1..MaxRows)
  BY <1>2, <1>5
<1>8. PICK failed \in Failures(seen, w), hidden \in Hidden(seen) :
            /\ shown' = shown \o Sent(w, failed, hidden)
            /\ pages' = Append(pages, [search |-> q.search, picture |-> q.picture, off |-> q.off])
            /\ columns' = PlaceAll(columns, Sent(w, failed, hidden))
            /\ hasMore' = More(seen, w, failed)
            /\ loading' = FALSE
            /\ base' = IF q.off = 0 /\ Ordered(q.search) THEN listing ELSE base
            /\ lost' = IF Ordered(seen) THEN lost \cup failed ELSE lost
  BY <1>2, <1>6
<1>9. Sent(w, failed, hidden) \in Seq(1..MaxRows)
  BY <1>7, SentIs
<1> QED BY <1>1, <1>2, <1>4, <1>7, <1>8, <1>9

LEMMA LayoutNext == Inv /\ ServerInv /\ LayoutInv /\ [Next]_vars => LayoutInv'
<1> SUFFICES ASSUME Inv, ServerInv, LayoutInv, [Next]_vars PROVE LayoutInv'
  OBVIOUS
<1>1. CASE UNCHANGED <<columns, shown>>
  BY <1>1 DEF LayoutInv
<1>2. CASE ParamsEffect
  BY <1>2, ParamsLayout
<1>3. ASSUME NEW q \in inflight, Answer(q) PROVE LayoutInv'
  <2>1. CASE Stale(q)
    <3>1. UNCHANGED <<columns, shown>>
      BY <1>3, <2>1 DEF Answer, view
    <3> QED BY <1>1, <3>1
  <2>2. CASE ~Stale(q)
    <3>1. \E rows \in Seq(1..MaxRows) : shown' = shown \o rows /\ columns' = PlaceAll(columns, rows)
      BY <1>3, <2>2, AnswerMerges
    <3> QED BY <3>1, MergeLayout
  <2> QED BY <2>1, <2>2
<1>4. ASSUME NEW n \in ColumnCounts, Resize(n) PROVE LayoutInv'
  BY <1>4, ResizeLayout
<1>5. \/ UNCHANGED <<columns, shown>> \/ ParamsEffect
      \/ \E q \in inflight : Answer(q)
      \/ \E n \in ColumnCounts : Resize(n)
  BY DEF Next, vars, view, SentinelEffect, AddRow, Scroll, Fail, Navigate, PickPicture
<1> QED BY <1>1, <1>2, <1>3, <1>4, <1>5

LEMMA LayoutHolds == Spec => [](Inv /\ ServerInv /\ LayoutInv)
<1>1. Init => Inv /\ ServerInv /\ LayoutInv
  BY InitInv, ServerInit, LayoutInit
<1>2. Inv /\ ServerInv /\ LayoutInv /\ [Next]_vars => (Inv /\ ServerInv /\ LayoutInv)'
  BY NextInv, ServerNext, LayoutNext
<1> QED BY <1>1, <1>2, PTL DEF Spec

LEMMA LayoutKept == ServerInv /\ LayoutInv => LayoutKeepsAll
<1> SUFFICES ASSUME ServerInv, LayoutInv, NEW row \in Listed
             PROVE  Times(row, FlattenSeq(columns)) = IF row \in Coverless THEN 0 ELSE Times(row, shown)
  BY DEF LayoutKeepsAll
<1>1. listing \in Seq(1..MaxRows) /\ Listed = Ids(listing)
  BY DEF ServerInv, Listed, Ids
<1>2. row \in 1..MaxRows
  BY <1>1, IdsIn
<1> QED BY <1>2 DEF LayoutInv, Covered

\* Whatever is searched and however often the window is resized, the columns hold every shown
\* item exactly as often as it was merged, but posts without a cover (the width effect,
\* place_post, place_image).
THEOREM LayoutAlwaysKeepsAll == Spec => []LayoutKeepsAll
BY LayoutHolds, LayoutKept, PTL

-----------------------------------------------------------------------------
(***************************************************************************)
(* Paging.  The rows of `base` keep their order in `listing`, and move     *)
(* only up: what an OFFSET has passed was shown, lost or left out.         *)
(***************************************************************************)

\* What has been dealt with.
Passed == ShownIds \cup lost \cup LeftOut(seen)

\* The rows there were are rows still, in their order.
BaseInv ==
  /\ base # <<>> => seen # None /\ pages # <<>> /\ Ordered(seen)
  /\ pages = <<>> => shown = <<>>
  /\ \A i \in DOMAIN base : \E p \in DOMAIN listing : listing[p] = base[i]
  /\ \A i, j \in DOMAIN base, p, q \in DOMAIN listing :
       i < j /\ listing[p] = base[i] /\ listing[q] = base[j] => p < q

\* Those up to the next offset have been dealt with.
ReachedInv ==
  \A i \in DOMAIN base, p \in DOMAIN listing :
    listing[p] = base[i] /\ p <= NextOff => base[i] \in Passed

EndInv ==
  ~loading /\ ~hasMore /\ ~error /\ lost = {} =>
    \A i \in DOMAIN base : base[i] \in ShownIds \cup LeftOut(seen)

\* A search by picture has a picture, once it is sent.
PictureInv ==
  /\ \A q \in inflight : ModeOf[q.search] = "picture" => q.picture # None
  /\ pages # <<>> /\ ModeOf[seen] = "picture" => picture # None

PagingInv ==
  /\ BaseInv
  /\ ReachedInv
  /\ NothingSkipped
  /\ EndInv
  /\ PictureInv

\* With no rows to account for, there is nothing to show.
LEMMA NoBase ==
  ASSUME base' = <<>>, pages' = <<>> => shown' = <<>>, PictureInv'
  PROVE  PagingInv'
<1>1. DOMAIN base' = {}
  OBVIOUS
<1> QED BY <1>1 DEF PagingInv, BaseInv, ReachedInv, NothingSkipped, EndInv

LEMMA PagingInit == Init => PagingInv
<1> SUFFICES ASSUME Init PROVE PagingInv
  OBVIOUS
<1>1. base = <<>> /\ pages = <<>> /\ shown = <<>> /\ inflight = {}
  BY DEF Init
<1>2. DOMAIN base = {}
  BY <1>1
<1> QED BY <1>1, <1>2 DEF PagingInv, BaseInv, ReachedInv, NothingSkipped, EndInv, PictureInv

\* Neither the view nor the rows change.
LEMMA SamePaging ==
  ASSUME PagingInv,
         UNCHANGED <<pages, shown, base, lost, listing, seen>>,
         inflight' \subseteq inflight,
         picture' = picture \/ picture' # None,
         ~loading' /\ ~hasMore' /\ ~error' => ~loading /\ ~hasMore /\ ~error
  PROVE  PagingInv'
<1>1. NextOff' = NextOff /\ Passed' = Passed /\ ShownIds' = ShownIds
  BY DEF NextOff, Passed, ShownIds
<1>2. BaseInv'
  BY DEF PagingInv, BaseInv
<1>3. ReachedInv'
  BY <1>1 DEF PagingInv, ReachedInv
<1>4. NothingSkipped'
  BY <1>1 DEF PagingInv, NothingSkipped
<1>5. EndInv'
  BY <1>1 DEF PagingInv, EndInv
<1>6. PictureInv'
  BY DEF PagingInv, PictureInv
<1> QED BY <1>2, <1>3, <1>4, <1>5, <1>6 DEF PagingInv

\* A request by picture carries one.
LEMMA LoadPagePicture ==
  ASSUME PictureInv, NEW search, NEW off, LoadPage(search, off)
  PROVE  \A q \in inflight' : ModeOf[q.search] = "picture" => q.picture # None
<1> DEFINE pic == IF ModeOf[search] = "picture" THEN picture ELSE None
           q == [id |-> reqId + 1, search |-> search, picture |-> pic, off |-> off]
<1>1. \/ inflight' = inflight
      \/ inflight' = inflight \cup {q} /\ ~(ModeOf[search] = "picture" /\ picture = None)
  BY DEF LoadPage
<1>2. q.search = search /\ q.picture = pic
  OBVIOUS
<1> HIDE DEF q
<1> QED BY <1>1, <1>2 DEF PictureInv

LEMMA ParamsPaging ==
  ASSUME PagingInv, ParamsEffect
  PROVE  PagingInv'
<1>1. base' = <<>> /\ pages' = <<>> /\ shown' = <<>> /\ LoadPage(url, 0)
  BY DEF ParamsEffect
<1>2. \A q \in inflight' : ModeOf[q.search] = "picture" => q.picture # None
  BY <1>1, LoadPagePicture DEF PagingInv
<1>3. PictureInv'
  BY <1>1, <1>2 DEF PictureInv
<1> QED BY <1>1, <1>3, NoBase

LEMMA SentinelPaging ==
  ASSUME Inv, PagingInv, SentinelEffect
  PROVE  PagingInv'
<1>1. /\ UNCHANGED <<pages, shown, base, lost, listing, seen, picture, url>>
      /\ WantsMore /\ LoadPage(url, offset + LimitOf[url])
  BY DEF SentinelEffect, client, view
<1>2. url = seen /\ seen # None
  BY <1>1, ResultsAssumption DEF Inv, EffectsWait, TypeOK, ResultsAssumption
<1>3. pages # <<>>
  BY <1>1, <1>2 DEF WantsMore, Inv, OffsetFits
<1>4. ~(ModeOf[url] = "picture" /\ picture = None)
  BY <1>2, <1>3 DEF PagingInv, PictureInv
<1>5. loading' = TRUE
  BY <1>1, <1>4 DEF LoadPage
<1>6. \A q \in inflight' : ModeOf[q.search] = "picture" => q.picture # None
  BY <1>1, LoadPagePicture DEF PagingInv
<1>7. NextOff' = NextOff /\ Passed' = Passed /\ ShownIds' = ShownIds
  BY <1>1 DEF NextOff, Passed, ShownIds
<1>8. BaseInv' /\ EndInv'
  BY <1>1, <1>5 DEF PagingInv, BaseInv, EndInv
<1>9. ReachedInv' /\ NothingSkipped'
  BY <1>1, <1>7 DEF PagingInv, ReachedInv, NothingSkipped
<1>10. PictureInv'
  BY <1>1, <1>6 DEF PagingInv, PictureInv
<1> QED BY <1>8, <1>9, <1>10 DEF PagingInv

LEMMA NextOffNat ==
  ASSUME Inv
  PROVE  /\ NextOff \in Nat
         /\ pages # <<>> => NextOff > 0 /\ seen \in Searches
<1>1. pages \in Seq(Pages)
  BY DEF Inv, TypeOK
<1>2. CASE pages = <<>>
  BY <1>2 DEF NextOff
<1>3. CASE pages # <<>>
  <2>1. Len(pages) \in DOMAIN pages /\ 1 \in DOMAIN pages
    BY <1>1, <1>3
  <2>2. pages[Len(pages)] \in Pages /\ pages[1] \in Pages
    BY <1>1, <2>1
  <2>3. pages[Len(pages)].off \in Nat /\ seen \in Searches
    BY <2>1, <2>2 DEF Pages, Inv, PagesOfOneSearch
  <2>4. LimitOf[seen] \in Nat \ {0}
    BY <2>3, LimitOK
  <2>5. NextOff = pages[Len(pages)].off + LimitOf[seen]
    BY <1>3 DEF NextOff
  <2> QED BY <2>3, <2>4, <2>5
<1> QED BY <1>2, <1>3

LEMMA AddRowPaging ==
  ASSUME Inv, ServerInv, PagingInv, AddRow
  PROVE  PagingInv'
<1> DEFINE n == Len(listing)
<1>1. UNCHANGED <<url, seen, picture, pages, shown, base, lost, inflight, loading, hasMore, error>>
  BY DEF AddRow, client, page, view
<1>2. NextOff' = NextOff /\ Passed' = Passed /\ ShownIds' = ShownIds
  BY <1>1 DEF NextOff, Passed, ShownIds
<1>3. PICK i \in 1..(n + 1) :
        /\ listing'[i] = n + 1
        /\ \A p \in DOMAIN listing : p < i => listing'[p] = listing[p]
        /\ \A p \in DOMAIN listing : p >= i => listing'[p + 1] = listing[p]
  BY AddRowMoves
<1>4. /\ ServerInv' /\ Len(listing') = n + 1
  BY AddRowMoves
<1>5. n \in Nat /\ DOMAIN listing = 1..n
  BY DEF ServerInv
<1>6. DOMAIN listing' = 1..(n + 1)
  BY <1>4, <1>5 DEF ServerInv
<1> HIDE DEF n
<1>7. \A p \in 1..n : \E q \in 1..(n + 1) : p <= q /\ listing'[q] = listing[p]
  <2> TAKE p \in 1..n
  <2>1. CASE p < i
    BY <1>3, <1>5, <2>1
  <2>2. CASE p >= i
    BY <1>3, <1>5, <2>2
  <2> QED BY <1>5, <2>1, <2>2
\* A row of base that is at q now was at q or just below.
<1>8. ASSUME NEW q \in 1..(n + 1), NEW k \in DOMAIN base, listing'[q] = base[k]
      PROVE  \E p \in 1..n : listing[p] = base[k] /\ ((p = q /\ p < i) \/ (p + 1 = q /\ p >= i))
  <2>1. PICK p \in 1..n : listing[p] = base[k]
    BY <1>5 DEF PagingInv, BaseInv
  <2>2. \A r, s \in 1..(n + 1) : listing'[r] = listing'[s] => r = s
    BY <1>4, <1>6 DEF ServerInv
  <2>3. CASE p < i
    <3>1. listing'[p] = base[k] /\ p \in 1..(n + 1)
      BY <1>3, <1>5, <2>1, <2>3
    <3>2. p = q
      BY <1>8, <2>2, <3>1
    <3> QED BY <2>1, <2>3, <3>2
  <2>4. CASE p >= i
    <3>1. listing'[p + 1] = base[k] /\ p + 1 \in 1..(n + 1)
      BY <1>3, <1>5, <2>1, <2>4
    <3>2. p + 1 = q
      BY <1>8, <2>2, <3>1
    <3> QED BY <2>1, <2>4, <3>2
  <2> QED BY <1>5, <2>3, <2>4
<1>9. BaseInv'
  <2>1. \A k \in DOMAIN base : \E q \in DOMAIN listing' : listing'[q] = base[k]
    BY <1>5, <1>6, <1>7 DEF PagingInv, BaseInv
  <2>2. ASSUME NEW k \in DOMAIN base, NEW l \in DOMAIN base, NEW q \in 1..(n + 1), NEW r \in 1..(n + 1),
               k < l, listing'[q] = base[k], listing'[r] = base[l]
        PROVE  q < r
    <3>1. PICK p \in 1..n : listing[p] = base[k] /\ ((p = q /\ p < i) \/ (p + 1 = q /\ p >= i))
      BY <1>8, <2>2
    <3>2. PICK s \in 1..n : listing[s] = base[l] /\ ((s = r /\ s < i) \/ (s + 1 = r /\ s >= i))
      BY <1>8, <2>2
    <3>3. p < s
      BY <1>5, <2>2, <3>1, <3>2 DEF PagingInv, BaseInv
    <3> QED BY <1>5, <3>1, <3>2, <3>3
  <2> QED BY <1>1, <1>6, <2>1, <2>2 DEF PagingInv, BaseInv
<1>10. ReachedInv'
  <2>1. ASSUME NEW k \in DOMAIN base, NEW q \in 1..(n + 1), listing'[q] = base[k], q <= NextOff
        PROVE  base[k] \in Passed
    <3>1. PICK p \in 1..n : listing[p] = base[k] /\ (p = q \/ p + 1 = q)
      BY <1>8, <2>1
    <3>2. CASE p = q
      BY <1>5, <2>1, <3>1, <3>2 DEF PagingInv, ReachedInv
    <3>3. CASE p + 1 = q
      <4>1. p <= NextOff
        BY <1>5, <2>1, <3>3, NextOffNat
      <4> QED BY <1>5, <3>1, <4>1 DEF PagingInv, ReachedInv
    <3> QED BY <3>1, <3>2, <3>3
  <2> QED BY <1>1, <1>2, <1>6, <2>1 DEF ReachedInv
<1>11. NothingSkipped' /\ EndInv' /\ PictureInv'
  BY <1>1, <1>2 DEF PagingInv, NothingSkipped, EndInv, PictureInv
<1> QED BY <1>9, <1>10, <1>11 DEF PagingInv

\* The rows of the next page, in order, are dealt with.
LEMMA PageReached ==
  ASSUME Inv, ServerInv, ReachedInv, seen \in Searches, Ordered(seen),
         NEW failed, NEW hidden \in Hidden(seen), NEW w, w = Window(seen, NextOff),
         shown \in Seq(1..MaxRows),
         shown' = shown \o Sent(w, failed, hidden),
         lost' = lost \cup failed, seen' = seen, listing' = listing,
         NextOff' = NextOff + LimitOf[seen],
         NextOff = 0 \/ base' = base
  PROVE  ReachedInv' /\ ShownIds' = ShownIds \cup (Ids(w) \ (failed \cup hidden))
<1>1. NextOff \in Nat /\ LimitOf[seen] \in Nat /\ listing \in Seq(1..MaxRows)
  BY NextOffNat, LimitOK DEF ServerInv
<1>2. w \in Seq(1..MaxRows) /\ w = Slice(listing, LimitOf[seen], NextOff)
  BY <1>1, WindowIs DEF Window, InOrder
<1>3. /\ Sent(w, failed, hidden) \in Seq(1..MaxRows)
      /\ Ids(Sent(w, failed, hidden)) = Ids(w) \ (failed \cup hidden)
  BY <1>2, SentIs
<1>4. ShownIds' = ShownIds \cup (Ids(w) \ (failed \cup hidden))
  <2>1. ShownIds = Ids(shown) /\ ShownIds' = Ids(shown')
    BY DEF ShownIds, Ids
  <2>2. Ids(shown') = Ids(shown) \cup Ids(Sent(w, failed, hidden))
    BY <1>3, IdsOfConcat
  <2> QED BY <1>3, <2>1, <2>2
<1>5. Passed \subseteq Passed' /\ Ids(w) \subseteq Passed'
  <2>1. hidden \subseteq LeftOut(seen) /\ LeftOut(seen') = LeftOut(seen)
    BY DEF Hidden, LeftOut
  <2> QED BY <1>4, <2>1 DEF Passed
<1>6. ASSUME NEW p \in DOMAIN listing, NextOff < p, p <= NextOff + LimitOf[seen]
      PROVE  listing[p] \in Ids(w)
  BY <1>1, <1>2, <1>6, SliceIs
<1>7. ASSUME NEW i \in DOMAIN base', NEW p \in DOMAIN listing, listing[p] = base'[i],
             p <= NextOff + LimitOf[seen]
      PROVE  base'[i] \in Passed'
  <2>1. p \in Nat /\ p > 0
    BY <1>1
  <2>2. CASE NextOff < p
    BY <1>5, <1>6, <1>7, <2>2
  <2>3. CASE p <= NextOff
    <3>1. base' = base
      BY <1>1, <2>1, <2>3
    <3> QED BY <1>5, <1>7, <2>3, <3>1 DEF ReachedInv
  <2> QED BY <1>1, <2>1, <2>2, <2>3
<1>8. ReachedInv'
  BY <1>7 DEF ReachedInv
<1> QED BY <1>4, <1>8

\* The next page of a search with an order.
LEMMA OrderedPaging ==
  ASSUME Inv, ServerInv, LayoutInv, PagingInv, seen \in Searches, Ordered(seen),
         NEW failed, NEW hidden \in Hidden(seen), NEW w, w = Window(seen, NextOff),
         NEW page1 \in Pages, page1.off = NextOff,
         shown' = shown \o Sent(w, failed, hidden),
         pages' = Append(pages, page1),
         hasMore' = More(seen, w, failed),
         base' = IF NextOff = 0 THEN listing ELSE base,
         lost' = lost \cup failed,
         UNCHANGED <<seen, listing>>,
         PictureInv'
  PROVE  PagingInv'
<1>1. /\ listing \in Seq(1..MaxRows) /\ shown \in Seq(1..MaxRows) /\ pages \in Seq(Pages)
      /\ seen # None
  BY ResultsAssumption DEF ServerInv, LayoutInv, Inv, TypeOK, ResultsAssumption
<1>2. /\ NextOff \in Nat /\ LimitOf[seen] \in Nat \ {0}
      /\ NextOff = 0 <=> pages = <<>>
  BY NextOffNat, LimitOK DEF NextOff
<1>3. /\ pages' # <<>> /\ NextOff' = NextOff + LimitOf[seen]
  <2>1. /\ Len(pages') = Len(pages) + 1 /\ pages'[Len(pages) + 1] = page1
        /\ Len(pages) \in Nat /\ pages' # <<>>
    BY ONLY <1>1, page1 \in Pages, pages' = Append(pages, page1)
  <2>2. pages'[Len(pages')].off = NextOff /\ seen' = seen
    BY <2>1
  <2>3. NextOff' = pages'[Len(pages')].off + LimitOf[seen']
    BY <2>1 DEF NextOff
  <2> QED BY <2>1, <2>2, <2>3
<1>4. base' = IF pages = <<>> THEN listing ELSE base
  BY <1>2
<1>5. ReachedInv' /\ ShownIds' = ShownIds \cup (Ids(w) \ (failed \cup hidden))
  BY <1>1, <1>2, <1>3, PageReached DEF PagingInv
<1>6. BaseInv'
  <2>1. CASE pages = <<>>
    <3>1. \A i, j \in DOMAIN listing : listing[i] = listing[j] => i = j
      BY DEF ServerInv
    <3>2. base' = listing
      BY <1>4, <2>1
    <3> QED BY <1>1, <1>3, <3>1, <3>2 DEF BaseInv, Ordered
  <2>2. CASE pages # <<>>
    <3>1. base' = base
      BY <1>4, <2>2
    <3> QED BY <1>1, <1>3, <3>1 DEF PagingInv, BaseInv, Ordered
  <2> QED BY <2>1, <2>2
\* A row sent now stands before the new offset, and those before it are dealt with.
<1>7. ASSUME NEW i \in DOMAIN base', NEW j \in DOMAIN base', i < j, base'[j] \in ShownIds'
      PROVE  base'[i] \in Passed'
  <2>1. PICK p \in DOMAIN listing : listing[p] = base'[i]
    BY <1>6 DEF BaseInv
  <2>2. CASE base'[j] \in Ids(w)
    <3>1. w = Slice(listing, LimitOf[seen], NextOff)
      BY DEF Window, InOrder
    <3>2. PICK q \in DOMAIN listing : q <= NextOff + LimitOf[seen] /\ listing[q] = base'[j]
      BY <1>1, <1>2, <2>2, <3>1, SliceIs
    <3>3. p < q
      BY <1>6, <1>7, <2>1, <3>2 DEF BaseInv
    <3>4. p <= NextOff'
      BY <1>1, <1>2, <1>3, <3>2, <3>3
    <3> QED BY <1>5, <2>1, <3>4 DEF ReachedInv
  <2>3. CASE base'[j] \in ShownIds
    <3>1. shown # <<>>
      BY <2>3 DEF ShownIds
    <3>2. base' = base
      BY <1>4, <3>1 DEF PagingInv, BaseInv
    <3>3. base[i] \in Passed
      BY <1>1, <1>7, <2>3, <3>2 DEF PagingInv, NothingSkipped, Passed
    <3> QED BY <1>5, <3>2, <3>3 DEF Passed, LeftOut
  <2> QED BY <1>5, <1>7, <2>2, <2>3
<1>8. NothingSkipped'
  BY <1>7 DEF NothingSkipped, Passed
\* Nothing lost, and no more: the new offset is past all rows.
<1>9. ASSUME ~hasMore', lost' = {}, NEW i \in DOMAIN base'
      PROVE  base'[i] \in ShownIds' \cup LeftOut(seen')
  <2>1. failed = {}
    BY <1>9
  <2>2. Len(listing) < NextOff + LimitOf[seen]
    BY <1>2, <1>9, <2>1, ShortPage
  <2>3. PICK p \in DOMAIN listing : listing[p] = base'[i]
    BY <1>6 DEF BaseInv
  <2>4. p <= NextOff'
    BY <1>1, <1>2, <1>3, <2>2, <2>3
  <2>5. base'[i] \in Passed'
    BY <1>5, <2>3, <2>4 DEF ReachedInv
  <2> QED BY <1>9, <2>5 DEF Passed
<1>10. EndInv'
  BY <1>9 DEF EndInv
<1> QED BY <1>5, <1>6, <1>8, <1>10 DEF PagingInv

LEMMA AnswerPaging ==
  ASSUME Inv, ServerInv, LayoutInv, PagingInv, NEW q \in inflight, Answer(q)
  PROVE  PagingInv'
<1>1. CASE Stale(q)
  <2>1. /\ UNCHANGED <<pages, shown, base, lost, listing, seen, picture>>
        /\ UNCHANGED <<loading, hasMore, error>> /\ inflight' = inflight \ {q}
    BY <1>1 DEF Answer, view, client
  <2> QED BY <2>1, SamePaging
<1>2. CASE ~Stale(q)
  <2> DEFINE page1 == [search |-> q.search, picture |-> q.picture, off |-> q.off]
  <2>1. /\ q.search = seen /\ q.off = NextOff /\ seen \in Searches /\ q.picture = PicFor(seen)
        /\ UNCHANGED <<seen, picture, listing>> /\ inflight' = inflight \ {q}
        /\ pages' = Append(pages, page1)
        /\ base' = IF q.off = 0 /\ Ordered(q.search) THEN listing ELSE base
        /\ \E w \in {Window(seen, NextOff)} : \E failed \in Failures(seen, w), hidden \in Hidden(seen) :
              /\ shown' = shown \o Sent(w, failed, hidden)
              /\ hasMore' = More(seen, w, failed)
              /\ lost' = IF Ordered(seen) THEN lost \cup failed ELSE lost
    BY <1>2, AnswerMerges
  <2>2. page1 \in Pages /\ page1.off = NextOff
    BY <2>1 DEF Inv, TypeOK, Requests, Pages
  <2> HIDE DEF page1
  <2>3. PictureInv'
    <3>1. ModeOf[seen] = "picture" => picture # None
      BY <2>1 DEF PagingInv, PictureInv, PicFor
    <3> QED BY <2>1, <3>1 DEF PagingInv, PictureInv
  <2>4. CASE Ordered(seen)
    BY <2>1, <2>2, <2>3, <2>4, OrderedPaging
  <2>5. CASE ~Ordered(seen)
    <3>1. base' = <<>>
      BY <2>1, <2>5 DEF PagingInv, BaseInv
    <3>2. pages' # <<>>
      <4>1. pages \in Seq(Pages)
        BY DEF Inv, TypeOK
      <4> QED BY <2>1, <4>1
    <3> QED BY <2>3, <3>1, <3>2, NoBase
  <2> QED BY <2>4, <2>5
<1> QED BY <1>1, <1>2

LEMMA FailPaging ==
  ASSUME PagingInv, NEW q \in inflight, Fail(q)
  PROVE  PagingInv'
<1>1. /\ UNCHANGED <<pages, shown, base, lost, listing, seen, picture>>
      /\ inflight' = inflight \ {q}
      /\ UNCHANGED <<loading, hasMore, error>> \/ error' = TRUE
  BY DEF Fail, view, client
<1> QED BY <1>1, SamePaging

LEMMA PagingNext == Inv /\ ServerInv /\ LayoutInv /\ PagingInv /\ [Next]_vars => PagingInv'
<1> SUFFICES ASSUME Inv, ServerInv, LayoutInv, PagingInv, [Next]_vars PROVE PagingInv'
  OBVIOUS
<1>1. CASE ParamsEffect
  BY <1>1, ParamsPaging
<1>2. CASE SentinelEffect
  BY <1>2, SentinelPaging
<1>3. CASE AddRow
  BY <1>3, AddRowPaging
<1>4. CASE Scroll
  BY <1>4, SamePaging DEF Scroll, client, page, view
<1>5. ASSUME NEW q \in inflight, Answer(q) PROVE PagingInv'
  BY <1>5, AnswerPaging
<1>6. ASSUME NEW q \in inflight, Fail(q) PROVE PagingInv'
  BY <1>6, FailPaging
<1>7. ASSUME NEW s \in Searches, Navigate(s) PROVE PagingInv'
  BY <1>7, SamePaging DEF Navigate, page, view
<1>8. ASSUME NEW s \in Searches, NEW p \in Pictures, PickPicture(p, s) PROVE PagingInv'
  <2>1. p # None
    BY ResultsAssumption DEF ResultsAssumption
  <2> QED BY <1>8, <2>1, SamePaging DEF PickPicture, page, view
<1>9. ASSUME NEW n \in ColumnCounts, Resize(n) PROVE PagingInv'
  BY <1>9, SamePaging DEF Resize, client, page
<1>10. CASE UNCHANGED vars
  BY <1>10, SamePaging DEF vars, client, page, view
<1> QED BY <1>1, <1>2, <1>3, <1>4, <1>5, <1>6, <1>7, <1>8, <1>9, <1>10 DEF Next

LEMMA PagingHolds == Spec => [](Inv /\ ServerInv /\ LayoutInv /\ PagingInv)
<1>1. Init => Inv /\ ServerInv /\ LayoutInv /\ PagingInv
  BY InitInv, ServerInit, LayoutInit, PagingInit
<1>2. Inv /\ ServerInv /\ LayoutInv /\ PagingInv /\ [Next]_vars
        => (Inv /\ ServerInv /\ LayoutInv /\ PagingInv)'
  BY NextInv, ServerNext, LayoutNext, PagingNext
<1> QED BY <1>1, <1>2, PTL DEF Spec

LEMMA PagingKept == PagingInv => NothingSkipped /\ EndMeansEnd
BY DEF PagingInv, EndInv, EndMeansEnd

\* Paging skips nothing, however the tables grow between two pages: of the rows there were when
\* the search began, one that comes before a shown row is shown as well, unless the server failed
\* to read it or left it out on purpose (LIMIT and OFFSET in search_engine, load_page).
THEOREM NothingEverSkipped == Spec => []NothingSkipped
BY PagingHolds, PagingKept, PTL

\* A page that shows its end, without an error and with no row unread, shows everything there was
\* when the search began (has_more of the server functions, the sentinel effect).
THEOREM EndAlwaysMeansEnd == Spec => []EndMeansEnd
BY PagingHolds, PagingKept, PTL
=============================================================================
