------------------------------ MODULE Masonry -------------------------------
(***************************************************************************)
(* How components/results.rs lays items out: always into the shortest      *)
(* column, and again from the start, row by row, when the width changes.   *)
(***************************************************************************)
EXTENDS Naturals, FiniteSets, SequencesExt

CONSTANTS Height,      \* item -> its height in a column, padding included
          Coverless    \* the posts without an image: they are not placed

Heights(column) == FoldSeq(LAMBDA item, sum : Height[item] + sum, 0, column)

Empty(n) == [c \in 1..n |-> <<>>]

\* The first of the shortest columns (min_by_key).
Shortest(columns) ==
  CHOOSE c \in DOMAIN columns :
    \A d \in DOMAIN columns : \/ Heights(columns[c]) < Heights(columns[d])
                              \/ Heights(columns[c]) = Heights(columns[d]) /\ c <= d

\* place_post and place_image: nothing is placed while there are no columns.
Place(columns, item) ==
  IF item \in Coverless \/ columns = <<>> THEN columns
  ELSE [columns EXCEPT ![Shortest(columns)] = Append(@, item)]

PlaceAll(columns, items) == FoldLeft(Place, columns, items)

\* Row r, from the left: of the columns that are long enough.
Row(columns, r) ==
  FlattenSeq([c \in DOMAIN columns |->
                IF r \in DOMAIN columns[c] THEN <<columns[c][r]>> ELSE <<>>])

BugByRows(columns) ==
  FlattenSeq([r \in 1..Len(columns[1]) |-> Row(columns, r)])
\* Row after row, as many as the longest column has.
ByRows(columns) ==
  FlattenSeq([r \in 1..Max({0} \cup {Len(columns[c]) : c \in DOMAIN columns}) |->
                Row(columns, r)])

Relayout(columns, n) == PlaceAll(Empty(n), ByRows(columns))

-----------------------------------------------------------------------------
\* How often an item is in a sequence.
Times(item, items) == Cardinality({ i \in DOMAIN items : items[i] = item })
=============================================================================
