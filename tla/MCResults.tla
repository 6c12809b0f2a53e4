------------------------------ MODULE MCResults -----------------------------
(***************************************************************************)
(* Small instances of Results: a search of each kind of paging.            *)
(***************************************************************************)
EXTENDS Results

CONSTANTS title, near, photo1, photo2, dice, catPic, dogPic

MCModeOf == [s \in Searches |-> CASE s = title -> "posts"
                                   [] s = near  -> "similar"
                                   [] s = dice  -> "random"
                                   [] OTHER     -> "picture"]
MCLimitOf == [s \in Searches |-> IF s = title THEN 1 ELSE 2]
MCHeight == [row \in 1..MaxRows |-> IF row = 1 THEN 3 ELSE 1]
MCStart  == <<1, 2>>
\* Id 9 is a gap: a random search of two rows ends with its second page, one of three goes on
\* and draws the same again.
MCDraw   == [n \in 0..MaxRows |-> CASE n = 0 -> <<>>
                                     [] n = 3 -> <<3, 1, 2>>
                                     [] OTHER -> <<1, 2, 9, 9>>]
=============================================================================
