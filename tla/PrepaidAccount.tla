--------------------------- MODULE PrepaidAccount ---------------------------
(***************************************************************************)
(* What a user may rely on of the metered account: a store of value that   *)
(* is worth exactly what was put in, less what was spent, with two         *)
(* exceptions.  A subscription loses value as its period runs; and opening *)
(* the account, once, gives the free grant and may forfeit value that was  *)
(* put in before.  How the value is split between points and a plan is not *)
(* visible here.                                                           *)
(***************************************************************************)
EXTENDS Integers

CONSTANT Grant \* points given when the account is opened

VARIABLES worth,    \* points, plus the unused remainder of a plan in points
          funded,   \* points that came in, less those taken back
          consumed, \* points spent on views and searches
          opened,   \* the grant was given
          clock

vars == <<worth, funded, consumed, opened, clock>>

Init ==
  /\ worth = 0 /\ funded = 0 /\ consumed = 0
  /\ opened = FALSE
  /\ clock \in Nat

\* Points come in or are taken back: worth follows, point for point.
Fund ==
  /\ worth' \in Nat
  /\ worth' - worth = funded' - funded
  /\ UNCHANGED <<consumed, opened, clock>>

\* Points are spent, or moved between the balance and a plan at no loss.
Spend ==
  /\ worth' \in Nat
  /\ consumed' >= consumed
  /\ worth' - worth = consumed - consumed'
  /\ UNCHANGED <<funded, opened, clock>>

\* The account is opened, possibly by the first spending.  Of what was put in
\* before, anything may be forfeited.
Open ==
  /\ ~opened /\ opened'
  /\ funded' = funded + Grant
  /\ consumed' >= consumed
  /\ worth' \in Nat
  /\ (worth' - Grant) + (consumed' - consumed) \in 0..worth
  /\ UNCHANGED clock

\* Time passes: a plan loses value, points do not come in or go out.
Elapse ==
  /\ clock' > clock
  /\ worth' \in 0..worth
  /\ UNCHANGED <<funded, consumed, opened>>

Next == Fund \/ Spend \/ Open \/ Elapse

Spec == Init /\ [][Next]_vars
=============================================================================
