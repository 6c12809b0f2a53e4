--------------------------- MODULE MCDetailsPage ----------------------------
(***************************************************************************)
(* A small instance of DetailsPage: one button, likes of one second.       *)
(***************************************************************************)
EXTENDS DetailsPage

CONSTANTS star, cat, dog, owl

MCTargetOf == [b \in Buttons |-> cat]
MCPulls == {-2, 0, 2}
=============================================================================
