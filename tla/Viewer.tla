------------------------------- MODULE Viewer -------------------------------
(***************************************************************************)
(* The full screen viewer of search/app/src/components/viewer.rs: slides   *)
(* side by side, moved by keys, buttons and touches.  While `animating`    *)
(* is set it ignores keys and touches; the only thing that clears it is    *)
(* the browser's transitionend event.                                      *)
(*                                                                         *)
(* The browser is external: a transition runs when the position changes    *)
(* while the track has a transition style, that is while animating, and    *)
(* ends by itself.                                                         *)
(***************************************************************************)
EXTENDS Integers

CONSTANTS
  Closed,
  Pulls      \* how far a touch pulls: 0, +-1 less or +-2 more than SWIPE_RATIO

ASSUME ViewerAssumption == Pulls \subseteq Int /\ 0 \in Pulls

VARIABLE viewer   \* Closed, or a record of the open component:
                  \*   index, total    the slide shown, the slides when opened
                  \*   animating       waits for the end of a transition
                  \*   moving          the browser runs a transition
                  \*   dragging, drag  a touch and how far it pulled
                  \*   jolted          history: see TouchCancel

ViewerTypeOK ==
  viewer = Closed \/
    /\ viewer \in [index : Nat, total : Nat, animating : BOOLEAN, moving : BOOLEAN,
                   dragging : BOOLEAN, drag : Pulls, jolted : BOOLEAN]
    /\ viewer.index < viewer.total

Open == viewer # Closed
HasPrev == viewer.index > 0
HasNext == viewer.index + 1 < viewer.total

ViewerInit == viewer = Closed

\* A click on picture i of n; the slides are those of that moment.
OpenAt(i, n) ==
  /\ ~Open
  /\ viewer' = [index |-> i, total |-> n, animating |-> FALSE, moving |-> FALSE,
                dragging |-> FALSE, drag |-> 0, jolted |-> FALSE]

\* Escape, the close button, a click beside the slide: the component is disposed of.
Close == Open /\ viewer' = Closed

Moved(v, by) == [v EXCEPT !.index = @ + by, !.animating = TRUE, !.moving = TRUE]

\* An arrow key or a button, without effect while animating and at the ends.
Slide(by) ==
  /\ Open
  /\ ~viewer.animating
  /\ IF by = 1 THEN HasNext ELSE HasPrev
  /\ viewer' = Moved(viewer, by)

TransitionEnd ==
  /\ Open
  /\ viewer.moving
  /\ viewer' = [viewer EXCEPT !.moving = FALSE, !.animating = FALSE]

TouchStart ==
  /\ Open
  /\ ~viewer.animating
  /\ viewer' = [viewer EXCEPT !.dragging = TRUE]

\* The pull is cut to 0 towards an end.  A key may have started an animation since the touch
\* began: then the new position is a new transition.
TouchMove(pull) ==
  /\ Open
  /\ viewer.dragging
  /\ LET d == IF (pull > 0 /\ ~HasPrev) \/ (pull < 0 /\ ~HasNext) THEN 0 ELSE pull
     IN viewer' = [viewer EXCEPT !.drag = d,
                     !.moving = @ \/ (viewer.animating /\ d # viewer.drag)]

BugReleased(v) == [v EXCEPT !.dragging = FALSE, !.drag = 0, !.animating = TRUE,
                            !.moving = @ \/ v.drag # 0]
\* Back into place: without a transition unless one is on.
Released(v) == [v EXCEPT !.dragging = FALSE, !.drag = 0,
                         !.moving = @ \/ (v.animating /\ v.drag # 0)]

\* A pull is shorter than the window is wide, so that a swipe always changes the position.
TouchEnd ==
  /\ Open
  /\ viewer.dragging
  /\ viewer' = CASE viewer.drag = -2 /\ HasNext -> Released(Moved(viewer, 1))
                 [] viewer.drag = 2 /\ HasPrev  -> Released(Moved(viewer, -1))
                 [] OTHER                       -> Released(viewer)

\* The browser takes the touch away.  Animating is set to glide back; where nothing was pulled
\* there is nothing to glide, and no transition will end (history: jolted).
TouchCancel ==
  /\ Open
  /\ viewer' = [Released([viewer EXCEPT !.animating = TRUE]) EXCEPT
                  !.jolted = @ \/ (viewer.drag = 0 /\ ~viewer.moving)]

ViewerNext ==
  \/ Close \/ TransitionEnd \/ TouchStart \/ TouchEnd \/ TouchCancel
  \/ \E by \in {-1, 1} : Slide(by)
  \/ \E pull \in Pulls : TouchMove(pull)

-----------------------------------------------------------------------------
\* The viewer shows a slide it has, and never waits for a transition that is not running, so that
\* keys and touches come back to life by themselves: except after the browser cancelled a touch
\* that had pulled nothing, when only closing the viewer helps (viewer.rs on:touchcancel).
StuckOnlyAfterCancel ==
  Open => /\ viewer.index < viewer.total
          /\ viewer.animating /\ ~viewer.moving => viewer.jolted
=============================================================================
