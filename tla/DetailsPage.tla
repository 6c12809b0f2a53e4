---------------------------- MODULE DetailsPage -----------------------------
(***************************************************************************)
(* One window of an account: the details page of an image, with a like     *)
(* button and the viewer (components/image_details.rs), or the list of     *)
(* likes.  To leave a page disposes of its components, not of their        *)
(* requests.                                                               *)
(***************************************************************************)
EXTENDS Likes, Viewer

CONSTANTS
  PostImages,    \* images of the post
  Position       \* where this image is among them, None if it belongs to no post

ASSUME DetailsPageAssumption ==
  /\ PostImages \in Nat
  /\ Position \in 0..(PostImages - 1) \cup {None}

VARIABLES
  place,         \* "details" or "likes"
  loaded,        \* the images of the post have arrived
  store          \* post_images_store: "empty", "post" or "single"

vars == <<likesVars, viewer, place, loaded, store>>

TypeOK ==
  /\ LikesTypeOK /\ ViewerTypeOK
  /\ place \in {"details", "likes"}
  /\ loaded \in BOOLEAN
  /\ store \in {"empty", "post", "single"}

Init ==
  /\ LikesInit /\ ViewerInit
  /\ place = "likes" /\ loaded = FALSE /\ store = "empty"

\* The details page opens, without the images of the post.
OpenDetails ==
  /\ place = "likes"
  /\ place' = "details" /\ loaded' = FALSE /\ store' = "empty"
  /\ list' = None
  /\ UNCHANGED <<now, likes, button, late, doubted, viewer>>

\* The effect on post_images puts them into the store, also over the single image and while the
\* viewer shows it.
ImagesArrive ==
  /\ place = "details" /\ ~loaded /\ Position # None
  /\ loaded' = TRUE /\ store' = "post"
  /\ UNCHANGED <<likesVars, viewer, place>>

\* A click on a picture of the post: the viewer there, on what the store holds.
ClickPicture(i) ==
  /\ place = "details" /\ loaded
  /\ OpenAt(i, IF store = "post" THEN PostImages ELSE 1)
  /\ UNCHANGED <<likesVars, place, loaded, store>>

\* on_up without a drag: the viewer on this image, alone if it is not in the store.
Click ==
  /\ place = "details"
  /\ IF store = "post"
     THEN OpenAt(Position, PostImages) /\ UNCHANGED store
     ELSE OpenAt(0, 1) /\ store' = "single"
  /\ UNCHANGED <<likesVars, place, loaded>>

\* The page is left for the list of likes.
OpenLikes ==
  /\ place = "details"
  /\ place' = "likes"
  /\ viewer' = Closed
  /\ Unmount(Buttons)
  /\ StartList
  /\ UNCHANGED <<now, likes, doubted, loaded, store>>

Next ==
  \/ OpenDetails \/ ImagesArrive \/ Click \/ OpenLikes
  \/ \E i \in 0..(PostImages - 1) : ClickPicture(i)
  \/ ViewerNext /\ UNCHANGED <<likesVars, place, loaded, store>>
  \/ /\ \/ \E b \in Buttons :
             \/ place = "details" /\ Mount(b)
             \/ viewer = Closed /\ Toggle(b)
             \/ Serve(b) \/ Lose(b) \/ Hear(b)
        \/ \E r \in late : ServeLate(r)
        \/ \E t \in Targets, net \in {"POST", "DELETE"} : Elsewhere(t, net)
        \/ ListPage
        \/ Tick
     /\ UNCHANGED <<viewer, place, loaded, store>>

Spec == Init /\ [][Next]_vars
=============================================================================
