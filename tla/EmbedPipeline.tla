---------------------------- MODULE EmbedPipeline ----------------------------
(***************************************************************************)
(* Distributed inference: the worker processes of embed/src/cli.rs and the *)
(* rows of the table `images` they share.                                  *)
(*                                                                         *)
(* A worker claims images, converts and infers them, and writes what came  *)
(* out.  Nothing but the row's status, attempt and claimed_at says who     *)
(* works on an image; workers never talk to each other.  Every SQL         *)
(* statement commits by itself, and the process may end between any two.   *)
(*                                                                         *)
(* Definitions named Bug... are seeded faults: what a plausible mistake    *)
(* would make of the definition that follows.  Each breaks a property.     *)
(***************************************************************************)
EXTENDS Integers, FiniteSets

CONSTANTS
  Images,
  Workers,
  Reliable,      \* the workers that are neither killed nor told to stop
  PERMITS,       \* images a worker has in flight, what its gate lets in
  CONCURRENCY,   \* writes in flight per worker
  MAX_ATTEMPT,   \* the literal 5 of the claim
  RECLAIM_AFTER  \* --reclaim-after-secs

ASSUME PipelineAssumption ==
  /\ Reliable \subseteq Workers
  /\ {PERMITS, CONCURRENCY} \subseteq Nat \ {0}
  /\ {MAX_ATTEMPT, RECLAIM_AFTER} \subseteq Nat

VARIABLES
  status,   \* images.status
  attempt,  \* images.attempt
  age,      \* time since images.claimed_at, counted up to RECLAIM_AFTER + 1
  tagged,   \* images that have their rows in wd_tag_images
  embedded, \* images that have both embeddings
  mode,     \* the state of each worker process
  held,     \* the images in a pipeline, each with its permit
  writes,   \* the writes `record` has spawned
  overtaken \* history: images of a late worker, claimed while it was still at work

rows == <<status, attempt, age, tagged, embedded>>
vars == <<rows, mode, held, writes, overtaken>>

Statuses == {"pending", "processing", "completed"}
Modes    == {"down", "up", "draining", "failing"}

\* What became of an image in the pipeline: nothing yet, a result, or None.
Outs == {"busy", "some", "none"}

Held(w)   == {h \in held : h.worker = w}
Writes(w) == {x \in writes : x.worker = w}

\* The ids of a write that have a result, and those that failed.
Done(x)   == {h.image : h \in {i \in x.items : i.out = "some"}}
Failed(x) == {h.image : h \in {i \in x.items : i.out = "none"}}

\* The images of a write that its remaining statements still update.
ToUpdate(x) == CASE x.next = "release" -> {}
                 [] x.next = "reset"   -> Failed(x)
                 [] OTHER              -> Done(x) \cup Failed(x)

\* A failed image whose row is pending again, though its permit is still held.
LetGo(h) == h.out = "none" /\ \E x \in writes : h \in x.items /\ x.next = "release"

Init ==
  /\ status = [i \in Images |-> "pending"]
  /\ attempt = [i \in Images |-> 0]
  /\ age = [i \in Images |-> 0]
  /\ tagged = {} /\ embedded = {}
  /\ mode = [w \in Workers |-> "down"]
  /\ held = {} /\ writes = {} /\ overtaken = {}

-----------------------------------------------------------------------------
(***************************************************************************)
(* fetch_batch.                                                            *)
(***************************************************************************)

\* Claims whatever is pending or processing.
BugClaimable ==
  {i \in Images : status[i] \in {"pending", "processing"} /\ attempt[i] <= MAX_ATTEMPT}

\* Takes pending rows only.
BugClaimablePending == {i \in Images : status[i] = "pending" /\ attempt[i] <= MAX_ATTEMPT}

Stale(i) == status[i] = "processing" /\ age[i] > RECLAIM_AFTER

\* The rows a claim may take: pending ones, and those stranded in processing.
Claimable ==
  {i \in Images : attempt[i] <= MAX_ATTEMPT /\ (status[i] = "pending" \/ Stale(i))}

\* One claim, with the permits that are free.  Rows another statement has locked
\* are skipped, so it may get fewer than there are.  A failed stage closes the
\* gate only when `run` hears of it: until then claims go on.
Claim(w, S) ==
  /\ mode[w] \in {"up", "failing"}
  /\ S # {} /\ S \subseteq Claimable
  /\ Cardinality(S) + Cardinality(Held(w)) <= PERMITS
  /\ status' = [i \in Images |-> IF i \in S THEN "processing" ELSE status[i]]
  /\ attempt' = [i \in Images |-> IF i \in S THEN attempt[i] + 1 ELSE attempt[i]]
  /\ age' = [i \in Images |-> IF i \in S THEN 0 ELSE age[i]]
  /\ held' = held \cup {[worker |-> w, image |-> i, try |-> attempt'[i], out |-> "busy"] : i \in S}
  /\ overtaken' = overtaken \cup
       {i \in S : Stale(i) /\ \E h \in held : h.image = i /\ ~LetGo(h)}
  /\ UNCHANGED <<tagged, embedded, mode, writes>>

\* SIGINT, a claim that got no row, or one whose query failed: fetch_batch returns
\* and the other stages finish what is in flight.
Stop(w) ==
  /\ mode[w] = "up" /\ w \notin Reliable
  /\ mode' = [mode EXCEPT ![w] = "draining"]
  /\ UNCHANGED <<rows, held, writes, overtaken>>

-----------------------------------------------------------------------------
(***************************************************************************)
(* convert_image and infer.  A download, a decoding or an inference that   *)
(* fails makes the result None; nothing else fails on the way.             *)
(***************************************************************************)

Convert(h, out) ==
  /\ h.out = "busy" /\ out \in {"some", "none"}
  /\ held' = (held \ {h}) \cup {[h EXCEPT !.out = out]}
  /\ UNCHANGED <<rows, mode, writes, overtaken>>

-----------------------------------------------------------------------------
(***************************************************************************)
(* record.                                                                 *)
(***************************************************************************)

InWrite(h) == \E x \in writes : h \in x.items

\* Takes images that are still being inferred.
BugStartWrite(w, S) ==
  /\ mode[w] \in {"up", "draining"}
  /\ Cardinality(Writes(w)) < CONCURRENCY
  /\ S # {} /\ S \subseteq {h \in Held(w) : ~InWrite(h)}
  /\ writes' = writes \cup {[worker |-> w, items |-> S, next |-> "tags"]}
  /\ UNCHANGED <<rows, mode, held, overtaken>>

\* Whatever queued up is merged into one write, which runs by itself.
StartWrite(w, S) ==
  /\ mode[w] \in {"up", "draining"}
  /\ Cardinality(Writes(w)) < CONCURRENCY
  /\ S # {} /\ S \subseteq {h \in Held(w) : h.out # "busy" /\ ~InWrite(h)}
  /\ writes' = writes \cup
       {[worker |-> w, items |-> S,
         next |-> IF \E h \in S : h.out = "some" THEN "tags" ELSE "reset"]}
  /\ UNCHANGED <<rows, mode, held, overtaken>>

Proceed(x, next) == writes' = (writes \ {x}) \cup {[x EXCEPT !.next = next]}

\* INSERT INTO wd_tags and wd_tag_images.
WriteTags(x) ==
  /\ x.next = "tags"
  /\ tagged' = tagged \cup Done(x)
  /\ Proceed(x, "complete")
  /\ UNCHANGED <<status, attempt, age, embedded, mode, held, overtaken>>

\* Completes every image of the write, the failed ones included.
BugWriteComplete(x) ==
  /\ x.next = "complete"
  /\ embedded' = embedded \cup Done(x)
  /\ status' = [i \in Images |-> IF i \in Done(x) \cup Failed(x) THEN "completed" ELSE status[i]]
  /\ Proceed(x, IF Failed(x) = {} THEN "release" ELSE "reset")
  /\ UNCHANGED <<attempt, age, tagged, mode, held, overtaken>>

\* UPDATE images SET dinov3_embedding, clip_embedding, status = 'completed'.
WriteComplete(x) ==
  /\ x.next = "complete"
  /\ embedded' = embedded \cup Done(x)
  /\ status' = [i \in Images |-> IF i \in Done(x) THEN "completed" ELSE status[i]]
  /\ Proceed(x, IF Failed(x) = {} THEN "release" ELSE "reset")
  /\ UNCHANGED <<attempt, age, tagged, mode, held, overtaken>>

\* Resets every image of the write.
BugWriteReset(x) ==
  /\ x.next = "reset"
  /\ status' = [i \in Images |-> IF i \in Done(x) \cup Failed(x) THEN "pending" ELSE status[i]]
  /\ Proceed(x, "release")
  /\ UNCHANGED <<attempt, age, tagged, embedded, mode, held, overtaken>>

\* UPDATE images SET status = 'pending'.
WriteReset(x) ==
  /\ x.next = "reset"
  /\ status' = [i \in Images |-> IF i \in Failed(x) THEN "pending" ELSE status[i]]
  /\ Proceed(x, "release")
  /\ UNCHANGED <<attempt, age, tagged, embedded, mode, held, overtaken>>

\* The permits go back, of the completed images and of the failed ones.
WriteDone(x) ==
  /\ x.next = "release"
  /\ held' = held \ x.items
  /\ writes' = writes \ {x}
  /\ UNCHANGED <<rows, mode, overtaken>>

\* A statement fails, or took effect and its reply is lost: `record` starts no
\* more writes, waits for those it has, and the process ends.  What the write had
\* not got to stays in processing.
WriteFails(x) ==
  /\ mode' = [mode EXCEPT ![x.worker] = "failing"]
  /\ held' = held \ x.items
  /\ writes' = writes \ {x}
  /\ UNCHANGED <<rows, overtaken>>

WriteStep(x) == WriteTags(x) \/ WriteComplete(x) \/ WriteReset(x) \/ WriteDone(x)

-----------------------------------------------------------------------------
(***************************************************************************)
(* The processes, and time.                                                *)
(***************************************************************************)

\* run() returns: drained, or failed once the last write is over.
Exit(w) ==
  /\ \/ mode[w] = "draining" /\ Held(w) = {}
     \/ mode[w] = "failing" /\ Writes(w) = {}
  /\ mode' = [mode EXCEPT ![w] = "down"]
  /\ held' = held \ Held(w)
  /\ UNCHANGED <<rows, writes, overtaken>>

\* The process is killed, or the second SIGINT cuts the drain short.
Kill(w) ==
  /\ mode[w] # "down" /\ w \notin Reliable
  /\ mode' = [mode EXCEPT ![w] = "down"]
  /\ held' = held \ Held(w)
  /\ writes' = writes \ Writes(w)
  /\ UNCHANGED <<rows, overtaken>>

Start(w) ==
  /\ mode[w] = "down"
  /\ mode' = [mode EXCEPT ![w] = "up"]
  /\ UNCHANGED <<rows, held, writes, overtaken>>

Tick ==
  /\ \E i \in Images : status[i] = "processing" /\ age[i] <= RECLAIM_AFTER
  /\ age' = [i \in Images |-> IF status[i] = "processing" /\ age[i] <= RECLAIM_AFTER
                              THEN age[i] + 1 ELSE age[i]]
  /\ UNCHANGED <<status, attempt, tagged, embedded, mode, held, writes, overtaken>>

Next ==
  \/ \E w \in Workers : \/ \E S \in SUBSET Images : Claim(w, S)
                        \/ \E S \in SUBSET Held(w) : StartWrite(w, S)
                        \/ Stop(w) \/ Exit(w) \/ Kill(w) \/ Start(w)
  \/ \E h \in held, out \in Outs : Convert(h, out)
  \/ \E x \in writes : WriteStep(x) \/ WriteFails(x)
  \/ Tick

Spec == Init /\ [][Next]_vars

\* A reliable worker is started again when it ended, claims, and works through
\* what it holds; reads have a timeout and time passes.
FairSpec ==
  /\ Spec
  /\ WF_vars(Tick)
  /\ \A w \in Reliable :
       /\ WF_vars(Start(w))
       /\ WF_vars(Exit(w))
       /\ WF_vars(\E S \in SUBSET Images : Claim(w, S))
       /\ WF_vars(\E h \in Held(w), out \in Outs : Convert(h, out))
       /\ WF_vars(\E S \in SUBSET Held(w) : StartWrite(w, S))
       /\ WF_vars(\E x \in Writes(w) : WriteStep(x))

-----------------------------------------------------------------------------
(***************************************************************************)
(* Properties.                                                             *)
(***************************************************************************)

ItemType  == [worker : Workers, image : Images, try : Nat, out : Outs]
WriteType == [worker : Workers, items : SUBSET ItemType,
              next : {"tags", "complete", "reset", "release"}]

\* What every variable holds; a write only holds finished images of its worker.
TypeOK ==
  /\ status \in [Images -> Statuses]
  /\ attempt \in [Images -> Nat]
  /\ age \in [Images -> 0..(RECLAIM_AFTER + 1)]
  /\ tagged \subseteq Images /\ embedded \subseteq Images
  /\ mode \in [Workers -> Modes]
  /\ held \subseteq ItemType
  /\ writes \subseteq WriteType
  /\ overtaken \subseteq Images
  /\ \A x \in writes : x.items \subseteq {h \in Held(x.worker) : h.out # "busy"}

\* A completed image has its tags and its embeddings, wherever a write was cut
\* off: status comes last.
CompletedIsWhole ==
  \A i \in Images : status[i] = "completed" => i \in tagged \cap embedded

\* The claim is a lock although nobody unlocks it: an image is in one pipeline at
\* most, and its row leaves processing only by the write of the one worker that
\* holds it.  Only a worker that is later than reclaim_after_secs, and overtaken
\* by another claim of the image, loses it.
Exclusive ==
  /\ \A g, h \in held : g.image = h.image =>
       g = h \/ LetGo(g) \/ LetGo(h) \/ g.image \in overtaken
  /\ \A h \in held : status[h.image] # "processing" =>
       \/ LetGo(h) \/ h.image \in overtaken
       \/ \E x \in writes : h \in x.items /\ h.image \notin ToUpdate(x)

\* The `UPDATE images SET status = 'pending'` of a failed result (cli.rs:750) does
\* not look at the status.  It takes a completed image back when a late worker
\* was overtaken on that image, whichever of the two completed it and whichever
\* failed; nothing else takes one back.
CompletedStays ==
  [][\A i \in Images : status[i] = "completed" =>
       status'[i] = "completed" \/ i \in overtaken]_vars

\* cli.rs:615, "Writes touch disjoint images": two writes in flight, of one worker
\* or of two, never go for the same row, unless a late
\* worker was overtaken on it.
WritesAreDisjoint ==
  \A x, y \in writes : x # y => ToUpdate(x) \cap ToUpdate(y) \subseteq overtaken

\* Every image is completed or has used up its attempts, in the end and for good,
\* as long as one worker is not killed.
AllSettle ==
  <>[](\A i \in Images : status[i] = "completed" \/ attempt[i] > MAX_ATTEMPT)
=============================================================================
