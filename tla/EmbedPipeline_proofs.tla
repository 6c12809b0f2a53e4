------------------------ MODULE EmbedPipeline_proofs ------------------------
(***************************************************************************)
(* What holds of EmbedPipeline for any number of images and workers.       *)
(***************************************************************************)
EXTENDS EmbedPipeline, TLAPS

\* An image that is held is in one write of its worker at most.
OneWrite == \A x, y \in writes : x # y => x.items \cap y.items = {}

\* The statement that completes a write's images comes after the one that tags
\* them.
TagsFirst == \A x \in writes : x.next = "complete" => Done(x) \subseteq tagged

WholeInv == TypeOK /\ OneWrite /\ TagsFirst /\ CompletedIsWhole

-----------------------------------------------------------------------------
\* A write moves on to its next statement: what it holds stays as it is.
LEMMA ProceedKeeps ==
  ASSUME TypeOK, OneWrite, NEW x \in writes,
         NEW next \in {"tags", "complete", "reset", "release"},
         Proceed(x, next), UNCHANGED held
  PROVE  /\ writes' \subseteq WriteType
         /\ \A y \in writes' : y.items \subseteq {h \in Held(y.worker)' : h.out # "busy"}
         /\ OneWrite'
         /\ \A y \in writes' : y \in writes \/ (y.next = next /\ y.items = x.items)
<1> DEFINE new == [x EXCEPT !.next = next]
<1>1. x \in WriteType
  BY DEF TypeOK
<1>2. /\ new \in WriteType /\ new.worker = x.worker /\ new.items = x.items
      /\ new.next = next
  BY <1>1 DEF WriteType
<1>3. writes' = (writes \ {x}) \cup {new}
  BY DEF Proceed
<1>4. \A y \in writes' : (y \in writes /\ y # x) \/ y = new
  BY <1>3
<1> HIDE DEF new
<1>5. writes' \subseteq WriteType
  BY <1>2, <1>4 DEF TypeOK
<1>6. ASSUME NEW y \in writes'
      PROVE  y.items \subseteq {h \in Held(y.worker)' : h.out # "busy"}
  <2>1. \A w : Held(w)' = Held(w)
    BY DEF Held
  <2>2. CASE y \in writes /\ y # x
    BY <2>1, <2>2 DEF TypeOK
  <2>3. CASE y = new
    BY <2>1, <2>3, <1>2 DEF TypeOK
  <2> QED BY <2>2, <2>3, <1>4
<1>7. ASSUME NEW y \in writes', NEW z \in writes', y # z
      PROVE  y.items \cap z.items = {}
  <2>1. CASE y \in writes /\ y # x /\ z \in writes /\ z # x
    BY <2>1, <1>7 DEF OneWrite
  <2>2. CASE y \in writes /\ y # x /\ z = new
    BY <2>2, <1>2 DEF OneWrite
  <2>3. CASE y = new /\ z \in writes /\ z # x
    BY <2>3, <1>2 DEF OneWrite
  <2> QED BY <2>1, <2>2, <2>3, <1>4, <1>7
<1>8. OneWrite'
  BY <1>7 DEF OneWrite
<1>9. \A y \in writes' : y \in writes \/ (y.next = next /\ y.items = x.items)
  BY <1>2, <1>4
<1> QED BY <1>5, <1>6, <1>8, <1>9

\* Writes that go, and held images that go with them, leave the others whole.
LEMMA DropKeeps ==
  ASSUME TypeOK, OneWrite, writes' \subseteq writes, held' \subseteq held,
         \A y \in writes' : y.items \cap (held \ held') = {}
  PROVE  /\ held' \subseteq ItemType /\ writes' \subseteq WriteType
         /\ \A y \in writes' : y.items \subseteq {h \in Held(y.worker)' : h.out # "busy"}
         /\ OneWrite'
<1>1. held' \subseteq ItemType /\ writes' \subseteq WriteType
  BY DEF TypeOK
<1>2. ASSUME NEW y \in writes', NEW h \in y.items
      PROVE  h \in Held(y.worker)' /\ h.out # "busy"
  <2>1. h \in Held(y.worker) /\ h.out # "busy"
    BY DEF TypeOK
  <2>2. h \in held'
    BY <2>1 DEF Held
  <2> QED BY <2>1, <2>2 DEF Held
<1>3. OneWrite'
  BY DEF OneWrite
<1> QED BY <1>1, <1>2, <1>3

\* Type correctness, and no image in two writes, hold initially and step by step.
LEMMA TypeStep == TypeOK /\ OneWrite /\ [Next]_vars => TypeOK' /\ OneWrite'
<1> SUFFICES ASSUME TypeOK, OneWrite, [Next]_vars PROVE TypeOK' /\ OneWrite'
  OBVIOUS
<1> USE PipelineAssumption
<1>1. ASSUME NEW w \in Workers, NEW S \in SUBSET Images, Claim(w, S)
      PROVE  TypeOK' /\ OneWrite'
  <2> DEFINE new == {[worker |-> w, image |-> i, try |-> attempt'[i], out |-> "busy"] : i \in S}
  <2>1. attempt' \in [Images -> Nat]
    BY <1>1 DEF Claim, TypeOK
  <2>2. new \subseteq ItemType
    BY <2>1 DEF ItemType, Outs
  <2>3. held' = held \cup new /\ writes' = writes
    BY <1>1 DEF Claim
  <2> HIDE DEF new
  <2>4. \A x \in writes' : x.items \subseteq {h \in Held(x.worker)' : h.out # "busy"}
    BY <2>3 DEF TypeOK, Held
  <2>5. status' \in [Images -> Statuses] /\ age' \in [Images -> 0..(RECLAIM_AFTER + 1)]
    BY <1>1 DEF Claim, TypeOK, Statuses
  <2>6. /\ tagged' = tagged /\ embedded' = embedded /\ mode' = mode
        /\ overtaken' \subseteq Images
    BY <1>1 DEF Claim, TypeOK
  <2> QED BY <2>1, <2>2, <2>3, <2>4, <2>5, <2>6 DEF TypeOK, OneWrite
<1>2. ASSUME NEW w \in Workers, NEW S \in SUBSET Held(w), StartWrite(w, S)
      PROVE  TypeOK' /\ OneWrite'
  <2> DEFINE first == IF \E h \in S : h.out = "some" THEN "tags" ELSE "reset"
             new   == [worker |-> w, items |-> S, next |-> first]
  <2>1. writes' = writes \cup {new} /\ UNCHANGED <<rows, mode, held, overtaken>>
    BY <1>2 DEF StartWrite
  <2>2. S \subseteq {h \in Held(w) : h.out # "busy" /\ ~InWrite(h)}
    BY <1>2 DEF StartWrite
  <2>3. S \subseteq ItemType
    BY <2>2 DEF Held, TypeOK
  <2>4. new \in WriteType /\ new.items = S /\ new.worker = w
    BY <2>3 DEF WriteType
  <2> HIDE DEF new
  <2>5. \A x \in writes : x.items \cap S = {}
    BY <2>2 DEF InWrite
  <2>6. \A u : Held(u)' = Held(u)
    BY <2>1 DEF Held
  <2>7. \A x \in writes' : x.items \subseteq {h \in Held(x.worker)' : h.out # "busy"}
    BY <2>1, <2>2, <2>4, <2>6 DEF TypeOK
  <2>8. OneWrite'
    BY <2>1, <2>4, <2>5 DEF OneWrite
  <2>9. writes' \subseteq WriteType
    BY <2>1, <2>4 DEF TypeOK
  <2> QED BY <2>1, <2>7, <2>8, <2>9 DEF TypeOK, rows
<1>3. ASSUME NEW w \in Workers, Stop(w) \/ Start(w)
      PROVE  TypeOK' /\ OneWrite'
  <2>1. UNCHANGED <<rows, held, writes, overtaken>> /\ mode' \in [Workers -> Modes]
    BY <1>3 DEF Stop, Start, TypeOK, Modes
  <2>2. \A u : Held(u)' = Held(u)
    BY <2>1 DEF Held
  <2> QED BY <2>1, <2>2 DEF TypeOK, OneWrite, rows
<1>4. ASSUME NEW w \in Workers, Exit(w) \/ Kill(w)
      PROVE  TypeOK' /\ OneWrite'
  <2>1. /\ UNCHANGED <<rows, overtaken>> /\ mode' \in [Workers -> Modes]
        /\ held' = held \ Held(w)
    BY <1>4 DEF Exit, Kill, TypeOK, Modes
  <2>2. \A h \in held \ held' : h.worker = w /\ h \in Held(w)
    BY <2>1 DEF Held
  <2>3. \A x \in writes : \A h \in x.items : h \in held /\ h.worker = x.worker
    BY DEF TypeOK, Held
  <2>4. writes' \subseteq writes /\ \A y \in writes' : y.items \cap (held \ held') = {}
    <3>1. CASE Held(w) = {} /\ writes' = writes
      BY <3>1, <2>2
    <3>2. CASE Writes(w) = {} /\ writes' = writes
      <4>1. \A y \in writes : y.worker # w
        BY <3>2 DEF Writes
      <4> QED BY <3>2, <4>1, <2>2, <2>3
    <3>3. CASE writes' = writes \ Writes(w)
      <4>1. \A y \in writes' : y \in writes /\ y.worker # w
        BY <3>3 DEF Writes
      <4> QED BY <4>1, <2>2, <2>3
    <3> QED BY <1>4, <3>1, <3>2, <3>3 DEF Exit, Kill
  <2> QED BY <2>1, <2>4, DropKeeps DEF TypeOK, rows
<1>5. ASSUME NEW h \in held, NEW out \in Outs, Convert(h, out)
      PROVE  TypeOK' /\ OneWrite'
  <2> DEFINE new == [h EXCEPT !.out = out]
  <2>1. held' = (held \ {h}) \cup {new} /\ h.out = "busy"
        /\ UNCHANGED <<rows, mode, writes, overtaken>>
    BY <1>5 DEF Convert
  <2>2. h \in ItemType
    BY DEF TypeOK
  <2>3. new \in ItemType
    BY <2>2 DEF ItemType
  <2> HIDE DEF new
  <2>4. held' \subseteq ItemType
    BY <2>1, <2>3 DEF TypeOK
  <2>5. \A x \in writes' : x.items \subseteq {g \in Held(x.worker)' : g.out # "busy"}
    BY <2>1 DEF TypeOK, Held
  <2> QED BY <2>1, <2>4, <2>5 DEF TypeOK, OneWrite, rows
<1>6. ASSUME NEW x \in writes, WriteTags(x) \/ WriteComplete(x) \/ WriteReset(x)
      PROVE  TypeOK' /\ OneWrite'
  <2>1. Done(x) \subseteq Images /\ Failed(x) \subseteq Images
    BY DEF TypeOK, Done, Failed, WriteType, ItemType
  <2>2. /\ status' \in [Images -> Statuses]
        /\ tagged' \subseteq Images /\ embedded' \subseteq Images
        /\ UNCHANGED <<attempt, age, mode, held, overtaken>>
    BY <1>6, <2>1 DEF WriteTags, WriteComplete, WriteReset, TypeOK, Statuses
  <2>3. PICK next \in {"tags", "complete", "reset", "release"} : Proceed(x, next)
    BY <1>6 DEF WriteTags, WriteComplete, WriteReset
  <2> QED BY <2>2, <2>3, ProceedKeeps DEF TypeOK
<1>7. ASSUME NEW x \in writes, WriteDone(x) \/ WriteFails(x)
      PROVE  TypeOK' /\ OneWrite'
  <2>1. /\ UNCHANGED <<rows, overtaken>> /\ mode' \in [Workers -> Modes]
        /\ held' = held \ x.items /\ writes' = writes \ {x}
    BY <1>7 DEF WriteDone, WriteFails, TypeOK, Modes
  <2>2. \A y \in writes' : y.items \cap (held \ held') = {}
    BY <2>1 DEF OneWrite
  <2> QED BY <2>1, <2>2, DropKeeps DEF TypeOK, rows
<1>8. ASSUME Tick PROVE TypeOK' /\ OneWrite'
  <2>1. \A u : Held(u)' = Held(u)
    BY <1>8 DEF Tick, Held
  <2>2. age' \in [Images -> 0..(RECLAIM_AFTER + 1)]
    BY <1>8 DEF Tick, TypeOK
  <2> QED BY <1>8, <2>1, <2>2 DEF Tick, TypeOK, OneWrite
<1>9. ASSUME UNCHANGED vars PROVE TypeOK' /\ OneWrite'
  <2>1. \A u : Held(u)' = Held(u)
    BY <1>9 DEF vars, Held
  <2> QED BY <1>9, <2>1 DEF vars, rows, TypeOK, OneWrite
<1> QED BY <1>1, <1>2, <1>3, <1>4, <1>5, <1>6, <1>7, <1>8, <1>9 DEF Next, WriteStep

LEMMA InitWhole == Init => WholeInv
<1> SUFFICES ASSUME Init PROVE WholeInv
  OBVIOUS
<1>1. TypeOK
  BY PipelineAssumption DEF Init, TypeOK, Statuses, Modes
<1> QED BY <1>1 DEF Init, WholeInv, OneWrite, TagsFirst, CompletedIsWhole

\* Tags and embeddings are only added, status becomes completed only in the
\* statement that stores the embeddings of images that are tagged.
LEMMA WholeStep == WholeInv /\ [Next]_vars => TagsFirst' /\ CompletedIsWhole'
<1> SUFFICES ASSUME WholeInv, [Next]_vars PROVE TagsFirst' /\ CompletedIsWhole'
  OBVIOUS
<1> USE DEF WholeInv
<1>1. ASSUME NEW w \in Workers, NEW S \in SUBSET Images, Claim(w, S)
      PROVE  TagsFirst' /\ CompletedIsWhole'
  <2>1. UNCHANGED <<tagged, embedded, writes>>
    BY <1>1 DEF Claim
  <2>2. \A i \in Images : status'[i] = "completed" => status[i] = "completed"
    BY <1>1 DEF Claim, TypeOK
  <2> QED BY <2>1, <2>2 DEF TagsFirst, CompletedIsWhole, Done
<1>2. ASSUME NEW w \in Workers, NEW S \in SUBSET Held(w), StartWrite(w, S)
      PROVE  TagsFirst' /\ CompletedIsWhole'
  <2>1. UNCHANGED rows
    BY <1>2 DEF StartWrite
  <2>2. \A x \in writes' : x \in writes \/ x.next # "complete"
    BY <1>2 DEF StartWrite
  <2> QED BY <2>1, <2>2 DEF TagsFirst, CompletedIsWhole, Done, rows
<1>3. ASSUME UNCHANGED rows, writes' \subseteq writes
      PROVE  TagsFirst' /\ CompletedIsWhole'
  BY <1>3 DEF TagsFirst, CompletedIsWhole, Done, rows
<1>4. ASSUME NEW x \in writes, WriteTags(x)
      PROVE  TagsFirst' /\ CompletedIsWhole'
  <2>1. \A y \in writes' : y \in writes \/ (y.next = "complete" /\ y.items = x.items)
    BY <1>4, ProceedKeeps DEF WriteTags
  <2>2. tagged' = tagged \cup Done(x) /\ UNCHANGED <<status, embedded>>
    BY <1>4 DEF WriteTags
  <2> QED BY <2>1, <2>2 DEF TagsFirst, CompletedIsWhole, Done
<1>5. ASSUME NEW x \in writes, WriteComplete(x)
      PROVE  TagsFirst' /\ CompletedIsWhole'
  <2>1. \A y \in writes' : y \in writes \/ y.next # "complete"
    <3>1. PICK next \in {"reset", "release"} : Proceed(x, next)
      BY <1>5 DEF WriteComplete
    <3> QED BY <1>5, <3>1, ProceedKeeps DEF WriteComplete
  <2>2. tagged' = tagged /\ embedded' = embedded \cup Done(x) /\ Done(x) \subseteq tagged
    BY <1>5 DEF WriteComplete, TagsFirst
  <2>3. \A i \in Images : status'[i] = "completed" => status[i] = "completed" \/ i \in Done(x)
    BY <1>5 DEF WriteComplete, TypeOK
  <2> QED BY <2>1, <2>2, <2>3 DEF TagsFirst, CompletedIsWhole, Done
<1>6. ASSUME NEW x \in writes, WriteReset(x)
      PROVE  TagsFirst' /\ CompletedIsWhole'
  <2>1. \A y \in writes' : y \in writes \/ y.next # "complete"
    BY <1>6, ProceedKeeps DEF WriteReset
  <2>2. UNCHANGED <<tagged, embedded>>
    BY <1>6 DEF WriteReset
  <2>3. \A i \in Images : status'[i] = "completed" => status[i] = "completed"
    BY <1>6 DEF WriteReset, TypeOK
  <2> QED BY <2>1, <2>2, <2>3 DEF TagsFirst, CompletedIsWhole, Done
<1>7. ASSUME NEW w \in Workers, Stop(w) \/ Exit(w) \/ Kill(w) \/ Start(w)
      PROVE  UNCHANGED rows /\ writes' \subseteq writes
  BY <1>7 DEF Stop, Exit, Kill, Start
<1>8. ASSUME NEW x \in writes, WriteDone(x) \/ WriteFails(x)
      PROVE  UNCHANGED rows /\ writes' \subseteq writes
  BY <1>8 DEF WriteDone, WriteFails
<1>9. ASSUME NEW h \in held, NEW out \in Outs, Convert(h, out)
      PROVE  UNCHANGED rows /\ writes' \subseteq writes
  BY <1>9 DEF Convert
<1>10. ASSUME Tick PROVE TagsFirst' /\ CompletedIsWhole'
  BY <1>10 DEF Tick, TagsFirst, CompletedIsWhole, Done
<1>11. ASSUME UNCHANGED vars PROVE UNCHANGED rows /\ writes' \subseteq writes
  BY <1>11 DEF vars
<1> QED BY <1>1, <1>2, <1>3, <1>4, <1>5, <1>6, <1>7, <1>8, <1>9, <1>10, <1>11
        DEF Next, WriteStep

LEMMA WholeInvariant == Spec => []WholeInv
<1>1. WholeInv /\ [Next]_vars => WholeInv'
  BY TypeStep, WholeStep DEF WholeInv
<1> QED BY <1>1, InitWhole, PTL DEF Spec

\* Every variable keeps its type, and a write only ever holds finished images of
\* its own worker, whichever of kills, failures and drains cut it off.
THEOREM TypeCorrect == Spec => []TypeOK
<1>1. WholeInv => TypeOK
  BY DEF WholeInv
<1> QED BY <1>1, WholeInvariant, PTL

\* A completed image has its tags and embeddings, also when workers are late and
\* write the same image twice: `record` stores the status last (cli.rs:724).
THEOREM CompletedImagesAreWhole == Spec => []CompletedIsWhole
<1>1. WholeInv => CompletedIsWhole
  BY DEF WholeInv
<1> QED BY <1>1, WholeInvariant, PTL

-----------------------------------------------------------------------------
(***************************************************************************)
(* The claim as a lock, on every image that no late worker was overtaken   *)
(* on.                                                                     *)
(***************************************************************************)

\* A completed image in the write that completed it.
Past(h) == h.out = "some" /\ \E x \in writes : h \in x.items /\ x.next \in {"reset", "release"}

\* One worker at most is at work on an image, and no two claims have the same
\* number.
Unique ==
  /\ \A g, h \in held : g.image = h.image =>
       g = h \/ LetGo(g) \/ LetGo(h) \/ g.image \in overtaken
  /\ \A g, h \in held : g.image = h.image /\ g.try = h.try => g = h
  /\ \A h \in held : h.try <= attempt[h.image]

\* The row of a held image is what its worker left it at.
RowIsMine ==
  \A h \in held : ~LetGo(h) /\ h.image \notin overtaken =>
    status[h.image] = IF Past(h) THEN "completed" ELSE "processing"

LockInv == WholeInv /\ Unique /\ RowIsMine

\* A held image that is in a write is in no other.
LEMMA InOneWrite ==
  ASSUME OneWrite, NEW x \in writes, NEW h \in x.items
  PROVE  /\ LetGo(h) <=> h.out = "none" /\ x.next = "release"
         /\ Past(h) <=> h.out = "some" /\ x.next \in {"reset", "release"}
BY DEF OneWrite, LetGo, Past

\* The steps that move nothing but writes of others, or images that go, leave the
\* rest as it was.
LEMMA DropKeepsLock ==
  ASSUME LockInv, UNCHANGED <<rows, overtaken>>, held' \subseteq held, writes' \subseteq writes,
         \A x \in writes \ writes' : x.items \cap held' = {}
  PROVE  Unique' /\ RowIsMine'
<1>1. \A h \in held' : (LetGo(h)' <=> LetGo(h)) /\ (Past(h)' <=> Past(h))
  BY DEF LetGo, Past
<1> QED BY <1>1 DEF LockInv, Unique, RowIsMine, rows

\* The lock survives a claim: what it takes is held by nobody who still owns it.
LEMMA ClaimKeepsLock ==
  ASSUME LockInv, NEW w \in Workers, NEW S \in SUBSET Images, Claim(w, S)
  PROVE  Unique' /\ RowIsMine'
<1> DEFINE new == {[worker |-> w, image |-> i, try |-> attempt'[i], out |-> "busy"] : i \in S}
<1> USE PipelineAssumption
<1>1. TypeOK
  BY DEF LockInv, WholeInv
<1>2. held' = held \cup new /\ writes' = writes
  BY DEF Claim
<1>3. \A h \in new : h.image \in S /\ h.out = "busy" /\ h.try = attempt'[h.image]
  OBVIOUS
<1>4. \A g, h \in new : g.image = h.image => g = h
  OBVIOUS
<1> HIDE DEF new
<1>5. \A h : (LetGo(h)' <=> LetGo(h)) /\ (Past(h)' <=> Past(h))
  BY <1>2 DEF LetGo, Past
<1>6. \A h \in held : h.image \in Images /\ h.try \in Nat
  BY <1>1 DEF TypeOK, ItemType
<1>7. \A i \in S : /\ status'[i] = "processing" /\ age'[i] = 0 /\ attempt'[i] = attempt[i] + 1
                   /\ i \in Images /\ attempt[i] \in Nat
                   /\ status[i] \in {"pending", "processing"}
                   /\ status[i] # "pending" => Stale(i)
  BY <1>1 DEF Claim, Claimable, Stale, TypeOK, Statuses
<1>8. \A i \in Images \ S : status'[i] = status[i] /\ age'[i] = age[i] /\ attempt'[i] = attempt[i]
  BY DEF Claim
<1>0. /\ overtaken \subseteq overtaken'
      /\ \A i \in S : Stale(i) /\ (\E h \in held : h.image = i /\ ~LetGo(h)) => i \in overtaken'
  BY DEF Claim
<1>9. \A h \in held : h.image \in S => LetGo(h) \/ h.image \in overtaken'
  <2> SUFFICES ASSUME NEW h \in held, h.image \in S, ~LetGo(h), h.image \notin overtaken'
               PROVE  FALSE
    OBVIOUS
  <2>1. h.image \notin overtaken /\ ~Stale(h.image)
    BY <1>0
  <2>2. status[h.image] = "pending"
    BY <1>7, <2>1
  <2> QED BY <2>1, <2>2 DEF LockInv, RowIsMine
<1>10. \A h \in held : h.image \in S => h.try < attempt'[h.image]
  BY <1>6, <1>7 DEF LockInv, Unique
<1>11. Unique'
  <2>1. ASSUME NEW g \in held', NEW h \in held', g.image = h.image
        PROVE  g = h \/ LetGo(g)' \/ LetGo(h)' \/ g.image \in overtaken'
    BY <2>1, <1>0, <1>2, <1>3, <1>4, <1>5, <1>9 DEF LockInv, Unique
  <2>2. ASSUME NEW g \in held', NEW h \in held', g.image = h.image, g.try = h.try
        PROVE  g = h
    <3>1. CASE g \in held /\ h \in held
      BY <2>2, <3>1 DEF LockInv, Unique
    <3>2. CASE g \in new /\ h \in new
      BY <2>2, <3>2, <1>4
    <3>3. CASE g \in held /\ h \in new
      <4>1. g.try < attempt'[g.image] /\ h.try = attempt'[g.image]
        BY <2>2, <3>3, <1>3, <1>10
      <4>2. attempt'[g.image] \in Nat /\ g.try \in Nat
        BY <2>2, <3>3, <1>3, <1>6, <1>7
      <4> QED BY <2>2, <4>1, <4>2
    <3>4. CASE g \in new /\ h \in held
      <4>1. h.try < attempt'[g.image] /\ g.try = attempt'[g.image]
        BY <2>2, <3>4, <1>3, <1>10
      <4>2. attempt'[g.image] \in Nat /\ h.try \in Nat
        BY <2>2, <3>4, <1>3, <1>6, <1>7
      <4> QED BY <2>2, <4>1, <4>2
    <3> QED BY <1>2, <3>1, <3>2, <3>3, <3>4
  <2>3. ASSUME NEW h \in held' PROVE h.try <= attempt'[h.image]
    <3>1. CASE h \in new
      BY <3>1, <1>3, <1>7
    <3>2. CASE h \in held /\ h.image \in S
      BY <3>2, <1>6, <1>7, <1>10
    <3>3. CASE h \in held /\ h.image \notin S
      BY <3>3, <1>6, <1>8 DEF LockInv, Unique
    <3> QED BY <1>2, <3>1, <3>2, <3>3
  <2> QED BY <2>1, <2>2, <2>3 DEF Unique
<1>12. RowIsMine'
  <2>1. ASSUME NEW h \in new
        PROVE  ~Past(h) /\ status'[h.image] = "processing"
    BY <1>3, <1>7 DEF Past
  <2>2. ASSUME NEW h \in held, ~LetGo(h), h.image \notin overtaken'
        PROVE  status'[h.image] = IF Past(h) THEN "completed" ELSE "processing"
    <3>1. h.image \in Images \ S /\ h.image \notin overtaken
      BY <2>2, <1>0, <1>6, <1>9
    <3> QED BY <2>2, <3>1, <1>8 DEF LockInv, RowIsMine
  <2> QED BY <1>2, <1>5, <2>1, <2>2 DEF RowIsMine
<1> QED BY <1>11, <1>12

\* A finished image is the one it was, with a result.
LEMMA ConvertKeepsLock ==
  ASSUME LockInv, NEW h \in held, NEW out \in Outs, Convert(h, out)
  PROVE  Unique' /\ RowIsMine'
<1> DEFINE new == [h EXCEPT !.out = out]
<1>1. TypeOK
  BY DEF LockInv, WholeInv
<1>2. /\ held' = (held \ {h}) \cup {new}
      /\ h.out = "busy" /\ out # "busy" /\ UNCHANGED <<rows, writes, overtaken>>
  BY DEF Convert
<1>3. h \in ItemType
  BY <1>1 DEF TypeOK
<1>4. new.image = h.image /\ new.try = h.try /\ new.out = out /\ new # h
  BY <1>2, <1>3 DEF ItemType
<1> HIDE DEF new
<1>5. \A g : (LetGo(g)' <=> LetGo(g)) /\ (Past(g)' <=> Past(g))
  BY <1>2 DEF LetGo, Past
<1>6. new \notin held
  BY <1>4 DEF LockInv, Unique
<1>7. \A x \in writes : h \notin x.items /\ new \notin x.items
  BY <1>1, <1>2, <1>6 DEF TypeOK, Held
<1>8. ~LetGo(h) /\ ~LetGo(new) /\ ~Past(h) /\ ~Past(new)
  BY <1>7 DEF LetGo, Past
<1>9. Unique'
  BY <1>2, <1>4, <1>5, <1>8 DEF LockInv, Unique, rows
<1>10. RowIsMine'
  BY <1>2, <1>4, <1>5, <1>8 DEF LockInv, RowIsMine, rows
<1> QED BY <1>9, <1>10

\* A new write takes images that are in no other, and has not passed anything.
LEMMA StartWriteKeepsLock ==
  ASSUME LockInv, NEW w \in Workers, NEW S \in SUBSET Held(w), StartWrite(w, S)
  PROVE  Unique' /\ RowIsMine'
<1> DEFINE first == IF \E h \in S : h.out = "some" THEN "tags" ELSE "reset"
           new   == [worker |-> w, items |-> S, next |-> first]
<1>1. writes' = writes \cup {new} /\ UNCHANGED <<rows, mode, held, overtaken>>
  BY DEF StartWrite
<1>2. /\ new.items = S /\ new.next \in {"tags", "reset"}
      /\ new.next = "reset" => \A h \in S : h.out # "some"
  OBVIOUS
<1> HIDE DEF new
<1>3. \A h : (LetGo(h)' <=> LetGo(h)) /\ (Past(h)' <=> Past(h))
  BY <1>1, <1>2 DEF LetGo, Past
<1> QED BY <1>1, <1>3 DEF LockInv, Unique, RowIsMine, rows

\* A write that moves on keeps its images.
LEMMA ProceedTo ==
  ASSUME TypeOK, NEW x \in writes, NEW next \in {"tags", "complete", "reset", "release"},
         Proceed(x, next)
  PROVE  \E y : writes' = (writes \ {x}) \cup {y} /\ y.next = next /\ y.items = x.items
<1> DEFINE y == [x EXCEPT !.next = next]
<1>1. x \in WriteType
  BY DEF TypeOK
<1>2. y.next = next /\ y.items = x.items
  BY <1>1 DEF WriteType
<1>3. writes' = (writes \ {x}) \cup {y}
  BY DEF Proceed
<1> QED BY <1>2, <1>3

\* Tagging moves a write on, before anything is passed.
LEMMA TagsKeepLock ==
  ASSUME LockInv, NEW x \in writes, WriteTags(x)
  PROVE  Unique' /\ RowIsMine'
<1>1. TypeOK /\ OneWrite /\ x.next = "tags" /\ Proceed(x, "complete")
      /\ UNCHANGED <<status, attempt, age, held, overtaken>>
  BY DEF LockInv, WholeInv, WriteTags
<1>2. PICK y : writes' = (writes \ {x}) \cup {y} /\ y.next = "complete"
  BY <1>1, ProceedTo
<1>3. \A h : (LetGo(h)' <=> LetGo(h)) /\ (Past(h)' <=> Past(h))
  BY <1>1, <1>2 DEF LetGo, Past
<1> QED BY <1>1, <1>3 DEF LockInv, Unique, RowIsMine

\* Completing a write's images makes them past, and nothing else.
LEMMA CompleteKeepsLock ==
  ASSUME LockInv, NEW x \in writes, WriteComplete(x)
  PROVE  Unique' /\ RowIsMine'
<1> DEFINE next == IF Failed(x) = {} THEN "release" ELSE "reset"
<1>1. TypeOK /\ OneWrite /\ x.next = "complete" /\ Proceed(x, next)
      /\ UNCHANGED <<attempt, age, held, overtaken>>
  BY DEF LockInv, WholeInv, WriteComplete
<1>2. PICK y : writes' = (writes \ {x}) \cup {y} /\ y.next = next /\ y.items = x.items
  BY <1>1, ProceedTo
<1>3. next = "release" => \A h \in x.items : h.out # "none"
  BY DEF Failed
<1>4. next \in {"reset", "release"}
  OBVIOUS
<1> HIDE DEF next
<1>5. \A h : LetGo(h)' <=> LetGo(h)
  BY <1>1, <1>2, <1>3 DEF LetGo
<1>6. \A h : Past(h)' <=> Past(h) \/ (h \in x.items /\ h.out = "some")
  BY <1>1, <1>2, <1>4 DEF Past
<1>7. \A h \in held : h.image \in Images
  BY <1>1 DEF TypeOK, ItemType
<1>8. \A i \in Images : status'[i] = IF i \in Done(x) THEN "completed" ELSE status[i]
  BY DEF WriteComplete
<1>9. \A h \in x.items : h \in held
  BY <1>1 DEF TypeOK, Held
<1>10. \A h \in x.items : ~LetGo(h)
  BY <1>1, InOneWrite
<1>11. \A h \in held : ~LetGo(h) /\ h.image \in Done(x) /\ h.image \notin overtaken
                        => h \in x.items /\ h.out = "some"
  BY <1>9, <1>10 DEF Done, LockInv, Unique
<1>12. Unique'
  BY <1>1, <1>5 DEF LockInv, Unique
<1>13. RowIsMine'
  <2> SUFFICES ASSUME NEW h \in held, ~LetGo(h), h.image \notin overtaken
               PROVE  status'[h.image] = IF Past(h)' THEN "completed" ELSE "processing"
    BY <1>1, <1>5 DEF RowIsMine
  <2>1. CASE h \in x.items /\ h.out = "some"
    <3>1. h.image \in Done(x)
      BY <2>1 DEF Done
    <3> QED BY <2>1, <3>1, <1>6, <1>7, <1>8
  <2>2. CASE ~(h \in x.items /\ h.out = "some")
    <3>1. h.image \notin Done(x)
      BY <2>2, <1>11
    <3> QED BY <2>2, <3>1, <1>1, <1>6, <1>7, <1>8 DEF LockInv, RowIsMine
  <2> QED BY <2>1, <2>2
<1> QED BY <1>12, <1>13

\* Resetting a write's failed images lets go of them, and of nobody else's.
LEMMA ResetKeepsLock ==
  ASSUME LockInv, NEW x \in writes, WriteReset(x)
  PROVE  Unique' /\ RowIsMine'
<1>1. TypeOK /\ OneWrite /\ x.next = "reset" /\ Proceed(x, "release")
      /\ UNCHANGED <<attempt, age, held, overtaken>>
  BY DEF LockInv, WholeInv, WriteReset
<1>2. PICK y : writes' = (writes \ {x}) \cup {y} /\ y.next = "release" /\ y.items = x.items
  BY <1>1, ProceedTo
<1>3. \A h : LetGo(h)' <=> LetGo(h) \/ (h \in x.items /\ h.out = "none")
  BY <1>1, <1>2 DEF LetGo
<1>4. \A h : Past(h)' <=> Past(h)
  BY <1>1, <1>2 DEF Past
<1>5. \A h \in held : h.image \in Images
  BY <1>1 DEF TypeOK, ItemType
<1>6. \A i \in Images : status'[i] = IF i \in Failed(x) THEN "pending" ELSE status[i]
  BY DEF WriteReset
<1>7. \A h \in x.items : h \in held /\ ~LetGo(h)
  BY <1>1, InOneWrite DEF TypeOK, Held
<1>8. \A h \in held : ~LetGo(h) /\ h.image \in Failed(x) /\ h.image \notin overtaken
                       => h \in x.items /\ h.out = "none"
  BY <1>7 DEF Failed, LockInv, Unique
<1>9. Unique'
  BY <1>1, <1>3 DEF LockInv, Unique
<1>10. RowIsMine'
  BY <1>1, <1>3, <1>4, <1>5, <1>6, <1>8 DEF LockInv, RowIsMine
<1> QED BY <1>9, <1>10

\* Time alone takes nothing from anybody.
LEMMA TickKeepsLock ==
  ASSUME LockInv, Tick
  PROVE  Unique' /\ RowIsMine'
<1>1. UNCHANGED <<status, attempt, held, writes, overtaken>>
  BY DEF Tick
<1>2. \A h : (LetGo(h)' <=> LetGo(h)) /\ (Past(h)' <=> Past(h))
  BY <1>1 DEF LetGo, Past
<1> QED BY <1>1, <1>2 DEF LockInv, Unique, RowIsMine

\* A kill, an exit or a failed write takes images along that are its own.
LEMMA LeaveKeepsLock ==
  ASSUME LockInv,
         \/ \E w \in Workers : Exit(w) \/ Kill(w)
         \/ \E x \in writes : WriteDone(x) \/ WriteFails(x)
  PROVE  Unique' /\ RowIsMine'
<1>1. TypeOK
  BY DEF LockInv, WholeInv
<1>2. CASE \E w \in Workers : Exit(w) \/ Kill(w)
  <2>1. PICK w \in Workers : Exit(w) \/ Kill(w)
    BY <1>2
  <2>2. UNCHANGED <<rows, overtaken>> /\ held' = held \ Held(w) /\ writes' \subseteq writes
        /\ writes \ writes' \subseteq Writes(w)
    BY <2>1 DEF Exit, Kill
  <2>3. \A x \in Writes(w) : x.items \subseteq Held(w)
    BY <1>1 DEF TypeOK, Writes
  <2> QED BY <2>2, <2>3, DropKeepsLock
<1>3. CASE \E x \in writes : WriteDone(x) \/ WriteFails(x)
  BY <1>3, DropKeepsLock DEF WriteDone, WriteFails
<1> QED BY <1>2, <1>3

LEMMA InitLock == Init => LockInv
<1> SUFFICES ASSUME Init PROVE LockInv
  OBVIOUS
<1>1. held = {}
  BY DEF Init
<1> QED BY <1>1, InitWhole DEF LockInv, Unique, RowIsMine

LEMMA LockStep == LockInv /\ [Next]_vars => LockInv'
<1> SUFFICES ASSUME LockInv, [Next]_vars PROVE LockInv'
  OBVIOUS
<1>1. WholeInv'
  BY TypeStep, WholeStep DEF LockInv, WholeInv
<1>2. ASSUME NEW w \in Workers, Stop(w) \/ Start(w) PROVE Unique' /\ RowIsMine'
  BY <1>2, DropKeepsLock DEF Stop, Start
<1>3. ASSUME UNCHANGED vars PROVE Unique' /\ RowIsMine'
  BY <1>3, DropKeepsLock DEF vars
<1>4. Unique' /\ RowIsMine'
  BY <1>2, <1>3, ClaimKeepsLock, StartWriteKeepsLock, ConvertKeepsLock, TagsKeepLock,
     CompleteKeepsLock, ResetKeepsLock, TickKeepsLock, LeaveKeepsLock
     DEF Next, WriteStep
<1> QED BY <1>1, <1>4 DEF LockInv

LEMMA LockInvariant == Spec => []LockInv
<1>1. LockInv /\ [Next]_vars => LockInv'
  BY LockStep
<1> QED BY <1>1, InitLock, PTL DEF Spec

-----------------------------------------------------------------------------
\* The status that a claim sets (cli.rs:341) excludes every other worker until the
\* image is written, unless its worker is late and overtaken.
THEOREM ClaimsAreExclusive == Spec => []Exclusive
<1>1. LockInv => Exclusive
  <2> SUFFICES ASSUME LockInv PROVE Exclusive
    OBVIOUS
  <2>1. ASSUME NEW h \in held, status[h.image] # "processing", ~LetGo(h),
               h.image \notin overtaken
        PROVE  \E x \in writes : h \in x.items /\ h.image \notin ToUpdate(x)
    <3>1. Past(h)
      BY <2>1 DEF LockInv, RowIsMine
    <3>2. PICK x \in writes : h \in x.items /\ x.next \in {"reset", "release"}
      BY <3>1 DEF Past
    <3>3. x.next = "reset" => h.image \notin Failed(x)
      <4> SUFFICES ASSUME x.next = "reset", NEW g \in x.items, g.out = "none", g.image = h.image
                   PROVE  FALSE
        BY DEF Failed
      <4>1. g \in held /\ ~LetGo(g) /\ g # h
        BY <3>1, InOneWrite DEF LockInv, WholeInv, TypeOK, Held, Past
      <4> QED BY <4>1, <2>1 DEF LockInv, Unique
    <3> QED BY <3>2, <3>3 DEF ToUpdate
  <2> QED BY <2>1 DEF Exclusive, LockInv, Unique
<1> QED BY <1>1, LockInvariant, PTL

\* The comment of cli.rs:615, and where it stops being true: writes that overlap
\* do so on images a late worker was overtaken on.
THEOREM WritesOverlapOnlyWhenLate == Spec => []WritesAreDisjoint
<1>1. LockInv => WritesAreDisjoint
  <2> SUFFICES ASSUME LockInv, NEW x \in writes, NEW y \in writes, x # y,
                      NEW i \in ToUpdate(x), i \in ToUpdate(y), i \notin overtaken
               PROVE  FALSE
    BY DEF WritesAreDisjoint
  <2>1. ASSUME NEW z \in writes, i \in ToUpdate(z)
        PROVE  \E h \in z.items : h \in held /\ h.image = i /\ ~LetGo(h)
    <3>1. z.next # "release"
      BY <2>1 DEF ToUpdate
    <3>2. PICK h \in z.items : h.image = i
      BY <2>1, <3>1 DEF ToUpdate, Done, Failed
    <3>3. h \in held /\ ~LetGo(h)
      BY <3>1, InOneWrite DEF LockInv, WholeInv, TypeOK, Held
    <3> QED BY <3>2, <3>3
  <2>2. PICK g \in x.items : g \in held /\ g.image = i /\ ~LetGo(g)
    BY <2>1
  <2>3. PICK h \in y.items : h \in held /\ h.image = i /\ ~LetGo(h)
    BY <2>1
  <2>4. g = h
    BY <2>2, <2>3 DEF LockInv, Unique
  <2> QED BY <2>4 DEF LockInv, WholeInv, OneWrite
<1> QED BY <1>1, LockInvariant, PTL

\* The `UPDATE images SET status = 'pending'` of a failed result (cli.rs:750) has no
\* condition on the status; it undoes a completion only on an image that a late
\* worker was overtaken on.
THEOREM OnlyLateUndoCompletions == Spec => CompletedStays
<1> DEFINE Stays == \A i \in Images : status[i] = "completed" =>
                      status'[i] = "completed" \/ i \in overtaken
<1>1. LockInv /\ [Next]_vars => [Stays]_vars
  <2> SUFFICES ASSUME LockInv, Next, NEW i \in Images, status[i] = "completed",
                      i \notin overtaken
               PROVE  status'[i] = "completed"
    OBVIOUS
  <2>1. ASSUME NEW w \in Workers, NEW S \in SUBSET Images, Claim(w, S)
        PROVE  status'[i] = "completed"
    BY <2>1 DEF Claim, Claimable, Stale
  <2>2. ASSUME NEW x \in writes, WriteReset(x)
        PROVE  status'[i] = "completed"
    <3>1. i \notin Failed(x)
      <4> SUFFICES ASSUME NEW h \in x.items, h.out = "none", h.image = i
                   PROVE  FALSE
        BY DEF Failed
      <4>1. h \in held /\ ~LetGo(h) /\ ~Past(h)
        BY <2>2, InOneWrite DEF LockInv, WholeInv, TypeOK, Held, WriteReset
      <4> QED BY <4>1 DEF LockInv, RowIsMine
    <3> QED BY <2>2, <3>1 DEF WriteReset
  <2>3. ASSUME NEW x \in writes, WriteTags(x) \/ WriteComplete(x) \/ WriteDone(x) \/ WriteFails(x)
        PROVE  status'[i] = "completed"
    BY <2>3 DEF WriteTags, WriteComplete, WriteDone, WriteFails, rows
  <2>4. ASSUME NEW w \in Workers,
               Stop(w) \/ Exit(w) \/ Kill(w) \/ Start(w) \/ \E S \in SUBSET Held(w) : StartWrite(w, S)
        PROVE  status'[i] = "completed"
    BY <2>4 DEF Stop, Exit, Kill, Start, StartWrite, rows
  <2>5. ASSUME Tick \/ \E h \in held, out \in Outs : Convert(h, out)
        PROVE  status'[i] = "completed"
    BY <2>5 DEF Tick, Convert, rows
  <2> QED BY <2>1, <2>2, <2>3, <2>4, <2>5 DEF Next, WriteStep
<1> QED BY <1>1, LockInvariant, PTL DEF Spec, CompletedStays
=============================================================================
