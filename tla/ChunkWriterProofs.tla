------------------------- MODULE ChunkWriterProofs -------------------------
(***************************************************************************)
(* What every method of the chunk writer keeps, whatever the disk does to  *)
(* it: the published pairs are one chain, and the writer knows its end.    *)
(***************************************************************************)
EXTENDS ChunkWriter, FiniteSetTheorems, SequenceTheorems, TLAPS

Outcome == [w : Writer, raised : {"no", "OSError", "other"}]

\* The last frame in a pair, as the writer remembers it.
Covered(v) == IF v.previous = 0 THEN 0 ELSE v.files[v.previous].last

\* The pairs are linked; this is ChainHolds, of any writer.
Linked(v) ==
    \A k \in PairsOf(v) :
        /\ v.files[k].name = "chunk"
        /\ v.files[k].first <= v.files[k].last + 1
        /\ v.files[k].last <= Len(v.log)
        /\ IF v.files[k].prev = 0
           THEN v.files[k].first = 1 /\ \A j \in PairsOf(v) : j >= k
           ELSE /\ v.files[k].prev \in PairsOf(v) /\ v.files[k].prev < k
                /\ v.files[k].first = v.files[v.files[k].prev].last + 1

\* The memory of the chain is right: its last pair, its length, and what is in it.
HeldPairs(v) ==
    /\ v.previous = 0 => PairsOf(v) = {}
    /\ v.previous # 0 => v.previous \in PairsOf(v) /\ \A j \in PairsOf(v) : j <= v.previous
    /\ v.sealed = Cardinality(PairsOf(v))
    /\ \A n \in 1 .. Covered(v) :
          \E k \in PairsOf(v) : n \in v.files[k].first .. v.files[k].last

\* The chunk being written begins where the chain ends.
HeldChunk(v) ==
    /\ v.chunk \in {"none", "headless"} => Covered(v) = Len(v.log)
    /\ v.chunk = "open" =>
          /\ Now(v) \in DOMAIN v.files /\ ~v.files[Now(v)].manifest
          /\ v.files[Now(v)].first = Covered(v) + 1
          /\ Covered(v) <= Len(v.log)

\* A writer whose seal failed knows nothing any more, and writes nothing any more.
WInv(v) ==
    /\ v \in Writer
    /\ Linked(v)
    /\ v.chunk # "broken" => HeldPairs(v) /\ HeldChunk(v)

\* Two writers have the same pairs, and u stored all that v stored.
SamePairs(u, v) ==
    /\ u \in Writer /\ v \in Writer
    /\ PairsOf(u) = PairsOf(v)
    /\ \A k \in PairsOf(v) :
          /\ u.files[k].name = v.files[k].name /\ u.files[k].first = v.files[k].first
          /\ u.files[k].last = v.files[k].last /\ u.files[k].prev = v.files[k].prev
    /\ Len(v.log) <= Len(u.log)

-----------------------------------------------------------------------------
\* A writer is a record of its fields, so that each may be looked at alone.
LEMMA WriterFields ==
    ASSUME NEW v \in Writer
    PROVE  /\ v.files \in Seq(File) /\ v.log \in Seq(Frame)
           /\ Len(v.files) \in Nat /\ Len(v.log) \in Nat
           /\ DOMAIN v.files = 1 .. Len(v.files)
           /\ \A k \in DOMAIN v.files : v.files[k] \in File
           /\ v.previous \in Nat /\ v.sealed \in Nat /\ v.faults \in Nat
           /\ v.paused \in BOOLEAN /\ v.lost \subseteq Losses
           /\ v.chunk \in {"none", "open", "headless", "broken"}
  BY DEF Writer

\* The same pairs are linked in both writers.
LEMMA SameLinked ==
    ASSUME NEW u, NEW v, SamePairs(u, v), Linked(v)
    PROVE  Linked(u)
<1> SUFFICES ASSUME NEW k \in PairsOf(u)
             PROVE  /\ u.files[k].name = "chunk"
                    /\ u.files[k].first <= u.files[k].last + 1
                    /\ u.files[k].last <= Len(u.log)
                    /\ IF u.files[k].prev = 0
                       THEN u.files[k].first = 1 /\ \A j \in PairsOf(u) : j >= k
                       ELSE /\ u.files[k].prev \in PairsOf(u) /\ u.files[k].prev < k
                            /\ u.files[k].first = u.files[u.files[k].prev].last + 1
  BY DEF Linked
<1>1. k \in PairsOf(v) /\ v.files[k] \in File
  BY WriterFields DEF SamePairs, PairsOf
<1>2. Len(v.log) \in Nat /\ Len(u.log) \in Nat /\ Len(v.log) <= Len(u.log) /\ v.files[k].last \in Nat
  BY <1>1, WriterFields DEF SamePairs, File
<1> QED  BY <1>1, <1>2 DEF SamePairs, Linked

\* What the writer remembers of the chain is right for the same pairs.
LEMMA SameHeld ==
    ASSUME NEW u, NEW v, SamePairs(u, v), HeldPairs(v),
           u.previous = v.previous, u.sealed = v.sealed
    PROVE  HeldPairs(u) /\ Covered(u) = Covered(v)
<1>1. Covered(u) = Covered(v)
  BY DEF SamePairs, HeldPairs, Covered
<1> QED  BY <1>1 DEF SamePairs, HeldPairs

\* Replacing a file is a writer with the same number of files.
LEMMA FileReplaced ==
    ASSUME NEW v \in Writer, NEW i \in DOMAIN v.files, NEW x \in File
    PROVE  LET u == [v EXCEPT !.files = [@ EXCEPT ![i] = x]]
           IN  /\ u \in Writer
               /\ u.files = [v.files EXCEPT ![i] = x]
               /\ DOMAIN u.files = DOMAIN v.files /\ Len(u.files) = Len(v.files)
<1>1. v.files \in Seq(File) /\ i \in 1 .. Len(v.files)
  BY WriterFields
<1>2. /\ [v.files EXCEPT ![i] = x] \in Seq(File)
      /\ Len([v.files EXCEPT ![i] = x]) = Len(v.files)
  BY <1>1, ExceptSeq
<1> QED  BY <1>1, <1>2 DEF Writer

\* v with one more file.
Begun(v, x, c) == [v EXCEPT !.files = Append(@, x), !.chunk = c]

\* Appending a file with no manifest leaves the pairs alone.
LEMMA FileAppended ==
    ASSUME NEW v \in Writer, NEW x \in File, ~x.manifest,
           NEW c \in {"none", "open", "headless"}
    PROVE  LET u == Begun(v, x, c)
           IN  /\ SamePairs(u, v)
               /\ Now(u) \in DOMAIN u.files /\ u.files[Now(u)] = x
               /\ u.previous = v.previous /\ u.sealed = v.sealed
               /\ u.log = v.log /\ u.chunk = c
<1> DEFINE u == Begun(v, x, c)
<1>1. /\ v.files \in Seq(File) /\ Len(v.files) \in Nat /\ DOMAIN v.files = 1 .. Len(v.files)
      /\ Len(v.log) \in Nat
  BY WriterFields
<1>2. /\ Append(v.files, x) \in Seq(File)
      /\ Len(Append(v.files, x)) = Len(v.files) + 1
      /\ DOMAIN Append(v.files, x) = 1 .. Len(v.files) + 1
      /\ \A k \in 1 .. Len(v.files) : Append(v.files, x)[k] = v.files[k]
      /\ Append(v.files, x)[Len(v.files) + 1] = x
  BY <1>1
<1>3. u \in Writer /\ u.files = Append(v.files, x) /\ u.previous = v.previous
      /\ u.sealed = v.sealed /\ u.log = v.log /\ u.chunk = c
  BY <1>2 DEF Writer, Begun
<1> HIDE DEF u
<1>4. PairsOf(u) = PairsOf(v)
  BY <1>1, <1>2, <1>3 DEF PairsOf
<1>5. \A k \in PairsOf(v) : u.files[k] = v.files[k]
  BY <1>1, <1>2, <1>3 DEF PairsOf
<1>6. SamePairs(u, v)
  <2>1. Len(v.log) <= Len(u.log)
    BY <1>1, <1>3
  <2> QED  BY <2>1, <1>3, <1>4, <1>5 DEF SamePairs
<1>7. Now(u) \in DOMAIN u.files /\ u.files[Now(u)] = x
  BY <1>1, <1>2, <1>3 DEF Now
<1> QED  BY <1>3, <1>6, <1>7 DEF u

-----------------------------------------------------------------------------
(* Changes that leave the chunk being written as it is.                     *)

\* u is v with frames appended to the open chunk, bytes of it lost, or a pause.
Kept(u, v) ==
    /\ SamePairs(u, v)
    /\ u.previous = v.previous /\ u.sealed = v.sealed /\ u.chunk = v.chunk
    /\ Len(u.files) = Len(v.files)
    /\ v.chunk # "open" => Len(u.log) = Len(v.log)
    /\ v.chunk = "open" => u.files[Now(v)].first = v.files[Now(v)].first

\* Such a change keeps what the writer knows.
LEMMA KeptHolds ==
    ASSUME NEW u, NEW v, WInv(v), Kept(u, v)
    PROVE  WInv(u)
<1>1. u \in Writer /\ v \in Writer /\ Linked(u)
  BY SameLinked DEF Kept, SamePairs, WInv
<1>2. ASSUME u.chunk # "broken"
      PROVE  HeldPairs(u) /\ HeldChunk(u)
  <2>1. HeldPairs(v) /\ HeldChunk(v) /\ SamePairs(u, v)
    BY <1>2 DEF Kept, WInv
  <2>2. HeldPairs(u) /\ Covered(u) = Covered(v)
    BY <2>1, SameHeld DEF Kept
  <2>3. ASSUME u.chunk = "open"
        PROVE  /\ Now(u) \in DOMAIN u.files /\ ~u.files[Now(u)].manifest
               /\ u.files[Now(u)].first = Covered(u) + 1
               /\ Covered(u) <= Len(u.log)
    <3>1. /\ Now(v) \in DOMAIN v.files /\ ~v.files[Now(v)].manifest
          /\ v.files[Now(v)].first = Covered(v) + 1
          /\ Covered(v) <= Len(v.log)
      BY <2>1, <2>3 DEF HeldChunk, Kept
    <3>2. Now(u) = Now(v) /\ Now(u) \in DOMAIN u.files
      BY <1>1, <3>1, WriterFields DEF Kept, Now
    <3>3. ~u.files[Now(u)].manifest
      BY <2>1, <3>1, <3>2 DEF SamePairs, PairsOf
    <3>4. u.files[Now(u)].first = Covered(u) + 1
      BY <2>2, <2>3, <3>1, <3>2 DEF Kept
    <3>5. Covered(v) \in Nat /\ Len(v.log) \in Nat /\ Len(u.log) \in Nat
      <4>1. v.previous # 0 => v.previous \in DOMAIN v.files
        BY <2>1 DEF HeldPairs, PairsOf
      <4> QED  BY <1>1, <4>1, WriterFields DEF Covered, File
    <3>6. Covered(u) <= Len(u.log)
      BY <2>1, <2>2, <3>1, <3>5 DEF SamePairs
    <3> QED  BY <3>2, <3>3, <3>4, <3>6
  <2>4. ASSUME u.chunk \in {"none", "headless"}
        PROVE  Covered(u) = Len(u.log)
    BY <2>1, <2>2, <2>4 DEF HeldChunk, Kept
  <2> QED  BY <2>2, <2>3, <2>4 DEF HeldChunk
<1> QED  BY <1>1, <1>2 DEF WInv

\* Two such changes are one.
LEMMA KeptTwice ==
    ASSUME NEW t, NEW u, NEW v, Kept(t, u), Kept(u, v)
    PROVE  Kept(t, v)
<1>1. t \in Writer /\ u \in Writer /\ v \in Writer
  BY DEF Kept, SamePairs
<1>2. Len(t.log) \in Nat /\ Len(u.log) \in Nat /\ Len(v.log) \in Nat
  BY <1>1, WriterFields
<1>3. SamePairs(t, v)
  BY <1>1, <1>2 DEF Kept, SamePairs
<1>4. Now(u) = Now(v)
  BY DEF Kept, Now
<1> QED  BY <1>3, <1>4 DEF Kept

\* Fields that say nothing of the files may change at will.
LEMMA KeptFields ==
    ASSUME NEW u \in Writer, NEW v \in Writer,
           u.files = v.files, u.previous = v.previous, u.sealed = v.sealed,
           u.chunk = v.chunk, u.log = v.log
    PROVE  Kept(u, v)
<1>1. Len(v.log) \in Nat
  BY WriterFields
<1>2. SamePairs(u, v)
  <2>1. PairsOf(u) = PairsOf(v)
    BY DEF PairsOf
  <2>2. Len(v.log) <= Len(u.log)
    BY <1>1
  <2> QED  BY <2>1, <2>2 DEF SamePairs
<1> QED  BY <1>2 DEF Kept

\* Bytes of the chunk last begun are lost.
LEMMA TearKept ==
    ASSUME NEW v \in Writer, Now(v) \in DOMAIN v.files
    PROVE  Tear(v) \in Writer /\ Kept(Tear(v), v)
<1> DEFINE x == [v.files[Now(v)] EXCEPT !.torn = TRUE]
           u == [v EXCEPT !.files = [@ EXCEPT ![Now(v)] = x]]
<1>1. v.files[Now(v)] \in File
  BY WriterFields
<1>2. /\ x \in File /\ x.name = v.files[Now(v)].name /\ x.first = v.files[Now(v)].first
      /\ x.last = v.files[Now(v)].last /\ x.prev = v.files[Now(v)].prev
      /\ x.manifest = v.files[Now(v)].manifest
  BY <1>1 DEF File
<1> HIDE DEF x
<1>3. /\ u \in Writer /\ u.files = [v.files EXCEPT ![Now(v)] = x]
      /\ DOMAIN u.files = DOMAIN v.files /\ Len(u.files) = Len(v.files)
  BY <1>2, FileReplaced
<1>4. u.previous = v.previous /\ u.sealed = v.sealed /\ u.chunk = v.chunk /\ u.log = v.log
  BY DEF Writer
<1>5. Tear(v) = u
  BY DEF Tear, Writer, x
<1> HIDE DEF u
<1>6. \A k \in DOMAIN v.files :
          /\ u.files[k].name = v.files[k].name /\ u.files[k].first = v.files[k].first
          /\ u.files[k].last = v.files[k].last /\ u.files[k].prev = v.files[k].prev
          /\ u.files[k].manifest = v.files[k].manifest
  BY <1>2, <1>3
<1>7. PairsOf(u) = PairsOf(v)
  BY <1>3, <1>6 DEF PairsOf
<1>8. Len(v.log) <= Len(u.log)
  BY <1>4, WriterFields
<1>9. SamePairs(u, v)
  BY <1>3, <1>6, <1>7, <1>8 DEF SamePairs, PairsOf
<1>10. Kept(u, v)
  BY <1>3, <1>4, <1>6, <1>9 DEF Kept
<1> QED  BY <1>3, <1>5, <1>10

\* An envelope is not stored.
LEMMA LoseKept ==
    ASSUME NEW v \in Writer, NEW f
    PROVE  Lose(v, f) \in Writer /\ Kept(Lose(v, f), v)
<1> DEFINE l == v.lost \cup {IF f.kind = "control" THEN "control" ELSE "other"}
           u == [v EXCEPT !.lost = l]
<1>1. l \subseteq Losses
  BY WriterFields DEF Losses
<1> HIDE DEF l
<1>2. u \in Writer
  BY <1>1 DEF Writer
<1>3. u.files = v.files /\ u.previous = v.previous /\ u.sealed = v.sealed
      /\ u.chunk = v.chunk /\ u.log = v.log
  BY DEF Writer
<1>4. Lose(v, f) = u
  BY DEF Lose, l, Writer
<1> HIDE DEF u
<1> QED  BY <1>2, <1>3, <1>4, KeptFields

\* An envelope is stored in the open chunk.
LEMMA StoreKept ==
    ASSUME NEW v \in Writer, v.chunk = "open", NEW f \in Frame
    PROVE  Store(v, f) \in Writer /\ Kept(Store(v, f), v)
<1> DEFINE g == [f EXCEPT !.lost = v.lost]
           u == [v EXCEPT !.log = Append(v.log, g), !.lost = {}]
<1>1. g \in Frame
  BY WriterFields DEF Frame
<1> HIDE DEF g
<1>2. /\ Append(v.log, g) \in Seq(Frame)
      /\ Len(Append(v.log, g)) = Len(v.log) + 1 /\ Len(v.log) \in Nat
  BY <1>1, WriterFields
<1>3. u \in Writer /\ u.log = Append(v.log, g)
  BY <1>2 DEF Writer
<1>4. u.files = v.files /\ u.previous = v.previous /\ u.sealed = v.sealed
      /\ u.chunk = v.chunk
  BY DEF Writer
<1>5. Store(v, f) = u
  BY DEF Store, g, Writer
<1> HIDE DEF u
<1>6. SamePairs(u, v)
  <2>1. PairsOf(u) = PairsOf(v)
    BY <1>4 DEF PairsOf
  <2>2. Len(v.log) <= Len(u.log)
    BY <1>2, <1>3
  <2> QED  BY <1>3, <1>4, <2>1, <2>2 DEF SamePairs
<1> QED  BY <1>3, <1>4, <1>5, <1>6 DEF Kept

\* What an outcome is made of.
LEMMA OutcomeFields ==
    ASSUME NEW v \in Writer
    PROVE  /\ Ok(v) \in Outcome /\ Ok(v).w = v /\ Ok(v).raised = "no"
           /\ OsError(v) \in Outcome /\ OsError(v).w = v /\ OsError(v).raised = "OSError"
           /\ OtherError(v) \in Outcome /\ OtherError(v).w = v
           /\ OtherError(v).raised = "other"
  BY DEF Outcome, Ok, OsError, OtherError

\* A storage error adds only outcomes like those it is given.
LEMMA FaultyAlike ==
    ASSUME NEW v \in Writer, NEW S, \A q \in S : q \in Outcome, NEW r \in Faulty(v, S)
    PROVE  /\ r \in Outcome
           /\ \E q \in S : Kept(r.w, q.w) /\ r.raised = q.raised
<1>1. PICK q \in S : r = [q EXCEPT !.w.faults = v.faults + 1]
  BY DEF Faulty
<1>2. q \in Outcome /\ q.w \in Writer
  BY DEF Outcome
<1> DEFINE t == [q.w EXCEPT !.faults = v.faults + 1]
<1>3. r = [q EXCEPT !.w = t]
  BY <1>1, <1>2 DEF Outcome
<1>4. t \in Writer
  <2>1. v.faults + 1 \in Nat
    BY WriterFields
  <2> QED  BY <1>2, <2>1 DEF Writer
<1>5. t.files = q.w.files /\ t.previous = q.w.previous /\ t.sealed = q.w.sealed
      /\ t.chunk = q.w.chunk /\ t.log = q.w.log
  BY <1>2 DEF Writer
<1> HIDE DEF t
<1>6. Kept(t, q.w)
  BY <1>2, <1>4, <1>5, KeptFields
<1>7. r \in Outcome /\ r.w = t /\ r.raised = q.raised
  BY <1>2, <1>3, <1>4 DEF Outcome
<1> QED  BY <1>6, <1>7

-----------------------------------------------------------------------------
(* The methods that write.                                                  *)

\* An outcome after which the writer is as it should be.
Safe(r) == r \in Outcome /\ WInv(r.w)

\* r leaves a broken chunk only where there was one.
BrokenAlike(r, v) == r.w.chunk = "broken" <=> v.chunk = "broken"

\* A changed writer that keeps what it was is a safe outcome.
LEMMA KeptSafe ==
    ASSUME NEW r \in Outcome, NEW v, WInv(v), Kept(r.w, v)
    PROVE  Safe(r) /\ BrokenAlike(r, v)
  BY KeptHolds DEF Safe, BrokenAlike, Kept

\* A storage error on the way to a safe outcome is safe.
LEMMA FaultySafe ==
    ASSUME NEW v, NEW x, WInv(v), NEW S, \A q \in S : Safe(q) /\ BrokenAlike(q, x),
           NEW r \in Faulty(v, S)
    PROVE  Safe(r) /\ BrokenAlike(r, x)
<1>1. v \in Writer /\ \A q \in S : q \in Outcome
  BY DEF WInv, Safe
<1>2. r \in Outcome /\ \E q \in S : Kept(r.w, q.w) /\ r.raised = q.raised
  BY <1>1, FaultyAlike
<1>3. PICK q \in S : Kept(r.w, q.w)
  BY <1>2
<1>4. Safe(r) /\ BrokenAlike(r, q.w)
  BY <1>2, <1>3, KeptSafe DEF Safe
<1> QED  BY <1>3, <1>4 DEF BrokenAlike

\* gz.write keeps the open chunk in order, whatever it loses.
LEMMA CompressSafe ==
    ASSUME NEW v, WInv(v), v.chunk = "open", NEW f \in Frame, NEW r \in Compress(v, f)
    PROVE  Safe(r) /\ BrokenAlike(r, v)
<1>1. v \in Writer /\ Now(v) \in DOMAIN v.files
  BY DEF WInv, HeldChunk
<1>2. Tear(v) \in Writer /\ Kept(Tear(v), v)
  BY <1>1, TearKept
<1>3. Tear(v).chunk = "open"
  BY <1>2 DEF Kept
<1>4. /\ Store(v, f) \in Writer /\ Kept(Store(v, f), v)
      /\ Store(Tear(v), f) \in Writer /\ Kept(Store(Tear(v), f), Tear(v))
      /\ Lose(Tear(v), f) \in Writer /\ Kept(Lose(Tear(v), f), Tear(v))
  BY <1>1, <1>2, <1>3, StoreKept, LoseKept
<1>5. Kept(Store(Tear(v), f), v) /\ Kept(Lose(Tear(v), f), v)
  BY <1>2, <1>4, KeptTwice
<1> DEFINE S == {Ok(Store(Tear(v), f)), OsError(Lose(Tear(v), f))}
<1>6. /\ Ok(Store(v, f)) \in Outcome /\ Ok(Store(v, f)).w = Store(v, f)
      /\ Ok(Store(Tear(v), f)) \in Outcome /\ Ok(Store(Tear(v), f)).w = Store(Tear(v), f)
      /\ OsError(Lose(Tear(v), f)) \in Outcome
      /\ OsError(Lose(Tear(v), f)).w = Lose(Tear(v), f)
  BY <1>4, OutcomeFields
<1>7. Safe(Ok(Store(v, f))) /\ BrokenAlike(Ok(Store(v, f)), v)
  BY <1>4, <1>6, KeptSafe
<1>8. \A q \in S : Safe(q) /\ BrokenAlike(q, v)
  BY <1>5, <1>6, KeptSafe
<1> HIDE DEF S
<1>9. CASE r \in Faulty(v, S)
  BY <1>8, <1>9, FaultySafe
<1>10. CASE r = Ok(Store(v, f))
  BY <1>7, <1>10
<1> QED  BY <1>9, <1>10 DEF Compress, S

\* A new chunk begins where the chain ends.
LEMMA OpenSafe ==
    ASSUME NEW v, WInv(v), v.chunk = "none"
    PROVE  /\ WInv(Open(v)) /\ Open(v).chunk = "open"
           /\ WInv(HeaderFails(v)) /\ HeaderFails(v).chunk = "headless"
           /\ WInv(OpenFails(v)) /\ OpenFails(v).chunk = "none"
<1>1. /\ v \in Writer /\ Linked(v) /\ HeldPairs(v)
      /\ Covered(v) = Len(v.log) /\ Len(v.log) \in Nat
  BY WriterFields DEF WInv, HeldChunk
<1> DEFINE x == NewFile("part", Len(v.log) + 1)
           y == NewFile("absent", 0)
<1>2. x \in File /\ y \in File /\ ~x.manifest /\ ~y.manifest /\ x.first = Len(v.log) + 1
  BY <1>1 DEF NewFile, File
<1>3. /\ Open(v) = Begun(v, x, "open")
      /\ HeaderFails(v) = Begun(v, x, "headless")
      /\ OpenFails(v) = Begun(v, y, "none")
  BY <1>1 DEF Open, HeaderFails, OpenFails, Writer, Begun
<1>4. ASSUME NEW z \in File, ~z.manifest, NEW c \in {"none", "open", "headless"},
             c = "open" => z.first = Len(v.log) + 1
      PROVE  WInv(Begun(v, z, c)) /\ Begun(v, z, c).chunk = c
  <2> DEFINE u == Begun(v, z, c)
  <2>1. /\ SamePairs(u, v) /\ Now(u) \in DOMAIN u.files /\ u.files[Now(u)] = z
        /\ u.previous = v.previous /\ u.sealed = v.sealed
        /\ u.log = v.log /\ u.chunk = c
    BY <1>1, <1>4, FileAppended
  <2> HIDE DEF u
  <2>2. Linked(u) /\ HeldPairs(u) /\ Covered(u) = Covered(v)
    BY <1>1, <2>1, SameLinked, SameHeld
  <2>3. HeldChunk(u)
    BY <1>1, <1>4, <2>1, <2>2 DEF HeldChunk
  <2> QED  BY <2>1, <2>2, <2>3 DEF WInv, SamePairs, u
<1> HIDE DEF x, y
<1> QED  BY <1>2, <1>3, <1>4

\* write
LEMMA WriteSafe ==
    ASSUME NEW v, WInv(v), NEW f \in Frame, NEW r \in Write(v, f)
    PROVE  Safe(r) /\ BrokenAlike(r, v)
<1>0. v \in Writer
  BY DEF WInv
<1>1. CASE v.paused
  <2> DEFINE u == [v EXCEPT !.lost = @ \cup {"dropped"}]
  <2>1. u \in Writer
    BY <1>0, WriterFields DEF Writer, Losses
  <2>2. u.files = v.files /\ u.previous = v.previous /\ u.sealed = v.sealed
        /\ u.chunk = v.chunk /\ u.log = v.log
    BY <1>0 DEF Writer
  <2>3. r = Ok(u)
    BY <1>1 DEF Write
  <2> HIDE DEF u
  <2> QED  BY <1>0, <2>1, <2>2, <2>3, KeptFields, OutcomeFields, KeptSafe
<1>2. CASE ~v.paused /\ v.chunk = "none"
  <2> DEFINE S == {OsError(Lose(OpenFails(v), f)), OsError(Lose(HeaderFails(v), f))}
  <2>1. /\ WInv(Open(v)) /\ Open(v).chunk = "open"
        /\ WInv(HeaderFails(v)) /\ HeaderFails(v).chunk = "headless"
        /\ WInv(OpenFails(v)) /\ OpenFails(v).chunk = "none"
    BY <1>2, OpenSafe
  <2>2. HeaderFails(v) \in Writer /\ OpenFails(v) \in Writer
    BY <2>1 DEF WInv
  <2>3. /\ Lose(HeaderFails(v), f) \in Writer
        /\ Kept(Lose(HeaderFails(v), f), HeaderFails(v))
        /\ Lose(OpenFails(v), f) \in Writer
        /\ Kept(Lose(OpenFails(v), f), OpenFails(v))
    BY <2>2, LoseKept
  <2>4. \A q \in S : Safe(q) /\ BrokenAlike(q, v)
    BY <1>2, <2>1, <2>3, OutcomeFields, KeptSafe DEF BrokenAlike
  <2> HIDE DEF S
  <2>5. r \in Faulty(v, S) \/ r \in Compress(Open(v), f)
    BY ONLY <1>2, r \in Write(v, f) DEF Write, S
  <2>6. CASE r \in Faulty(v, S)
    BY <2>4, <2>6, FaultySafe
  <2>7. CASE r \in Compress(Open(v), f)
    BY <1>2, <2>1, <2>7, CompressSafe DEF BrokenAlike
  <2> QED  BY <2>5, <2>6, <2>7
<1>3. CASE ~v.paused /\ v.chunk = "open"
  <2>1. r \in Compress(v, f)
    BY ONLY <1>3, r \in Write(v, f) DEF Write
  <2> QED  BY <1>3, <2>1, CompressSafe
<1>4. CASE ~v.paused /\ v.chunk \in {"headless", "broken"}
  <2>1. r = OtherError(Lose(v, f))
    BY ONLY <1>4, r \in Write(v, f) DEF Write
  <2> QED  BY <1>0, <2>1, LoseKept, OutcomeFields, KeptSafe
<1> QED  BY <1>0, <1>1, <1>2, <1>3, <1>4, WriterFields

\* pause, and its end
LEMMA PauseKept ==
    ASSUME NEW v \in Writer, NEW b \in BOOLEAN
    PROVE  [v EXCEPT !.paused = b] \in Writer /\ Kept([v EXCEPT !.paused = b], v)
<1> DEFINE u == [v EXCEPT !.paused = b]
<1>1. u \in Writer
  BY DEF Writer
<1>2. u.files = v.files /\ u.previous = v.previous /\ u.sealed = v.sealed
      /\ u.chunk = v.chunk /\ u.log = v.log
  BY DEF Writer
<1> HIDE DEF u
<1>3. Kept(u, v)
  BY <1>1, <1>2, KeptFields
<1> QED  BY <1>1, <1>3 DEF u

\* flush
LEMMA FlushSafe ==
    ASSUME NEW v, WInv(v), NEW r \in Flush(v)
    PROVE  Safe(r) /\ BrokenAlike(r, v) /\ (r.raised = "no" => v.chunk # "broken")
<1>1. v \in Writer
  BY DEF WInv
<1>2. /\ Safe(Ok(v)) /\ BrokenAlike(Ok(v), v)
      /\ Safe(OtherError(v)) /\ BrokenAlike(OtherError(v), v)
  BY <1>1, OutcomeFields DEF Safe, BrokenAlike
<1>3. CASE v.chunk = "open"
  <2> DEFINE S == {Ok(Tear(v)), OsError(Tear(v))}
  <2>1. Tear(v) \in Writer /\ Kept(Tear(v), v)
    BY <1>1, <1>3, TearKept DEF WInv, HeldChunk
  <2>2. \A q \in S : Safe(q) /\ BrokenAlike(q, v)
    BY <2>1, OutcomeFields, KeptSafe
  <2> HIDE DEF S
  <2>3. r = Ok(v) \/ r \in Faulty(v, S)
    BY ONLY <1>3, r \in Flush(v) DEF Flush, S
  <2> QED  BY <1>2, <1>3, <2>2, <2>3, FaultySafe
<1>4. CASE v.chunk = "broken"
  <2>1. r = OtherError(v)
    BY ONLY <1>4, r \in Flush(v) DEF Flush
  <2> QED  BY <1>1, <1>2, <2>1, OutcomeFields
<1>5. CASE v.chunk \in {"none", "headless"}
  <2>1. r = Ok(v)
    BY ONLY <1>5, r \in Flush(v) DEF Flush
  <2> QED  BY <1>2, <1>5, <2>1
<1> QED  BY <1>1, <1>3, <1>4, <1>5, WriterFields

\* resume
LEMMA ResumeSafe ==
    ASSUME NEW v, WInv(v), NEW g \in Nat, NEW r \in Resume(v, g)
    PROVE  Safe(r) /\ BrokenAlike(r, v)
<1> DEFINE u == [v EXCEPT !.paused = FALSE]
<1>1. v \in Writer
  BY DEF WInv
<1>2. Kept(u, v)
  BY <1>1, PauseKept
<1>3. Envelope("disk_pause_gap", g, {}) \in Frame
  BY DEF Envelope, Frame, Kinds
<1>4. r \in Write(u, Envelope("disk_pause_gap", g, {}))
  BY DEF Resume
<1> HIDE DEF u
<1>5. WInv(u)
  BY <1>2, KeptHolds
<1>6. Safe(r) /\ BrokenAlike(r, u)
  BY <1>3, <1>4, <1>5, WriteSafe
<1> QED  BY <1>2, <1>6 DEF BrokenAlike, Kept

-----------------------------------------------------------------------------
(* seal                                                                     *)

\* A renamed chunk is no pair yet.
LEMMA RenamedKept ==
    ASSUME NEW v \in Writer, Now(v) \in DOMAIN v.files, ~v.files[Now(v)].manifest
    PROVE  /\ Renamed(v) \in Writer /\ Kept(Renamed(v), v)
           /\ Renamed(v).files[Now(v)].name = "chunk"
<1> DEFINE x == [v.files[Now(v)] EXCEPT !.name = "chunk"]
           u == [v EXCEPT !.files = [@ EXCEPT ![Now(v)] = x]]
<1>1. v.files[Now(v)] \in File
  BY WriterFields
<1>2. /\ x \in File /\ x.name = "chunk" /\ x.first = v.files[Now(v)].first
      /\ x.manifest = v.files[Now(v)].manifest
  BY <1>1 DEF File
<1> HIDE DEF x
<1>3. /\ u \in Writer /\ u.files = [v.files EXCEPT ![Now(v)] = x]
      /\ DOMAIN u.files = DOMAIN v.files /\ Len(u.files) = Len(v.files)
  BY <1>2, FileReplaced
<1>4. u.previous = v.previous /\ u.sealed = v.sealed /\ u.chunk = v.chunk /\ u.log = v.log
  BY DEF Writer
<1>5. Renamed(v) = u
  BY DEF Renamed, Writer, x
<1> HIDE DEF u
<1>6. /\ \A k \in DOMAIN v.files : k # Now(v) => u.files[k] = v.files[k]
      /\ u.files[Now(v)] = x
  BY <1>3
<1>7. PairsOf(u) = PairsOf(v)
  BY <1>2, <1>3, <1>6 DEF PairsOf
<1>8. Len(v.log) <= Len(u.log)
  BY <1>4, WriterFields
<1>9. SamePairs(u, v)
  BY <1>3, <1>6, <1>7, <1>8 DEF SamePairs, PairsOf
<1>10. Kept(u, v)
  BY <1>2, <1>3, <1>4, <1>6, <1>9 DEF Kept
<1> QED  BY <1>2, <1>3, <1>5, <1>6, <1>10

\* Publishing the manifest makes the open chunk the last pair of the chain.
LEMMA PublishedLinks ==
    ASSUME NEW v, WInv(v), v.chunk = "open", v.files[Now(v)].name = "chunk"
    PROVE  LET u == Published(v)
           IN  /\ u \in Writer /\ Linked(u)
               /\ PairsOf(u) = PairsOf(v) \cup {Now(v)}
               /\ Now(v) \notin PairsOf(v) /\ \A j \in PairsOf(v) : j < Now(v)
               /\ \A k \in PairsOf(v) : u.files[k] = v.files[k]
               /\ u.files[Now(v)].first = Covered(v) + 1
               /\ u.files[Now(v)].last = Len(v.log)
               /\ u.log = v.log /\ u.sealed = v.sealed /\ Now(u) = Now(v)
<1> DEFINE n == Now(v)
           x == Manifested(v.files[n], v)
           u == Published(v)
<1>1. /\ v \in Writer /\ Linked(v) /\ HeldPairs(v)
      /\ n \in DOMAIN v.files /\ ~v.files[n].manifest
      /\ v.files[n].first = Covered(v) + 1 /\ Covered(v) <= Len(v.log)
  BY DEF WInv, HeldChunk
<1>2. /\ v.files[n] \in File /\ Len(v.log) \in Nat /\ v.previous \in Nat
      /\ DOMAIN v.files = 1 .. Len(v.files) /\ Len(v.files) \in Nat
      /\ \A k \in DOMAIN v.files : v.files[k] \in File
  BY <1>1, WriterFields
<1>3. /\ x \in File /\ x.manifest /\ x.name = "chunk" /\ x.first = Covered(v) + 1
      /\ x.last = Len(v.log) /\ x.prev = v.previous
  BY <1>1, <1>2 DEF Manifested, File
<1>4. u = [v EXCEPT !.files = [@ EXCEPT ![n] = x]]
  BY <1>1 DEF Published, Writer
<1> HIDE DEF x
<1>5. /\ u \in Writer /\ u.files = [v.files EXCEPT ![n] = x]
      /\ DOMAIN u.files = DOMAIN v.files /\ Len(u.files) = Len(v.files)
  BY <1>1, <1>3, <1>4, FileReplaced
<1>6. u.log = v.log /\ u.sealed = v.sealed
  BY <1>1, <1>4 DEF Writer
<1>7. /\ \A k \in DOMAIN v.files : k # n => u.files[k] = v.files[k]
      /\ u.files[n] = x
  BY <1>1, <1>5
<1> HIDE DEF u
<1>8. PairsOf(u) = PairsOf(v) \cup {n} /\ n \notin PairsOf(v)
  BY <1>1, <1>3, <1>5, <1>7 DEF PairsOf
<1>9. \A k \in PairsOf(v) : u.files[k] = v.files[k] /\ k < n /\ k \in DOMAIN v.files
  BY <1>1, <1>2, <1>7, <1>8 DEF PairsOf, Now
<1>10. Linked(u)
  <2> SUFFICES ASSUME NEW k \in PairsOf(u)
               PROVE  /\ u.files[k].name = "chunk"
                      /\ u.files[k].first <= u.files[k].last + 1
                      /\ u.files[k].last <= Len(u.log)
                      /\ IF u.files[k].prev = 0
                         THEN u.files[k].first = 1 /\ \A j \in PairsOf(u) : j >= k
                         ELSE /\ u.files[k].prev \in PairsOf(u) /\ u.files[k].prev < k
                              /\ u.files[k].first = u.files[u.files[k].prev].last + 1
    BY DEF Linked
  <2>1. CASE k \in PairsOf(v)
    <3>1. \A j \in PairsOf(u) : j = n \/ j \in PairsOf(v)
      BY <1>8
    <3>2. n >= k
      BY <1>1, <1>2, <1>9, <2>1
    <3>3. u.files[k] = v.files[k]
      BY <1>9, <2>1
    <3>4. CASE v.files[k].prev = 0
      BY <1>1, <1>6, <2>1, <3>1, <3>2, <3>3, <3>4 DEF Linked
    <3>5. CASE v.files[k].prev # 0
      BY <1>1, <1>6, <1>8, <1>9, <2>1, <3>3, <3>5 DEF Linked
    <3> QED  BY <3>4, <3>5
  <2>2. CASE k = n
    <3>1. Covered(v) \in Nat
      BY <1>1, <1>2 DEF Covered, HeldPairs, PairsOf, File
    <3>2. /\ u.files[k].name = "chunk"
          /\ u.files[k].first <= u.files[k].last + 1
          /\ u.files[k].last <= Len(u.log)
      BY <1>1, <1>2, <1>3, <1>6, <1>7, <2>2, <3>1
    <3>3. CASE v.previous = 0
      <4>1. PairsOf(u) = {n} /\ Covered(v) = 0
        BY <1>1, <1>8, <3>3 DEF HeldPairs, Covered
      <4>2. n >= n
        BY <1>2 DEF Now
      <4> QED  BY <1>3, <1>7, <2>2, <3>2, <3>3, <4>1, <4>2
    <3>4. CASE v.previous # 0
      <4>1. v.previous \in PairsOf(v) /\ Covered(v) = v.files[v.previous].last
        BY <1>1, <3>4 DEF HeldPairs, Covered
      <4> QED  BY <1>3, <1>7, <1>8, <1>9, <2>2, <3>2, <3>4, <4>1
    <3> QED  BY <3>3, <3>4
  <2> QED  BY <1>8, <2>1, <2>2
<1>11. Now(u) = n
  BY <1>5 DEF Now
<1> QED  BY <1>3, <1>5, <1>6, <1>7, <1>8, <1>9, <1>10, <1>11 DEF u

\* The pairs of a session are finitely many.
LEMMA PairsFinite ==
    ASSUME NEW v \in Writer
    PROVE  IsFiniteSet(PairsOf(v))
<1>1. DOMAIN v.files = 1 .. Len(v.files) /\ Len(v.files) \in Nat
  BY WriterFields
<1>2. IsFiniteSet(1 .. Len(v.files))
  BY <1>1, FS_Interval
<1>3. PairsOf(v) \subseteq 1 .. Len(v.files)
  BY <1>1 DEF PairsOf
<1> QED  BY <1>2, <1>3, FS_Subset

\* A sealed chunk ends the chain, which then covers every frame stored.
LEMMA ChainedSafe ==
    ASSUME NEW v, WInv(v), v.chunk = "open", v.files[Now(v)].name = "chunk"
    PROVE  LET c == Chained(Published(v))
           IN  WInv(c) /\ c.chunk = "none"
<1> DEFINE n == Now(v)
           u == Published(v)
           c == Chained(u)
<1>1. /\ v \in Writer /\ HeldPairs(v) /\ Covered(v) <= Len(v.log)
      /\ n \in DOMAIN v.files
  BY DEF WInv, HeldChunk
<1>2. /\ DOMAIN v.files = 1 .. Len(v.files) /\ Len(v.files) \in Nat
      /\ Len(v.log) \in Nat /\ v.sealed \in Nat
      /\ \A k \in DOMAIN v.files : v.files[k] \in File
  BY <1>1, WriterFields
<1>3. /\ u \in Writer /\ Linked(u)
      /\ PairsOf(u) = PairsOf(v) \cup {n}
      /\ n \notin PairsOf(v) /\ \A j \in PairsOf(v) : j < n
      /\ \A k \in PairsOf(v) : u.files[k] = v.files[k]
      /\ u.files[n].first = Covered(v) + 1
      /\ u.files[n].last = Len(v.log)
      /\ u.log = v.log /\ u.sealed = v.sealed /\ Now(u) = n
  BY PublishedLinks
<1> HIDE DEF u
<1>4. n \in Nat \ {0} /\ u.sealed + 1 \in Nat
  BY <1>1, <1>2, <1>3
<1>5. /\ c \in Writer /\ c.chunk = "none" /\ c.previous = n /\ c.sealed = u.sealed + 1
      /\ c.files = u.files /\ c.log = u.log
  BY <1>3, <1>4 DEF Chained, Writer
<1> HIDE DEF c
<1>6. PairsOf(c) = PairsOf(u)
  BY <1>5 DEF PairsOf
<1>7. Linked(c)
  <2>1. SamePairs(c, u)
    BY <1>2, <1>3, <1>5, <1>6 DEF SamePairs
  <2> QED  BY <1>3, <2>1, SameLinked
<1>8. Covered(c) = Len(c.log)
  BY <1>3, <1>4, <1>5 DEF Covered
<1>9. c.sealed = Cardinality(PairsOf(c))
  <2>1. Cardinality(PairsOf(v) \cup {n}) = Cardinality(PairsOf(v)) + 1
    BY <1>1, <1>3, PairsFinite, FS_AddElement
  <2> QED  BY <1>1, <1>3, <1>5, <1>6, <2>1 DEF HeldPairs
<1>10. ASSUME NEW m \in 1 .. Covered(c)
       PROVE  \E k \in PairsOf(c) : m \in c.files[k].first .. c.files[k].last
  <2>1. Covered(v) \in Nat
    BY <1>1, <1>2 DEF Covered, HeldPairs, PairsOf, File
  <2>2. m \in 1 .. Len(v.log)
    BY <1>3, <1>5, <1>8
  <2>3. CASE m <= Covered(v)
    <3>1. PICK k \in PairsOf(v) : m \in v.files[k].first .. v.files[k].last
      BY <1>1, <2>1, <2>2, <2>3 DEF HeldPairs
    <3> QED  BY <1>3, <1>5, <1>6, <3>1
  <2>4. CASE m > Covered(v)
    <3>1. m \in c.files[n].first .. c.files[n].last
      BY <1>2, <1>3, <1>5, <2>1, <2>2, <2>4
    <3> QED  BY <1>3, <1>6, <3>1
  <2> QED  BY <2>1, <2>2, <2>3, <2>4
<1>11. \A j \in PairsOf(c) : j <= n
  <2>1. PairsOf(v) \subseteq Nat
    BY <1>2 DEF PairsOf
  <2> QED  BY <1>3, <1>4, <1>6, <2>1
<1>12. HeldPairs(c)
  BY <1>3, <1>4, <1>5, <1>6, <1>9, <1>10, <1>11 DEF HeldPairs
<1>13. HeldChunk(c)
  BY <1>5, <1>8 DEF HeldChunk
<1> QED  BY <1>5, <1>7, <1>12, <1>13 DEF WInv, c, u

\* A seal that fails leaves the pairs linked, whatever else it leaves.
LEMMA BrokenSafe ==
    ASSUME NEW v \in Writer, Linked(v)
    PROVE  /\ WInv(Broken(v)) /\ Broken(v) \in Writer /\ Broken(v).chunk = "broken"
           /\ Broken(v).files = v.files /\ Broken(v).log = v.log
           /\ Broken(v).previous = v.previous /\ Broken(v).sealed = v.sealed
<1> DEFINE b == Broken(v)
<1>1. /\ b \in Writer /\ b.chunk = "broken" /\ b.files = v.files /\ b.log = v.log
      /\ b.previous = v.previous /\ b.sealed = v.sealed
  BY DEF Broken, Writer
<1> HIDE DEF b
<1>2. Linked(b)
  <2>1. PairsOf(b) = PairsOf(v)
    BY <1>1 DEF PairsOf
  <2> QED  BY <1>1, <2>1 DEF Linked
<1> QED  BY <1>1, <1>2 DEF WInv, b

\* What the writer remembers is all there is.
Whole(v) == HeldPairs(v) /\ Covered(v) = Len(v.log)

\* What a seal promises: it ended, or it raised; and unless the storage failed every
\* frame is in a pair.
SealedWell(r, v) ==
    /\ Safe(r)
    /\ r.raised = "no" => r.w.chunk = "none"
    /\ v.chunk # "broken" /\ r.raised # "OSError" => Whole(r.w)

\* A chunk is none only when all is in pairs.
LEMMA NoneIsWhole ==
    ASSUME NEW v, WInv(v), v.chunk \in {"none", "headless"}
    PROVE  Whole(v)
  BY DEF WInv, HeldChunk, Whole

\* seal of an open chunk; the files may be anything that it passes through.
LEMMA CutShortLinked ==
    ASSUME NEW v, WInv(v), v.chunk = "open", NEW c \in CutShort(v)
    PROVE  c \in Writer /\ Linked(c)
<1>1. v \in Writer /\ Linked(v) /\ Now(v) \in DOMAIN v.files /\ ~v.files[Now(v)].manifest
  BY DEF WInv, HeldChunk
<1>2. Tear(v) \in Writer /\ Linked(Tear(v))
  BY <1>1, TearKept, KeptHolds DEF WInv
<1>3. /\ Renamed(v) \in Writer /\ Kept(Renamed(v), v)
      /\ Renamed(v).files[Now(v)].name = "chunk"
  BY <1>1, RenamedKept
<1>4. WInv(Renamed(v)) /\ Renamed(v).chunk = "open" /\ Now(Renamed(v)) = Now(v)
  BY <1>3, KeptHolds DEF Kept, Now
<1>5. Published(Renamed(v)) \in Writer /\ Linked(Published(Renamed(v)))
  BY <1>3, <1>4, PublishedLinks
<1> QED  BY <1>1, <1>2, <1>4, <1>5 DEF CutShort, WInv

\* The seal of an open chunk that comes to its end.
LEMMA RotatedSafe ==
    ASSUME NEW v, WInv(v), v.chunk = "open"
    PROVE  LET c == Chained(Published(Renamed(v)))
           IN  WInv(c) /\ c.chunk = "none"
<1>1. v \in Writer /\ Now(v) \in DOMAIN v.files /\ ~v.files[Now(v)].manifest
  BY DEF WInv, HeldChunk
<1>2. /\ Kept(Renamed(v), v)
      /\ Renamed(v).files[Now(v)].name = "chunk"
  BY <1>1, RenamedKept
<1>3. WInv(Renamed(v)) /\ Renamed(v).chunk = "open" /\ Now(Renamed(v)) = Now(v)
  BY <1>2, KeptHolds DEF Kept, Now
<1> QED  BY <1>2, <1>3, ChainedSafe

\* seal
LEMMA SealSafe ==
    ASSUME NEW v, WInv(v), NEW r \in Seal(v)
    PROVE  SealedWell(r, v)
<1>1. v \in Writer /\ Linked(v)
  BY DEF WInv
<1>2. CASE v.chunk = "none"
  <2>1. r = Ok(v)
    BY ONLY <1>2, r \in Seal(v) DEF Seal
  <2> QED  BY <1>1, <1>2, <2>1, OutcomeFields, NoneIsWhole DEF SealedWell, Safe
<1>3. CASE v.chunk \in {"headless", "broken"}
  <2>1. r = OtherError(v)
    BY ONLY <1>3, r \in Seal(v) DEF Seal
  <2> QED  BY <1>1, <1>3, <2>1, OutcomeFields, NoneIsWhole DEF SealedWell, Safe
<1>4. CASE v.chunk = "open" /\ NothingStored(v)
  <2> DEFINE S == {OsError(Broken(v)), OsError(Broken(Tear(v)))}
             b == Broken(Renamed(v))
  <2>1. \A c \in {v, Tear(v), Renamed(v)} : c \in Writer /\ Linked(c)
    BY <1>4, CutShortLinked DEF CutShort
  <2>2. \A q \in S : Safe(q) /\ q.raised = "OSError"
    BY <2>1, BrokenSafe, OutcomeFields DEF Safe
  <2>3. ASSUME r \in Faulty(v, S)
        PROVE  SealedWell(r, v)
    <3>1. \A q \in S : q \in Outcome
      BY <2>2 DEF Safe
    <3> HIDE DEF S
    <3>2. r \in Outcome /\ \E q \in S : Kept(r.w, q.w) /\ r.raised = q.raised
      BY <1>1, <2>3, <3>1, FaultyAlike
    <3>3. PICK q \in S : Kept(r.w, q.w) /\ r.raised = q.raised
      BY <3>2
    <3> QED  BY <2>2, <3>2, <3>3, KeptSafe DEF SealedWell, Safe
  <2>4. Whole(b)
    <3>1. Now(v) \in DOMAIN v.files /\ ~v.files[Now(v)].manifest
      BY <1>4 DEF WInv, HeldChunk
    <3>2. Kept(Renamed(v), v) /\ WInv(Renamed(v)) /\ Renamed(v).chunk = "open"
      BY <1>1, <1>4, <3>1, RenamedKept, KeptHolds DEF Kept
    <3>3. HeldPairs(Renamed(v)) /\ HeldPairs(v)
      BY <1>4, <3>2 DEF WInv
    <3>4. /\ b.files = Renamed(v).files /\ b.log = Renamed(v).log
          /\ b.previous = Renamed(v).previous /\ b.sealed = Renamed(v).sealed
      BY <2>1, BrokenSafe
    <3> HIDE DEF b
    <3>5. PairsOf(b) = PairsOf(Renamed(v)) /\ Covered(b) = Covered(Renamed(v))
      BY <3>4 DEF PairsOf, Covered
    <3>6. HeldPairs(b)
      BY <3>3, <3>4, <3>5 DEF HeldPairs
    <3>7. Covered(b) = Len(b.log)
      <4>1. Renamed(v).log = v.log
        BY <1>1 DEF Renamed, Writer
      <4>2. Covered(Renamed(v)) \in Nat /\ Covered(Renamed(v)) <= Len(Renamed(v).log)
        BY <3>2, <3>3, WriterFields DEF WInv, HeldChunk, Covered, HeldPairs, PairsOf, File
      <4>3. Len(v.log) = 0
        BY <1>4 DEF NothingStored
      <4> QED  BY <3>4, <3>5, <4>1, <4>2, <4>3
    <3> QED  BY <3>6, <3>7 DEF Whole
  <2>5. SealedWell(OtherError(b), v)
    BY <2>1, <2>4, BrokenSafe, OutcomeFields DEF SealedWell, Safe
  <2> HIDE DEF S, b
  <2>6. r = OtherError(b) \/ r \in Faulty(v, S)
    BY ONLY <1>4, r \in Seal(v) DEF Seal, S, b
  <2> QED  BY <2>3, <2>5, <2>6
<1>5. CASE v.chunk = "open" /\ ~NothingStored(v)
  <2> DEFINE c == Chained(Published(Renamed(v)))
             d == Chained(Published(Renamed(Tear(v))))
             S == {Ok(d)} \cup {OsError(Broken(e)) : e \in CutShort(v)}
  <2>1. WInv(c) /\ c.chunk = "none"
    BY <1>5, RotatedSafe
  <2>2. WInv(d) /\ d.chunk = "none"
    <3>1. Now(v) \in DOMAIN v.files
      BY <1>5 DEF WInv, HeldChunk
    <3>2. WInv(Tear(v)) /\ Tear(v).chunk = "open"
      BY <1>1, <1>5, <3>1, TearKept, KeptHolds DEF Kept
    <3> QED  BY <3>2, RotatedSafe
  <2> HIDE DEF c, d
  <2>3. SealedWell(Ok(c), v) /\ SealedWell(Ok(d), v)
    BY <2>1, <2>2, OutcomeFields, NoneIsWhole DEF SealedWell, Safe, WInv
  <2>4. \A q \in S : Safe(q) /\ (q.raised = "OSError" \/ (q.raised = "no" /\ q.w.chunk = "none"))
    BY <1>5, <2>1, <2>2, CutShortLinked, BrokenSafe, OutcomeFields DEF Safe, WInv
  <2>5. ASSUME r \in Faulty(v, S)
        PROVE  SealedWell(r, v)
    <3>1. \A q \in S : q \in Outcome
      BY <2>4 DEF Safe
    <3> HIDE DEF S
    <3>2. r \in Outcome /\ \E q \in S : Kept(r.w, q.w) /\ r.raised = q.raised
      BY <1>1, <2>5, <3>1, FaultyAlike
    <3>3. PICK q \in S : Kept(r.w, q.w) /\ r.raised = q.raised
      BY <3>2
    <3>4. Safe(r) /\ (r.raised = "OSError" \/ (r.raised = "no" /\ r.w.chunk = "none"))
      BY <2>4, <3>2, <3>3, KeptSafe DEF Safe, Kept
    <3> QED  BY <3>4, NoneIsWhole DEF SealedWell, Safe
  <2> HIDE DEF S
  <2>6. r = Ok(c) \/ r \in Faulty(v, S)
    BY ONLY <1>5, r \in Seal(v) DEF Seal, S, c, d
  <2> QED  BY <2>3, <2>5, <2>6
<1> QED  BY <1>1, <1>2, <1>3, <1>4, <1>5, WriterFields

-----------------------------------------------------------------------------
(* What the methods do to the log, and to what they remember as lost.       *)

\* u holds the envelopes of v, the losses since the last of them, and the pause.
SameLog(u, v) == u.log = v.log /\ u.lost = v.lost /\ u.paused = v.paused

LEMMA SamePairsTwice ==
    ASSUME NEW t, NEW u, NEW v, SamePairs(t, u), SamePairs(u, v)
    PROVE  SamePairs(t, v)
<1>1. Len(t.log) \in Nat /\ Len(u.log) \in Nat /\ Len(v.log) \in Nat
  BY WriterFields DEF SamePairs
<1> QED  BY <1>1 DEF SamePairs

\* Nothing that happens to the files touches the log.
LEMMA FilesKeepLog ==
    ASSUME NEW v \in Writer
    PROVE  /\ SameLog(Tear(v), v) /\ SameLog(Renamed(v), v) /\ SameLog(Published(v), v)
           /\ SameLog(Chained(v), v) /\ SameLog(Broken(v), v)
           /\ SameLog(Open(v), v) /\ SameLog(HeaderFails(v), v) /\ SameLog(OpenFails(v), v)
  BY DEF SameLog, Tear, Renamed, Published, Chained, Broken, Open, HeaderFails, OpenFails, Writer

\* A new chunk is no pair.
LEMMA BegunPairs ==
    ASSUME NEW v \in Writer, v.chunk = "none"
    PROVE  SamePairs(Open(v), v) /\ SamePairs(HeaderFails(v), v) /\ SamePairs(OpenFails(v), v)
<1>1. Len(v.log) \in Nat
  BY WriterFields
<1> DEFINE x == NewFile("part", Len(v.log) + 1)
           y == NewFile("absent", 0)
<1>2. x \in File /\ y \in File /\ ~x.manifest /\ ~y.manifest
  BY <1>1 DEF NewFile, File
<1>3. /\ Open(v) = Begun(v, x, "open")
      /\ HeaderFails(v) = Begun(v, x, "headless")
      /\ OpenFails(v) = [v EXCEPT !.files = Append(@, y)]
  BY <1>1 DEF Open, HeaderFails, OpenFails, Writer, Begun
<1>4. OpenFails(v) = Begun(v, y, "none")
  BY <1>3, v.chunk = "none" DEF Begun, Writer
<1> HIDE DEF x, y
<1> QED  BY <1>2, <1>3, <1>4, FileAppended

\* A storage error changes the count of storage errors.
LEMMA FaultyLog ==
    ASSUME NEW v \in Writer, NEW S, \A q \in S : q \in Outcome, NEW r \in Faulty(v, S)
    PROVE  \E q \in S : /\ r.raised = q.raised
                        /\ SamePairs(r.w, q.w) /\ SameLog(r.w, q.w)
<1>1. PICK q \in S : r = [q EXCEPT !.w.faults = v.faults + 1]
  BY DEF Faulty
<1>2. q \in Outcome /\ q.w \in Writer
  BY DEF Outcome
<1> DEFINE t == [q.w EXCEPT !.faults = v.faults + 1]
<1>3. r = [q EXCEPT !.w = t]
  BY <1>1, <1>2 DEF Outcome
<1>4. t \in Writer
  <2>1. v.faults + 1 \in Nat
    BY WriterFields
  <2> QED  BY <1>2, <2>1 DEF Writer
<1>5. t.files = q.w.files /\ t.previous = q.w.previous /\ t.sealed = q.w.sealed
      /\ t.chunk = q.w.chunk /\ SameLog(t, q.w)
  BY <1>2 DEF Writer, SameLog
<1> HIDE DEF t
<1>6. SamePairs(t, q.w)
  BY <1>2, <1>4, <1>5, KeptFields DEF Kept, SameLog
<1>7. r.w = t /\ r.raised = q.raised
  BY <1>2, <1>3, <1>4 DEF Outcome
<1> QED  BY <1>5, <1>6, <1>7

\* What is remembered of an envelope that could not be written.
LossOf(f) == IF f.kind = "control" THEN "control" ELSE "other"

\* An envelope is dropped in a pause, or stored with what was lost before it, or lost.
Wrote(r, v, f) ==
    /\ SamePairs(r.w, v) /\ r.w.paused = v.paused
    /\ \/ /\ v.paused /\ r.raised = "no"
          /\ r.w.log = v.log /\ r.w.lost = v.lost \cup {"dropped"}
       \/ /\ ~v.paused /\ r.raised = "no"
          /\ r.w.log = Append(v.log, [f EXCEPT !.lost = v.lost]) /\ r.w.lost = {}
       \/ /\ ~v.paused /\ r.raised # "no"
          /\ r.w.log = v.log /\ r.w.lost = v.lost \cup {LossOf(f)}

LEMMA WroteAlike ==
    ASSUME NEW q, NEW r, NEW v, NEW f, Wrote(q, v, f), r.raised = q.raised,
           SamePairs(r.w, q.w), SameLog(r.w, q.w)
    PROVE  Wrote(r, v, f)
  BY SamePairsTwice DEF Wrote, SameLog

\* An envelope is stored, or it is lost.
LEMMA StoreWrote ==
    ASSUME NEW v \in Writer, NEW u \in Writer, u.chunk = "open",
           SamePairs(u, v), SameLog(u, v), NEW f \in Frame, ~v.paused
    PROVE  Wrote(Ok(Store(u, f)), v, f)
<1>1. Store(u, f) \in Writer /\ SamePairs(Store(u, f), u)
  BY StoreKept DEF Kept
<1>2. /\ Store(u, f).log = Append(u.log, [f EXCEPT !.lost = u.lost])
      /\ Store(u, f).lost = {} /\ Store(u, f).paused = u.paused
  BY DEF Store, Writer
<1>3. Ok(Store(u, f)).w = Store(u, f) /\ Ok(Store(u, f)).raised = "no"
  BY DEF Ok
<1> QED  BY <1>1, <1>2, <1>3, SamePairsTwice DEF Wrote, SameLog

LEMMA LoseWrote ==
    ASSUME NEW v \in Writer, NEW u \in Writer, SamePairs(u, v), SameLog(u, v), NEW f, ~v.paused
    PROVE  /\ Wrote(OsError(Lose(u, f)), v, f) /\ Wrote(OtherError(Lose(u, f)), v, f)
<1>1. SamePairs(Lose(u, f), u)
  BY LoseKept DEF Kept
<1>2. /\ Lose(u, f).log = u.log /\ Lose(u, f).paused = u.paused
      /\ Lose(u, f).lost = u.lost \cup {LossOf(f)}
  BY DEF Lose, LossOf, Writer
<1>3. /\ OsError(Lose(u, f)).w = Lose(u, f) /\ OsError(Lose(u, f)).raised # "no"
      /\ OtherError(Lose(u, f)).w = Lose(u, f) /\ OtherError(Lose(u, f)).raised # "no"
  BY DEF OsError, OtherError
<1> QED  BY <1>1, <1>2, <1>3, SamePairsTwice DEF Wrote, SameLog

LEMMA CompressWrote ==
    ASSUME NEW v \in Writer, NEW u \in Writer, u.chunk = "open", Now(u) \in DOMAIN u.files,
           SamePairs(u, v), SameLog(u, v), NEW f \in Frame, ~v.paused, NEW r \in Compress(u, f)
    PROVE  Wrote(r, v, f)
<1>1. /\ Tear(u) \in Writer /\ SamePairs(Tear(u), v) /\ SameLog(Tear(u), v)
      /\ Tear(u).chunk = "open"
  BY TearKept, FilesKeepLog, SamePairsTwice DEF Kept, SameLog
<1>2. /\ Store(u, f) \in Writer /\ Store(Tear(u), f) \in Writer /\ Lose(Tear(u), f) \in Writer
  BY <1>1, StoreKept, LoseKept
<1> DEFINE S == {Ok(Store(Tear(u), f)), OsError(Lose(Tear(u), f))}
<1>3. Wrote(Ok(Store(u, f)), v, f)
  BY StoreWrote
<1>4. \A q \in S : q \in Outcome /\ Wrote(q, v, f)
  BY <1>1, <1>2, StoreWrote, LoseWrote, OutcomeFields
<1> HIDE DEF S
<1>5. r = Ok(Store(u, f)) \/ r \in Faulty(u, S)
  BY DEF Compress, S
<1> QED  BY <1>3, <1>4, <1>5, FaultyLog, WroteAlike

\* write: the three things that may become of an envelope.
LEMMA WriteEffect ==
    ASSUME NEW v, WInv(v), NEW f \in Frame, NEW r \in Write(v, f)
    PROVE  Wrote(r, v, f)
<1>0. v \in Writer /\ SamePairs(v, v) /\ SameLog(v, v)
  BY WriterFields DEF WInv, SamePairs, SameLog
<1>1. CASE v.paused
  <2> DEFINE u == [v EXCEPT !.lost = @ \cup {"dropped"}]
  <2>1. u \in Writer /\ u.lost = v.lost \cup {"dropped"}
    BY <1>0, WriterFields DEF Writer, Losses
  <2>2. u.files = v.files /\ u.previous = v.previous /\ u.sealed = v.sealed
        /\ u.chunk = v.chunk /\ u.log = v.log /\ u.paused = v.paused
    BY <1>0 DEF Writer
  <2>3. r = Ok(u)
    BY <1>1 DEF Write
  <2> HIDE DEF u
  <2>4. SamePairs(u, v)
    BY <1>0, <2>1, <2>2, KeptFields DEF Kept
  <2> QED  BY <1>1, <2>1, <2>2, <2>3, <2>4, OutcomeFields DEF Wrote
<1>2. CASE ~v.paused /\ v.chunk = "none"
  <2> DEFINE S == {OsError(Lose(OpenFails(v), f)), OsError(Lose(HeaderFails(v), f))}
  <2>1. /\ Open(v) \in Writer /\ Open(v).chunk = "open" /\ Now(Open(v)) \in DOMAIN Open(v).files
        /\ HeaderFails(v) \in Writer /\ OpenFails(v) \in Writer
    BY <1>2, OpenSafe DEF WInv, HeldChunk
  <2>2. \A q \in S : q \in Outcome /\ Wrote(q, v, f)
    BY <1>0, <1>2, <2>1, BegunPairs, FilesKeepLog, LoseWrote, LoseKept, OutcomeFields
  <2> HIDE DEF S
  <2>3. r \in Faulty(v, S) \/ r \in Compress(Open(v), f)
    BY ONLY <1>2, r \in Write(v, f) DEF Write, S
  <2>4. CASE r \in Faulty(v, S)
    BY <1>0, <2>2, <2>4, FaultyLog, WroteAlike
  <2>5. CASE r \in Compress(Open(v), f)
    BY <1>0, <1>2, <2>1, <2>5, BegunPairs, FilesKeepLog, CompressWrote
  <2> QED  BY <2>3, <2>4, <2>5
<1>3. CASE ~v.paused /\ v.chunk = "open"
  <2>1. r \in Compress(v, f) /\ Now(v) \in DOMAIN v.files
    BY <1>3 DEF Write, WInv, HeldChunk
  <2> QED  BY <1>0, <1>3, <2>1, CompressWrote
<1>4. CASE ~v.paused /\ v.chunk \in {"headless", "broken"}
  <2>1. r = OtherError(Lose(v, f))
    BY ONLY <1>4, r \in Write(v, f) DEF Write
  <2> QED  BY <1>0, <1>4, <2>1, LoseWrote
<1> QED  BY <1>0, <1>1, <1>2, <1>3, <1>4, WriterFields

\* flush writes no envelope, nor does seal.
LEMMA FlushLog ==
    ASSUME NEW v, WInv(v), NEW r \in Flush(v)
    PROVE  SameLog(r.w, v)
<1>1. v \in Writer
  BY DEF WInv
<1>2. SameLog(Ok(v).w, v) /\ SameLog(OtherError(v).w, v)
  BY DEF Ok, OtherError, SameLog
<1>3. CASE v.chunk = "open"
  <2> DEFINE S == {Ok(Tear(v)), OsError(Tear(v))}
  <2>1. Tear(v) \in Writer /\ SameLog(Tear(v), v)
    BY <1>1, <1>3, TearKept, FilesKeepLog DEF WInv, HeldChunk
  <2>2. \A q \in S : q \in Outcome /\ SameLog(q.w, v)
    BY <2>1, OutcomeFields
  <2> HIDE DEF S
  <2>3. r = Ok(v) \/ r \in Faulty(v, S)
    BY ONLY <1>3, r \in Flush(v) DEF Flush, S
  <2>4. ASSUME r \in Faulty(v, S)  PROVE SameLog(r.w, v)
    BY <1>1, <2>2, <2>4, FaultyLog DEF SameLog
  <2> QED  BY <1>2, <2>3, <2>4
<1>4. CASE v.chunk # "open"
  <2>1. r \in {Ok(v), OtherError(v)}
    BY ONLY <1>4, r \in Flush(v) DEF Flush
  <2> QED  BY <1>2, <2>1
<1> QED  BY <1>3, <1>4

LEMMA SealLog ==
    ASSUME NEW v, WInv(v), NEW r \in Seal(v)
    PROVE  SameLog(r.w, v)
<1>1. v \in Writer
  BY DEF WInv
<1>2. SameLog(Ok(v).w, v) /\ SameLog(OtherError(v).w, v)
  BY DEF Ok, OtherError, SameLog
<1>3. CASE v.chunk = "open"
  <2>1. /\ Now(v) \in DOMAIN v.files /\ ~v.files[Now(v)].manifest
        /\ Linked(v)
    BY <1>3 DEF WInv, HeldChunk
  <2>2. Tear(v) \in Writer /\ SameLog(Tear(v), v) /\ WInv(Tear(v)) /\ Tear(v).chunk = "open"
    BY <1>1, <1>3, <2>1, TearKept, KeptHolds, FilesKeepLog DEF Kept
  <2>3. ASSUME NEW u, WInv(u), u.chunk = "open", SameLog(u, v)
        PROVE  /\ Chained(Published(Renamed(u))) \in Writer
               /\ SameLog(Chained(Published(Renamed(u))), v)
    <3>1. u \in Writer /\ Now(u) \in DOMAIN u.files /\ ~u.files[Now(u)].manifest
      BY <2>3 DEF WInv, HeldChunk
    <3>2. Renamed(u) \in Writer /\ WInv(Renamed(u)) /\ Renamed(u).chunk = "open"
          /\ Renamed(u).files[Now(Renamed(u))].name = "chunk"
      BY <2>3, <3>1, RenamedKept, KeptHolds DEF Kept, Now
    <3>3. Published(Renamed(u)) \in Writer
      BY <3>2, PublishedLinks
    <3>4. Chained(Published(Renamed(u))) \in Writer
      BY <2>3, RotatedSafe DEF WInv
    <3> QED  BY <2>3, <3>1, <3>2, <3>3, <3>4, FilesKeepLog DEF SameLog
  <2>4. ASSUME NEW c \in CutShort(v)
        PROVE  Broken(c) \in Writer /\ SameLog(Broken(c), v)
    <3>1. c \in Writer
      BY <1>3, <2>4, CutShortLinked
    <3>2. Renamed(v) \in CutShort(v)
      BY DEF CutShort
    <3>3. SameLog(c, v)
      BY <1>1, <1>3, <2>4, <3>2, CutShortLinked, FilesKeepLog DEF CutShort, SameLog
    <3> QED  BY <3>1, <3>3, FilesKeepLog, BrokenSafe, CutShortLinked, <1>3 DEF SameLog
  <2> DEFINE c == Chained(Published(Renamed(v)))
             d == Chained(Published(Renamed(Tear(v))))
             S == {Ok(d)} \cup {OsError(Broken(x)) : x \in CutShort(v)}
             T == {OsError(Broken(v)), OsError(Broken(Tear(v)))}
  <2>5. v \in CutShort(v) /\ Tear(v) \in CutShort(v) /\ Renamed(v) \in CutShort(v)
    BY DEF CutShort
  <2>6. c \in Writer /\ d \in Writer /\ SameLog(c, v) /\ SameLog(d, v)
    <3>1. SameLog(v, v)
      BY DEF SameLog
    <3> QED  BY <1>3, <2>2, <2>3, <3>1
  <2>7. \A q \in S \cup T : q \in Outcome /\ SameLog(q.w, v)
    BY <2>4, <2>5, <2>6, OutcomeFields
  <2>8. SameLog(Ok(c).w, v) /\ SameLog(OtherError(Broken(Renamed(v))).w, v)
    BY <2>4, <2>5, <2>6, OutcomeFields
  <2>9. \/ r = Ok(c) \/ r = OtherError(Broken(Renamed(v)))
        \/ r \in Faulty(v, S) \/ r \in Faulty(v, T)
    BY ONLY <1>3, r \in Seal(v) DEF Seal, S, T, c, d
  <2> HIDE DEF S, T, c, d
  <2>10. ASSUME NEW Q, Q = S \/ Q = T, r \in Faulty(v, Q)
         PROVE  SameLog(r.w, v)
    BY <1>1, <2>7, <2>10, FaultyLog DEF SameLog
  <2> QED  BY <2>8, <2>9, <2>10
<1>4. CASE v.chunk # "open"
  <2>1. r \in {Ok(v), OtherError(v)}
    BY ONLY <1>4, r \in Seal(v) DEF Seal
  <2> QED  BY <1>2, <2>1
<1> QED  BY <1>3, <1>4
=============================================================================
