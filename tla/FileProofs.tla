----------------------------- MODULE FileProofs -----------------------------
(***************************************************************************)
(* What stays true of files that commands write and read again: those of a *)
(* finalized run, and those of pollers and walkers; for any bounds,        *)
(* instruments and changes, and wherever a process ends.                   *)
(***************************************************************************)
EXTENDS MCCommands, SequenceTheorems, WellFoundedInduction, TLAPS

-----------------------------------------------------------------------------
(* A finalized run, reconstructed or packed into an archive.                *)

\* What is read of a run, and the steps of the two commands on it.
RunPapers == {"manifest", "state", "journal"}
RunTables == {"tape", "topbook", "depth"}
RunMembers == RunPapers \cup RunTables \cup {"raw"}
PackStep ==
  ({"print", "copy", "compare", "digest", "recheck", "remove"} \X RunMembers)
    \cup ({"install", "sidecar", "deleted"} \X {"all"})
ReadStep ==
  ({"load", "keep"} \X RunPapers) \cup ({"print", "read", "same"} \X RunTables)
    \cup {<<"publish", "all">>}

\* e is in the sequence p.
Awaits(p, e) == \E i \in DOMAIN p : p[i] = e

-----------------------------------------------------------------------------
(* Sequences of steps. *)

LEMMA StepSequence ==
  ASSUME NEW S, NEW p \in Seq(S), p # <<>>
  PROVE  /\ Head(p) = p[1] /\ Head(p) \in S /\ Awaits(p, Head(p)) /\ Len(p) \in Nat \ {0}
         /\ Tail(p) \in Seq(S) /\ Len(Tail(p)) = Len(p) - 1
         /\ \A i \in 1 .. Len(p) - 1 : Tail(p)[i] = p[i + 1]
         /\ \A e : Awaits(p, e) <=> e = Head(p) \/ Awaits(Tail(p), e)
<1>1. /\ Head(p) = p[1] /\ Len(p) \in Nat \ {0} /\ DOMAIN p = 1 .. Len(p)
      /\ Tail(p) \in Seq(S) /\ Len(Tail(p)) = Len(p) - 1 /\ DOMAIN Tail(p) = 1 .. Len(p) - 1
      /\ \A i \in 1 .. Len(p) - 1 : Tail(p)[i] = p[i + 1]
  BY EmptySeq, HeadTailProperties, LenProperties
<1>2. p[1] \in S
  BY <1>1, ElementOfSeq
<1>3. ASSUME NEW e PROVE Awaits(p, e) <=> e = Head(p) \/ Awaits(Tail(p), e)
  <2>1. ASSUME NEW i \in 1 .. Len(p), p[i] = e PROVE e = Head(p) \/ Awaits(Tail(p), e)
    <3>1. CASE i = 1
      BY <1>1, <2>1, <3>1
    <3>2. CASE i # 1
      <4>1. i - 1 \in 1 .. Len(p) - 1 /\ (i - 1) + 1 = i
        BY <1>1, <3>2
      <4>2. i - 1 \in DOMAIN Tail(p) /\ Tail(p)[i - 1] = e
        BY <1>1, <2>1, <4>1
      <4> QED  BY <4>2 DEF Awaits
    <3> QED  BY <3>1, <3>2
  <2>2. ASSUME NEW i \in 1 .. Len(p) - 1, Tail(p)[i] = e PROVE Awaits(p, e)
    BY <1>1, <2>2 DEF Awaits
  <2> QED  BY <1>1, <2>1, <2>2 DEF Awaits
<1> QED  BY <1>1, <1>2, <1>3

LEMMA JoinedAwaits ==
  ASSUME NEW S, NEW p \in Seq(S), NEW q \in Seq(S), NEW e
  PROVE  Awaits(p \o q, e) <=> Awaits(p, e) \/ Awaits(q, e)
<1>1. /\ Len(p) \in Nat /\ Len(q) \in Nat /\ DOMAIN p = 1 .. Len(p) /\ DOMAIN q = 1 .. Len(q)
      /\ DOMAIN (p \o q) = 1 .. Len(p) + Len(q)
      /\ \A i \in 1 .. Len(p) + Len(q) : (p \o q)[i] = IF i <= Len(p) THEN p[i] ELSE q[i - Len(p)]
  BY ConcatProperties, LenProperties
<1>2. ASSUME NEW i \in 1 .. Len(q) PROVE (p \o q)[i + Len(p)] = q[i] /\ i + Len(p) \in 1 .. Len(p) + Len(q)
  BY <1>1
<1>3. ASSUME NEW i \in 1 .. Len(p) PROVE (p \o q)[i] = p[i] /\ i \in 1 .. Len(p) + Len(q)
  BY <1>1
<1>4. ASSUME NEW i \in 1 .. Len(p) + Len(q)
      PROVE  \/ i \in 1 .. Len(p) /\ (p \o q)[i] = p[i]
             \/ i - Len(p) \in 1 .. Len(q) /\ (p \o q)[i] = q[i - Len(p)]
  BY <1>1
<1> QED  BY <1>1, <1>2, <1>3, <1>4 DEF Awaits

LEMMA Joined ==
  ASSUME NEW S, NEW p \in Seq(S), NEW q \in Seq(S)
  PROVE  /\ p \o q \in Seq(S) /\ Len(p \o q) = Len(p) + Len(q)
         /\ \A i \in 1 .. Len(p) : (p \o q)[i] = p[i]
         /\ \A i \in 1 .. Len(q) : (p \o q)[Len(p) + i] = q[i]
<1> DEFINE m == Len(p)
           n == Len(q)
<1>1. /\ p \o q \in Seq(S) /\ Len(p \o q) = m + n /\ m \in Nat /\ n \in Nat
      /\ \A i \in 1 .. m + n : (p \o q)[i] = IF i <= m THEN p[i] ELSE q[i - m]
  BY ConcatProperties, LenProperties
<1> HIDE DEF m, n
<1>2. ASSUME NEW i \in 1 .. n PROVE m + i \in 1 .. m + n /\ ~(m + i <= m) /\ (m + i) - m = i
  BY <1>1
<1>3. ASSUME NEW i \in 1 .. m PROVE i \in 1 .. m + n /\ i <= m
  BY <1>1
<1>4. (\A i \in 1 .. m : (p \o q)[i] = p[i]) /\ \A i \in 1 .. n : (p \o q)[m + i] = q[i]
  BY <1>1, <1>2, <1>3
<1> QED  BY <1>1, <1>4 DEF m, n

LEMMA JoinedBehind ==
  ASSUME NEW S, NEW p \in Seq(S), NEW q \in Seq(S)
  PROVE  \A i \in 1 .. Len(q) : (p \o q)[Len(p) + i] = q[i]
  BY Joined

\* One step for each of some files.
LEMMA EachIs ==
  ASSUME NEW names \in Seq(RunMembers), NEW op, NEW S, \A i \in DOMAIN names : <<op, names[i]>> \in S
  PROVE  /\ Each(op, names) \in Seq(S) /\ Len(Each(op, names)) = Len(names)
         /\ \A i \in 1 .. Len(names) : Each(op, names)[i] = <<op, names[i]>>
<1>1. DOMAIN names = 1 .. Len(names) /\ Len(names) \in Nat
  BY LenProperties
<1>2. Each(op, names) = [i \in 1 .. Len(names) |-> <<op, names[i]>>]
  BY <1>1 DEF Each
<1>3. \A i \in 1 .. Len(names) : <<op, names[i]>> \in S
  BY <1>1
<1> HIDE DEF Each
<1> QED  BY <1>1, <1>2, <1>3, IsASeq

LEMMA RunFilesAre ==
  /\ Papers \in Seq(RunPapers) /\ Papers \in Seq(RunMembers) /\ Len(Papers) = 3
  /\ Papers[1] = "manifest" /\ Papers[2] = "state" /\ Papers[3] = "journal"
  /\ Selected \in Seq(RunTables) /\ Selected \in Seq(RunMembers) /\ Len(Selected) = 3
  /\ Selected[1] = "tape" /\ Selected[2] = "topbook" /\ Selected[3] = "depth"
  /\ Members \in Seq(RunMembers) /\ Len(Members) = 7
  /\ Members[1] = "manifest" /\ Members[2] = "state" /\ Members[3] = "journal"
  /\ Members[4] = "tape" /\ Members[5] = "topbook" /\ Members[6] = "depth" /\ Members[7] = "raw"
  /\ Selected \o <<"raw">> \in Seq(RunMembers) /\ Len(Selected \o <<"raw">>) = 4
  /\ (Selected \o <<"raw">>)[1] = "tape" /\ (Selected \o <<"raw">>)[2] = "topbook"
  /\ (Selected \o <<"raw">>)[3] = "depth" /\ (Selected \o <<"raw">>)[4] = "raw"
  /\ Depth \in Seq(RunTables) /\ Depth \in Seq(RunMembers) /\ Len(Depth) = 1 /\ Depth[1] = "depth"
<1>1. /\ Tape \in Seq(RunTables) /\ Len(Tape) = 2 /\ Tape[1] = "tape" /\ Tape[2] = "topbook"
      /\ Depth \in Seq(RunTables) /\ Depth \in Seq(RunMembers) /\ Len(Depth) = 1 /\ Depth[1] = "depth"
      /\ Papers \in Seq(RunPapers) /\ Papers \in Seq(RunMembers) /\ Len(Papers) = 3
      /\ Papers[1] = "manifest" /\ Papers[2] = "state" /\ Papers[3] = "journal"
  BY DEF Tape, Depth, Papers, RunTables, RunPapers, RunMembers
<1>2. /\ Selected \in Seq(RunTables) /\ Len(Selected) = 3
      /\ Selected[1] = "tape" /\ Selected[2] = "topbook" /\ Selected[3] = "depth"
  BY <1>1, ConcatProperties DEF Selected
<1>3. Selected \in Seq(RunMembers)
  BY <1>2, SeqMonotonic DEF RunMembers
<1> DEFINE raw == <<"raw">>
<1>4. raw \in Seq(RunMembers) /\ Len(raw) = 1 /\ raw[1] = "raw"
  BY DEF RunMembers
<1> HIDE DEF raw
<1>5. /\ Selected \o raw \in Seq(RunMembers) /\ Len(Selected \o raw) = 4
      /\ (Selected \o raw)[1] = "tape" /\ (Selected \o raw)[2] = "topbook"
      /\ (Selected \o raw)[3] = "depth" /\ (Selected \o raw)[4] = "raw"
  <2>1. Selected \in Seq(RunMembers) /\ raw \in Seq(RunMembers)
    BY <1>3, <1>4
  <2>2. Selected \o raw \in Seq(RunMembers) /\ Len(Selected \o raw) = Len(Selected) + Len(raw)
    BY ONLY <2>1, Joined
  <2>3. \A i \in 1 .. Len(Selected) : (Selected \o raw)[i] = Selected[i]
    BY ONLY <2>1, Joined
  <2>4. \A i \in 1 .. Len(raw) : (Selected \o raw)[Len(Selected) + i] = raw[i]
    BY ONLY <2>1, JoinedBehind
  <2> QED  BY ONLY <1>2, <1>4, <2>2, <2>3, <2>4
<1> DEFINE most == Papers \o Selected
<1>6. /\ most \in Seq(RunMembers) /\ Len(most) = 6 /\ most[1] = "manifest" /\ most[2] = "state"
      /\ most[3] = "journal" /\ most[4] = "tape" /\ most[5] = "topbook" /\ most[6] = "depth"
  <2>1. /\ most \in Seq(RunMembers) /\ Len(most) = 6
        /\ \A i \in 1 .. 3 : most[i] = Papers[i]
        /\ \A i \in 1 .. 3 : most[3 + i] = Selected[i]
    <3>1. Papers \in Seq(RunMembers) /\ Selected \in Seq(RunMembers) /\ Len(Papers) = 3 /\ Len(Selected) = 3
      BY <1>1, <1>2, <1>3
    <3>2. most \in Seq(RunMembers)
      BY ONLY <3>1, Joined
    <3>3. Len(most) = Len(Papers) + Len(Selected)
      BY ONLY <3>1, Joined
    <3>4. \A i \in 1 .. Len(Papers) : most[i] = Papers[i]
      BY ONLY <3>1, Joined
    <3>5. \A i \in 1 .. Len(Selected) : most[Len(Papers) + i] = Selected[i]
      <4>1. Papers \in Seq(RunMembers) /\ Selected \in Seq(RunMembers)
        BY ONLY <3>1
      <4> QED  BY ONLY <4>1, JoinedBehind
    <3> HIDE DEF most
    <3> QED  BY ONLY <3>1, <3>2, <3>3, <3>4, <3>5
  <2> HIDE DEF most
  <2> QED  BY <1>1, <1>2, <2>1
<1> HIDE DEF most
<1>7. Members = most \o raw
  BY DEF Members, most, raw
<1>8. /\ Members \in Seq(RunMembers) /\ Len(Members) = 7
      /\ Members[1] = "manifest" /\ Members[2] = "state" /\ Members[3] = "journal"
      /\ Members[4] = "tape" /\ Members[5] = "topbook" /\ Members[6] = "depth" /\ Members[7] = "raw"
  <2>1. /\ Members \in Seq(RunMembers) /\ Len(Members) = 7
        /\ \A i \in 1 .. 6 : Members[i] = most[i]
        /\ \A i \in 1 .. 1 : Members[6 + i] = raw[i]
    <3>1. most \in Seq(RunMembers) /\ raw \in Seq(RunMembers) /\ Len(most) = 6 /\ Len(raw) = 1
      BY <1>4, <1>6
    <3>2. most \o raw \in Seq(RunMembers)
      BY ONLY <3>1, Joined
    <3>3. Len(most \o raw) = Len(most) + Len(raw)
      BY ONLY <3>1, Joined
    <3>4. \A i \in 1 .. Len(most) : (most \o raw)[i] = most[i]
      BY ONLY <3>1, Joined
    <3>5. \A i \in 1 .. Len(raw) : (most \o raw)[Len(most) + i] = raw[i]
      <4>1. most \in Seq(RunMembers) /\ raw \in Seq(RunMembers)
        BY ONLY <3>1
      <4> QED  BY ONLY <4>1, JoinedBehind
    <3> QED  BY ONLY <3>1, <1>7, <3>2, <3>3, <3>4, <3>5
  <2> QED  BY <1>4, <1>6, <2>1
<1> QED  BY <1>1, <1>2, <1>3, <1>5, <1>8 DEF raw

LEMMA RunRanges ==
  Range(Papers) = RunPapers /\ Range(Selected) = RunTables /\ Range(Members) = RunMembers
<1>1. /\ DOMAIN Papers = 1 .. 3 /\ DOMAIN Selected = 1 .. 3 /\ DOMAIN Members = 1 .. 7
  BY RunFilesAre, LenProperties
<1>2. \A f : f \in Range(Papers) <=> \E i \in 1 .. 3 : f = Papers[i]
  BY <1>1 DEF Range
<1>3. \A f : f \in Range(Selected) <=> \E i \in 1 .. 3 : f = Selected[i]
  BY <1>1 DEF Range
<1>4. \A f : f \in Range(Members) <=> \E i \in 1 .. 7 : f = Members[i]
  BY <1>1 DEF Range
<1>5. \A f : f \in RunPapers <=> \E i \in 1 .. 3 : f = Papers[i]
  <2>1. Papers[1] = "manifest" /\ Papers[2] = "state" /\ Papers[3] = "journal"
    BY RunFilesAre
  <2> QED  BY <2>1 DEF RunPapers
<1>6. \A f : f \in RunTables <=> \E i \in 1 .. 3 : f = Selected[i]
  <2>1. Selected[1] = "tape" /\ Selected[2] = "topbook" /\ Selected[3] = "depth"
    BY RunFilesAre
  <2> QED  BY <2>1 DEF RunTables
<1>7. \A f : f \in RunMembers <=> \E i \in 1 .. 7 : f = Members[i]
  <2>1. /\ Members[1] = "manifest" /\ Members[2] = "state" /\ Members[3] = "journal"
        /\ Members[4] = "tape" /\ Members[5] = "topbook" /\ Members[6] = "depth" /\ Members[7] = "raw"
    BY RunFilesAre
  <2> QED  BY <2>1 DEF RunMembers, RunPapers, RunTables
<1> QED  BY <1>2, <1>3, <1>4, <1>5, <1>6, <1>7

-----------------------------------------------------------------------------
(* The plan of the archiver. *)

\* The steps of a plan to pack come stage by stage, and none comes twice.
Stage(op) ==
  CASE op = "print" -> 1 [] op = "copy" -> 2 [] op = "compare" -> 3 [] op = "install" -> 4
    [] op = "digest" -> 5 [] op = "sidecar" -> 6 [] op = "recheck" -> 7 [] op = "remove" -> 8
    [] op = "deleted" -> 9
StagesInOrder(p) ==
  \A i, j \in DOMAIN p : i < j => Stage(p[i][1]) <= Stage(p[j][1]) /\ p[i] # p[j]
Within(p, a, b) == \A i \in DOMAIN p : Stage(p[i][1]) \in a .. b
\* What every such plan has, until it is behind that stage.
Mandatory == ({"copy", "compare", "digest"} \X RunMembers) \cup ({"install", "sidecar"} \X {"all"})
StagesAreThere(p) ==
  /\ \A e \in Mandatory : Awaits(p, e) \/ \A i \in DOMAIN p : Stage(p[i][1]) >= Stage(e[1])
  /\ \A f \in RunMembers : Awaits(p, <<"remove", f>>) =>
       Awaits(p, <<"recheck", f>>) \/ \A i \in DOMAIN p : Stage(p[i][1]) >= 7
PackPlanned(p) == p \in Seq(PackStep) /\ StagesInOrder(p) /\ StagesAreThere(p)

LEMMA StageIs ==
  \A e \in PackStep : Stage(e[1]) \in 1 .. 9 /\ e = <<e[1], e[2]>>
<1> SUFFICES ASSUME NEW e \in PackStep PROVE Stage(e[1]) \in 1 .. 9 /\ e = <<e[1], e[2]>>
  OBVIOUS
<1>1. /\ e[1] \in {"print", "copy", "compare", "digest", "recheck", "remove", "install", "sidecar", "deleted"}
      /\ e = <<e[1], e[2]>>
  BY DEF PackStep
<1> QED  BY <1>1 DEF Stage

LEMMA DueIs == Mandatory \subseteq PackStep /\ \A e \in Mandatory : Stage(e[1]) \in 2 .. 6
<1>1. Mandatory \subseteq PackStep
  BY DEF Mandatory, PackStep
<1>2. ASSUME NEW e \in Mandatory PROVE Stage(e[1]) \in 2 .. 6
  <2>1. e[1] \in {"copy", "compare", "digest", "install", "sidecar"}
    BY DEF Mandatory
  <2> QED  BY <2>1 DEF Stage
<1> QED  BY <1>1, <1>2

LEMMA JoinedInOrder ==
  ASSUME NEW p \in Seq(PackStep), NEW q \in Seq(PackStep), StagesInOrder(p), StagesInOrder(q),
         NEW a \in Int, NEW b \in Int, NEW d \in Int, NEW c \in Int,
         Within(p, a, b), Within(q, d, c), a <= b, b < d, d <= c
  PROVE  p \o q \in Seq(PackStep) /\ StagesInOrder(p \o q) /\ Within(p \o q, a, c)
<1> DEFINE r == p \o q
           m == Len(p)
           n == Len(q)
<1>1. /\ r \in Seq(PackStep) /\ m \in Nat /\ n \in Nat
      /\ DOMAIN p = 1 .. m /\ DOMAIN q = 1 .. n /\ DOMAIN r = 1 .. m + n
      /\ \A i \in 1 .. m + n : r[i] = IF i <= m THEN p[i] ELSE q[i - m]
  BY ConcatProperties, LenProperties
<1> HIDE DEF r, m, n
<1>2. ASSUME NEW i \in 1 .. m + n
      PROVE  \/ i \in 1 .. m /\ r[i] = p[i] /\ Stage(r[i][1]) \in a .. b
             \/ i > m /\ i - m \in 1 .. n /\ r[i] = q[i - m] /\ Stage(r[i][1]) \in d .. c
  <2>1. CASE i <= m
    <3>1. i \in 1 .. m /\ r[i] = p[i]
      BY <1>1, <2>1
    <3> QED  BY <1>1, <3>1 DEF Within
  <2>2. CASE i > m
    <3>1. i - m \in 1 .. n /\ r[i] = q[i - m]
      BY <1>1, <2>2
    <3> QED  BY <1>1, <2>2, <3>1 DEF Within
  <2> QED  BY <1>1, <2>1, <2>2
<1>3. Within(r, a, c)
  BY <1>1, <1>2 DEF Within
<1>4. ASSUME NEW i \in 1 .. m + n, NEW j \in 1 .. m + n, i < j
      PROVE  Stage(r[i][1]) <= Stage(r[j][1]) /\ r[i] # r[j]
  <2>1. CASE i \in 1 .. m /\ j \in 1 .. m
    <3>1. r[i] = p[i] /\ r[j] = p[j]
      BY <1>1, <2>1
    <3> QED  BY <1>1, <1>4, <2>1, <3>1 DEF StagesInOrder
  <2>2. CASE i > m /\ j > m
    <3>1. i - m \in 1 .. n /\ j - m \in 1 .. n /\ i - m < j - m /\ r[i] = q[i - m] /\ r[j] = q[j - m]
      BY <1>1, <1>2, <1>4, <2>2
    <3> QED  BY <1>1, <3>1 DEF StagesInOrder
  <2>3. CASE i \in 1 .. m /\ j > m
    <3>1. Stage(r[i][1]) \in a .. b /\ Stage(r[j][1]) \in d .. c
      BY <1>1, <1>2, <2>3
    <3>2. Stage(r[i][1]) < Stage(r[j][1])
      BY <3>1
    <3> QED  BY <3>1, <3>2
  <2> QED  BY <1>1, <1>4, <2>1, <2>2, <2>3
<1>5. StagesInOrder(r)
  BY <1>1, <1>4 DEF StagesInOrder
<1> QED  BY <1>1, <1>3, <1>5 DEF r

LEMMA EachInOrder ==
  ASSUME NEW names \in Seq(RunMembers), NEW op \in {"print", "copy", "compare", "digest", "recheck", "remove"},
         \A i, j \in 1 .. Len(names) : i # j => names[i] # names[j]
  PROVE  /\ Each(op, names) \in Seq(PackStep) /\ StagesInOrder(Each(op, names))
         /\ Within(Each(op, names), Stage(op), Stage(op))
         /\ \A i \in 1 .. Len(names) : Awaits(Each(op, names), <<op, names[i]>>)
<1> DEFINE p == Each(op, names)
           n == Len(names)
<1>1. n \in Nat /\ DOMAIN names = 1 .. n /\ \A i \in 1 .. n : names[i] \in RunMembers
  BY LenProperties, ElementOfSeq
<1>2. \A i \in DOMAIN names : <<op, names[i]>> \in PackStep
  BY <1>1 DEF PackStep
<1>3. p \in Seq(PackStep) /\ Len(p) = n /\ \A i \in 1 .. n : p[i] = <<op, names[i]>>
  BY <1>2, EachIs
<1>4. DOMAIN p = 1 .. n
  BY <1>3, LenProperties
<1>5. Stage(op) \in 1 .. 9
  BY DEF Stage
<1> HIDE DEF p, n
<1>6. \A i \in 1 .. n : p[i][1] = op /\ p[i][2] = names[i]
  BY <1>3
<1>7. StagesInOrder(p) /\ Within(p, Stage(op), Stage(op))
  BY <1>4, <1>5, <1>6 DEF StagesInOrder, Within, n
<1>8. \A i \in 1 .. n : Awaits(p, <<op, names[i]>>)
  BY <1>3, <1>4 DEF Awaits
<1> QED  BY <1>3, <1>7, <1>8 DEF p, n

LEMMA OneInOrder ==
  ASSUME NEW op \in {"install", "sidecar", "deleted"}
  PROVE  /\ <<<<op, "all">>>> \in Seq(PackStep) /\ StagesInOrder(<<<<op, "all">>>>)
         /\ Within(<<<<op, "all">>>>, Stage(op), Stage(op)) /\ Awaits(<<<<op, "all">>>>, <<op, "all">>)
<1> DEFINE e == <<op, "all">>
           p == <<e>>
<1>1. e \in PackStep /\ e[1] = op
  BY DEF PackStep
<1>2. Stage(op) \in 1 .. 9
  BY DEF Stage
<1> HIDE DEF e
<1>3. p \in Seq(PackStep) /\ DOMAIN p = 1 .. 1 /\ p[1] = e
  BY <1>1
<1> HIDE DEF p
<1>4. StagesInOrder(p) /\ Within(p, Stage(op), Stage(op)) /\ Awaits(p, e)
  BY <1>1, <1>2, <1>3 DEF StagesInOrder, Within, Awaits
<1> QED  BY <1>3, <1>4 DEF e, p

LEMMA MembersDiffer ==
  /\ \A i, j \in 1 .. Len(Members) : i # j => Members[i] # Members[j]
  /\ \A f \in RunMembers : \E i \in 1 .. Len(Members) : Members[i] = f
  /\ \A i, j \in 1 .. Len(Selected \o <<"raw">>) :
       i # j => (Selected \o <<"raw">>)[i] # (Selected \o <<"raw">>)[j]
<1>1. /\ Len(Members) = 7 /\ Members[1] = "manifest" /\ Members[2] = "state" /\ Members[3] = "journal"
      /\ Members[4] = "tape" /\ Members[5] = "topbook" /\ Members[6] = "depth" /\ Members[7] = "raw"
  BY RunFilesAre
<1>2. \A i \in 1 .. 7 : i = 1 \/ i = 2 \/ i = 3 \/ i = 4 \/ i = 5 \/ i = 6 \/ i = 7
  OBVIOUS
<1>3. \A i, j \in 1 .. 7 : i # j => Members[i] # Members[j]
  BY <1>1, <1>2
<1>4. \A f \in RunMembers : \E i \in 1 .. 7 : Members[i] = f
  BY <1>1 DEF RunMembers, RunPapers, RunTables
<1> DEFINE s == Selected \o <<"raw">>
<1>5. Len(s) = 4 /\ s[1] = "tape" /\ s[2] = "topbook" /\ s[3] = "depth" /\ s[4] = "raw"
  BY RunFilesAre
<1> HIDE DEF s
<1>6. \A i, j \in 1 .. 4 : i # j => s[i] # s[j]
  BY <1>5
<1>7. \A i, j \in 1 .. Len(s) : i # j => s[i] # s[j]
  BY <1>5, <1>6
<1>8. /\ \A i, j \in 1 .. Len(Members) : i # j => Members[i] # Members[j]
      /\ \A f \in RunMembers : \E i \in 1 .. Len(Members) : Members[i] = f
  BY <1>1, <1>3, <1>4
<1> QED  BY <1>7, <1>8 DEF s

\* The stage of one operation on all files.
LEMMA EachMember ==
  ASSUME NEW op \in {"copy", "compare", "digest", "recheck", "remove"}
  PROVE  /\ Each(op, Members) \in Seq(PackStep) /\ StagesInOrder(Each(op, Members))
         /\ Within(Each(op, Members), Stage(op), Stage(op))
         /\ \A f \in RunMembers : Awaits(Each(op, Members), <<op, f>>)
<1>1. Members \in Seq(RunMembers)
  BY RunFilesAre
<1>2. /\ Each(op, Members) \in Seq(PackStep) /\ StagesInOrder(Each(op, Members))
      /\ Within(Each(op, Members), Stage(op), Stage(op))
      /\ \A i \in 1 .. Len(Members) : Awaits(Each(op, Members), <<op, Members[i]>>)
  BY <1>1, MembersDiffer, EachInOrder
<1> QED  BY <1>2, MembersDiffer

LEMMA PackBlocks ==
  /\ PackPlan \in Seq(PackStep) /\ StagesInOrder(PackPlan) /\ Within(PackPlan, 1, 6)
  /\ \A e \in Mandatory : Awaits(PackPlan, e)
<1> DEFINE s == Selected \o <<"raw">>
           a == Each("print", s)
           b == Each("copy", Members)
           c == Each("compare", Members)
           d == <<<<"install", "all">>>>
           e == Each("digest", Members)
           g == <<<<"sidecar", "all">>>>
<1>1. s \in Seq(RunMembers) /\ \A i, j \in 1 .. Len(s) : i # j => s[i] # s[j]
  BY RunFilesAre, MembersDiffer
<1>2. a \in Seq(PackStep) /\ StagesInOrder(a) /\ Within(a, 1, 1)
  <2>1. Stage("print") = 1
    BY DEF Stage
  <2> HIDE DEF s
  <2> QED  BY <1>1, <2>1, EachInOrder
<1>3. b \in Seq(PackStep) /\ StagesInOrder(b) /\ Within(b, 2, 2) /\ \A f \in RunMembers : Awaits(b, <<"copy", f>>)
  <2>1. Stage("copy") = 2
    BY DEF Stage
  <2> QED  BY <2>1, EachMember
<1>4. c \in Seq(PackStep) /\ StagesInOrder(c) /\ Within(c, 3, 3) /\ \A f \in RunMembers : Awaits(c, <<"compare", f>>)
  <2>1. Stage("compare") = 3
    BY DEF Stage
  <2> QED  BY <2>1, EachMember
<1>5. d \in Seq(PackStep) /\ StagesInOrder(d) /\ Within(d, 4, 4) /\ Awaits(d, <<"install", "all">>)
  <2>1. Stage("install") = 4
    BY DEF Stage
  <2> QED  BY <2>1, OneInOrder
<1>6. e \in Seq(PackStep) /\ StagesInOrder(e) /\ Within(e, 5, 5) /\ \A f \in RunMembers : Awaits(e, <<"digest", f>>)
  <2>1. Stage("digest") = 5
    BY DEF Stage
  <2> QED  BY <2>1, EachMember
<1>7. g \in Seq(PackStep) /\ StagesInOrder(g) /\ Within(g, 6, 6) /\ Awaits(g, <<"sidecar", "all">>)
  <2>1. Stage("sidecar") = 6
    BY DEF Stage
  <2> QED  BY <2>1, OneInOrder
<1> HIDE DEF s, a, b, c, d, e, g
<1> DEFINE ab == a \o b
           ac == ab \o c
           ad == ac \o d
           ae == ad \o e
           ag == ae \o g
<1>8. ab \in Seq(PackStep) /\ StagesInOrder(ab) /\ Within(ab, 1, 2)
  BY <1>2, <1>3, JoinedInOrder
<1> HIDE DEF ab
<1>9. ac \in Seq(PackStep) /\ StagesInOrder(ac) /\ Within(ac, 1, 3)
  BY <1>4, <1>8, JoinedInOrder
<1> HIDE DEF ac
<1>10. ad \in Seq(PackStep) /\ StagesInOrder(ad) /\ Within(ad, 1, 4)
  BY <1>5, <1>9, JoinedInOrder
<1> HIDE DEF ad
<1>11. ae \in Seq(PackStep) /\ StagesInOrder(ae) /\ Within(ae, 1, 5)
  BY <1>6, <1>10, JoinedInOrder
<1> HIDE DEF ae
<1>12. ag \in Seq(PackStep) /\ StagesInOrder(ag) /\ Within(ag, 1, 6)
  BY <1>7, <1>11, JoinedInOrder
<1>13. ASSUME NEW x \in Mandatory PROVE Awaits(ag, x)
  <2>1. \/ \E f \in RunMembers : x = <<"copy", f>> \/ x = <<"compare", f>> \/ x = <<"digest", f>>
        \/ x = <<"install", "all">> \/ x = <<"sidecar", "all">>
    BY DEF Mandatory
  <2>2. Awaits(b, x) \/ Awaits(c, x) \/ Awaits(d, x) \/ Awaits(e, x) \/ Awaits(g, x)
    BY <1>3, <1>4, <1>5, <1>6, <1>7, <2>1
  <2>3. Awaits(ab, x) <=> Awaits(a, x) \/ Awaits(b, x)
    BY <1>2, <1>3, JoinedAwaits DEF ab
  <2>4. Awaits(ac, x) <=> Awaits(ab, x) \/ Awaits(c, x)
    BY <1>8, <1>4, JoinedAwaits DEF ac
  <2>5. Awaits(ad, x) <=> Awaits(ac, x) \/ Awaits(d, x)
    BY <1>9, <1>5, JoinedAwaits DEF ad
  <2>6. Awaits(ae, x) <=> Awaits(ad, x) \/ Awaits(e, x)
    BY <1>10, <1>6, JoinedAwaits DEF ae
  <2>7. Awaits(ag, x) <=> Awaits(ae, x) \/ Awaits(g, x)
    BY <1>11, <1>7, JoinedAwaits DEF ag
  <2> QED  BY <2>2, <2>3, <2>4, <2>5, <2>6, <2>7
<1>14. PackPlan = ag
  BY DEF PackPlan, ag, ae, ad, ac, ab, a, b, c, d, e, g, s
<1> HIDE DEF ag
<1> QED  BY <1>12, <1>13, <1>14

LEMMA DeleteBlocks ==
  /\ DeletePlan \in Seq(PackStep) /\ StagesInOrder(DeletePlan) /\ Within(DeletePlan, 7, 9)
  /\ \A f \in RunMembers : Awaits(DeletePlan, <<"recheck", f>>)
<1> DEFINE a == Each("recheck", Members)
           b == Each("remove", Members)
           c == <<<<"deleted", "all">>>>
<1>1. a \in Seq(PackStep) /\ StagesInOrder(a) /\ Within(a, 7, 7) /\ \A f \in RunMembers : Awaits(a, <<"recheck", f>>)
  <2>1. Stage("recheck") = 7
    BY DEF Stage
  <2> QED  BY <2>1, EachMember
<1>2. b \in Seq(PackStep) /\ StagesInOrder(b) /\ Within(b, 8, 8)
  <2>1. Stage("remove") = 8
    BY DEF Stage
  <2> QED  BY <2>1, EachMember
<1>3. c \in Seq(PackStep) /\ StagesInOrder(c) /\ Within(c, 9, 9)
  <2>1. Stage("deleted") = 9
    BY DEF Stage
  <2> QED  BY <2>1, OneInOrder
<1> HIDE DEF a, b, c
<1> DEFINE ab == a \o b
<1>4. ab \in Seq(PackStep) /\ StagesInOrder(ab) /\ Within(ab, 7, 8)
  BY <1>1, <1>2, JoinedInOrder
<1>5. \A f \in RunMembers : Awaits(ab, <<"recheck", f>>)
  BY <1>1, <1>2, JoinedAwaits
<1> HIDE DEF ab
<1>6. ab \o c \in Seq(PackStep) /\ StagesInOrder(ab \o c) /\ Within(ab \o c, 7, 9)
  BY <1>3, <1>4, JoinedInOrder
<1>7. \A f \in RunMembers : Awaits(ab \o c, <<"recheck", f>>)
  BY <1>3, <1>4, <1>5, JoinedAwaits
<1> QED  BY <1>6, <1>7 DEF DeletePlan, ab, a, b, c

\* A command to pack starts with such a plan, and nothing of it is done.
LEMMA PlansOfPacking ==
  ASSUME NEW delete \in BOOLEAN,
         NEW p, p = PackPlan \o IF delete THEN DeletePlan ELSE <<>>
  PROVE  PackPlanned(p) /\ \A e \in Mandatory : Awaits(p, e)
<1>1. CASE delete
  <2>1. p = PackPlan \o DeletePlan
    BY <1>1
  <2>2. p \in Seq(PackStep) /\ StagesInOrder(p)
    <3>1. /\ PackPlan \in Seq(PackStep) /\ StagesInOrder(PackPlan) /\ Within(PackPlan, 1, 6)
          /\ DeletePlan \in Seq(PackStep) /\ StagesInOrder(DeletePlan) /\ Within(DeletePlan, 7, 9)
      BY PackBlocks, DeleteBlocks
    <3> QED  BY ONLY <2>1, <3>1, JoinedInOrder
  <2>3. \A e \in Mandatory : Awaits(p, e)
    BY <2>1, PackBlocks, DeleteBlocks, JoinedAwaits
  <2>4. ASSUME NEW f \in RunMembers PROVE Awaits(p, <<"recheck", f>>)
    <3>1. Awaits(DeletePlan, <<"recheck", f>>) /\ PackPlan \in Seq(PackStep) /\ DeletePlan \in Seq(PackStep)
      BY PackBlocks, DeleteBlocks
    <3> QED  BY ONLY <2>1, <3>1, JoinedAwaits
  <2> QED  BY <2>2, <2>3, <2>4 DEF PackPlanned, StagesAreThere
<1>2. CASE ~delete
  <2>1. p = PackPlan
    <3>1. p = PackPlan \o <<>>
      BY <1>2
    <3> QED  BY <3>1, PackBlocks, ConcatEmptySeq
  <2>2. ASSUME NEW f \in RunMembers, Awaits(p, <<"remove", f>>) PROVE FALSE
    <3>1. PICK i \in DOMAIN p : p[i] = <<"remove", f>>
      BY <2>2 DEF Awaits
    <3>2. Stage("remove") = 8
      BY DEF Stage
    <3>3. Stage(p[i][1]) \in 1 .. 6
      BY <2>1, PackBlocks DEF Within
    <3> QED  BY <3>1, <3>2, <3>3
  <2> QED  BY <2>1, <2>2, PackBlocks DEF PackPlanned, StagesAreThere
<1> QED  BY <1>1, <1>2

-----------------------------------------------------------------------------
(* The plan of a reconstruction. *)

\* The authority is loaded first and the result published last, and every file
\* that is read is looked at again, but for those in open.
Early(e) == e[1] \in {"load", "print"}
EarlyFirst(p) == \A i, j \in DOMAIN p : i < j /\ Early(p[j]) => Early(p[i])
PublishLast(p) == \A i \in DOMAIN p : p[i][1] = "publish" => i = Len(p)
Answered(p, open) ==
  \A i \in DOMAIN p : p[i][1] = "read" /\ p[i][2] \notin open =>
    \E j \in DOMAIN p : i < j /\ p[j] = <<"same", p[i][2]>>
ReadPlanned(p) ==
  p \in Seq(ReadStep) /\ EarlyFirst(p) /\ PublishLast(p) /\ Answered(p, {})
\* A part of such a plan, but for the publication.
ReadPart(p, open) ==
  /\ p \in Seq(ReadStep) /\ EarlyFirst(p) /\ Answered(p, open)
  /\ \A i \in DOMAIN p : p[i][1] # "publish"
NoEarly(p) == \A i \in DOMAIN p : ~Early(p[i])

LEMMA JoinedReading ==
  ASSUME NEW p \in Seq(ReadStep), NEW q \in Seq(ReadStep), NEW before, NEW open,
         EarlyFirst(p), Answered(p, before), \A i \in DOMAIN p : p[i][1] # "publish",
         EarlyFirst(q), Answered(q, open), PublishLast(q),
         (\A i \in DOMAIN p : Early(p[i])) \/ NoEarly(q),
         \A f \in before : f \in open \/ Awaits(q, <<"same", f>>)
  PROVE  /\ p \o q \in Seq(ReadStep) /\ EarlyFirst(p \o q) /\ Answered(p \o q, open)
         /\ PublishLast(p \o q)
         /\ (\A i \in DOMAIN q : q[i][1] # "publish") => \A i \in DOMAIN (p \o q) : (p \o q)[i][1] # "publish"
<1> DEFINE r == p \o q
           m == Len(p)
           n == Len(q)
<1>1. /\ r \in Seq(ReadStep) /\ m \in Nat /\ n \in Nat
      /\ DOMAIN p = 1 .. m /\ DOMAIN q = 1 .. n /\ DOMAIN r = 1 .. m + n /\ Len(r) = m + n
      /\ \A i \in 1 .. m + n : r[i] = IF i <= m THEN p[i] ELSE q[i - m]
  BY ConcatProperties, LenProperties
<1>n. Len(q) = n
  OBVIOUS
<1> HIDE DEF r, m, n
<1>2. ASSUME NEW i \in 1 .. m + n
      PROVE  \/ i \in 1 .. m /\ r[i] = p[i]
             \/ i > m /\ i - m \in 1 .. n /\ r[i] = q[i - m]
  BY <1>1
<1>3. ASSUME NEW i \in 1 .. n PROVE m + i \in 1 .. m + n /\ m + i > m /\ r[m + i] = q[i]
  <2>1. m + i \in 1 .. m + n /\ ~(m + i <= m) /\ (m + i) - m = i
    BY <1>1
  <2> QED  BY <1>1, <2>1
<1>4. EarlyFirst(r)
  <2> SUFFICES ASSUME NEW i \in 1 .. m + n, NEW j \in 1 .. m + n, i < j, Early(r[j]) PROVE Early(r[i])
    BY <1>1 DEF EarlyFirst
  <2>1. CASE j \in 1 .. m
    <3>0. i \in 1 .. m
      BY <1>1, <2>1
    <3>1. r[i] = p[i] /\ r[j] = p[j]
      BY <1>1, <2>1, <3>0
    <3> QED  BY <1>1, <2>1, <3>0, <3>1 DEF EarlyFirst
  <2>2. CASE j > m
    <3>1. j - m \in 1 .. n /\ r[j] = q[j - m]
      BY <1>1, <2>2
    <3>2. \A k \in DOMAIN p : Early(p[k])
      BY <1>1, <3>1 DEF NoEarly
    <3>3. CASE i > m
      <4>1. i - m \in 1 .. n /\ r[i] = q[i - m] /\ i - m < j - m
        BY <1>1, <3>3
      <4> QED  BY <1>1, <3>1, <4>1 DEF EarlyFirst
    <3> QED  BY <1>1, <1>2, <3>2, <3>3
  <2> QED  BY <1>1, <2>1, <2>2
<1>5. Answered(r, open)
  <2> SUFFICES ASSUME NEW i \in 1 .. m + n, r[i][1] = "read", r[i][2] \notin open
               PROVE  \E j \in 1 .. m + n : i < j /\ r[j] = <<"same", r[i][2]>>
    BY <1>1 DEF Answered
  <2>1. CASE i \in 1 .. m
    <3>1. r[i] = p[i]
      BY <1>1, <2>1
    <3>2. CASE r[i][2] \in before
      <4>1. PICK j \in 1 .. n : q[j] = <<"same", r[i][2]>>
        BY <1>1, <3>2 DEF Awaits
      <4>2. m + j \in 1 .. m + n /\ i < m + j /\ r[m + j] = q[j]
        BY <1>1, <1>3, <2>1
      <4> QED  BY <4>1, <4>2
    <3>3. CASE r[i][2] \notin before
      <4>1. PICK j \in 1 .. m : i < j /\ p[j] = <<"same", p[i][2]>>
        BY <1>1, <2>1, <3>1, <3>3 DEF Answered
      <4>2. j \in 1 .. m + n /\ r[j] = p[j]
        BY <1>1
      <4> QED  BY <3>1, <4>1, <4>2
    <3> QED  BY <3>2, <3>3
  <2>2. CASE i > m
    <3>1. i - m \in 1 .. n /\ r[i] = q[i - m]
      BY <1>1, <2>2
    <3>2. PICK j \in 1 .. n : i - m < j /\ q[j] = <<"same", r[i][2]>>
      BY <1>1, <3>1 DEF Answered
    <3>3. m + j \in 1 .. m + n /\ r[m + j] = q[j]
      BY <1>3
    <3>4. i < m + j
      BY <1>1, <3>2
    <3> QED  BY <3>2, <3>3, <3>4
  <2> QED  BY <1>2, <2>1, <2>2
<1>6. PublishLast(r)
  <2> SUFFICES ASSUME NEW i \in 1 .. m + n, r[i][1] = "publish" PROVE i = m + n
    BY <1>1 DEF PublishLast
  <2>1. i - m \in 1 .. n /\ q[i - m][1] = "publish"
    BY <1>1, <1>2
  <2>2. i - m = n
    BY <1>1, <1>n, <2>1 DEF PublishLast
  <2> QED  BY <1>1, <2>2
<1>7. (\A i \in DOMAIN q : q[i][1] # "publish") => \A i \in DOMAIN r : r[i][1] # "publish"
  BY <1>1, <1>2
<1> QED  BY <1>1, <1>4, <1>5, <1>6, <1>7 DEF r

\* Parts of a plan: one behind another that has nothing early in it.
LEMMA NextReadPart ==
  ASSUME NEW before, NEW open, NEW p, NEW q, ReadPart(p, before), ReadPart(q, open), NoEarly(q),
         \A f \in before : f \in open \/ Awaits(q, <<"same", f>>)
  PROVE  ReadPart(p \o q, open)
<1>1. PublishLast(q)
  BY DEF ReadPart, PublishLast
<1> QED  BY <1>1, JoinedReading DEF ReadPart

\* One operation on some files.
LEMMA EachReading ==
  ASSUME NEW names \in Seq(RunMembers), NEW op, \A i \in DOMAIN names : <<op, names[i]>> \in ReadStep,
         op \in {"load", "keep", "print", "same"}
  PROVE  /\ ReadPart(Each(op, names), {})
         /\ op \in {"load", "print"} => \A i \in DOMAIN Each(op, names) : Early(Each(op, names)[i])
         /\ op \in {"keep", "same"} => NoEarly(Each(op, names))
         /\ \A i \in 1 .. Len(names) : Awaits(Each(op, names), <<op, names[i]>>)
<1> DEFINE p == Each(op, names)
           n == Len(names)
<1>1. p \in Seq(ReadStep) /\ Len(p) = n /\ \A i \in 1 .. n : p[i] = <<op, names[i]>>
  BY EachIs
<1>2. DOMAIN p = 1 .. n
  BY <1>1, LenProperties
<1> HIDE DEF p, n
<1>3. \A i \in DOMAIN p : p[i][1] = op
  BY <1>1, <1>2
<1>4. \A i \in 1 .. n : Awaits(p, <<op, names[i]>>)
  BY <1>1, <1>2 DEF Awaits
<1>5. op \in {"load", "print"} => \A i \in DOMAIN p : Early(p[i])
  BY <1>3 DEF Early
<1>6. op \in {"keep", "same"} => NoEarly(p)
  BY <1>3 DEF Early, NoEarly
<1>7. EarlyFirst(p)
  BY <1>5, <1>6 DEF EarlyFirst, NoEarly
<1>8. ReadPart(p, {})
  BY <1>1, <1>3, <1>7 DEF ReadPart, Answered
<1> QED  BY <1>4, <1>5, <1>6, <1>8 DEF p, n

LEMMA ComparedIs ==
  ASSUME NEW f \in RunTables
  PROVE  ReadPart(Compared(f), {}) /\ NoEarly(Compared(f)) /\ Awaits(Compared(f), <<"read", f>>)
<1> DEFINE a == <<"read", f>>
           b == <<"same", f>>
           p == <<a, b>>
<1>1. a \in ReadStep /\ b \in ReadStep /\ a[1] = "read" /\ a[2] = f /\ b[1] = "same" /\ b[2] = f
  BY DEF ReadStep
<1>2. b = <<"same", a[2]>>
  OBVIOUS
<1> HIDE DEF a, b
<1>3. p \in Seq(ReadStep) /\ DOMAIN p = {1, 2} /\ p[1] = a /\ p[2] = b
  BY <1>1
<1> HIDE DEF p
<1>4. NoEarly(p)
  BY <1>1, <1>3 DEF NoEarly, Early
<1>5. EarlyFirst(p)
  BY <1>4 DEF NoEarly, EarlyFirst
<1>6. Answered(p, {})
  <2> SUFFICES ASSUME NEW i \in DOMAIN p, p[i][1] = "read"
               PROVE  \E j \in DOMAIN p : i < j /\ p[j] = <<"same", p[i][2]>>
    BY DEF Answered
  <2>1. i = 1
    BY <1>1, <1>3
  <2>2. 2 \in DOMAIN p /\ i < 2 /\ p[2] = <<"same", p[i][2]>>
    BY <1>2, <1>3, <2>1
  <2> QED  BY <2>2
<1>7. ReadPart(p, {})
  BY <1>1, <1>3, <1>5, <1>6 DEF ReadPart
<1>8. Awaits(p, a)
  BY <1>3 DEF Awaits
<1> QED  BY <1>4, <1>7, <1>8 DEF Compared, p, a, b

LEMMA TablesThere == \A f \in RunTables : \E i \in 1 .. Len(Selected) : Selected[i] = f
<1>1. Len(Selected) = 3 /\ Selected[1] = "tape" /\ Selected[2] = "topbook" /\ Selected[3] = "depth"
  BY RunFilesAre
<1> QED  BY <1>1 DEF RunTables

\* Steps on the papers and on the tables.
LEMMA PapersAndTables ==
  /\ \A i \in DOMAIN Papers : <<"load", Papers[i]>> \in ReadStep /\ <<"keep", Papers[i]>> \in ReadStep
  /\ \A i \in DOMAIN Selected : <<"print", Selected[i]>> \in ReadStep /\ <<"same", Selected[i]>> \in ReadStep
<1>1. ASSUME NEW i \in DOMAIN Papers PROVE <<"load", Papers[i]>> \in ReadStep /\ <<"keep", Papers[i]>> \in ReadStep
  <2>1. Papers[i] \in RunPapers
    BY RunFilesAre, ElementOfSeq, LenProperties
  <2> QED  BY <2>1 DEF ReadStep
<1>2. ASSUME NEW i \in DOMAIN Selected PROVE <<"print", Selected[i]>> \in ReadStep /\ <<"same", Selected[i]>> \in ReadStep
  <2>1. Selected[i] \in RunTables
    BY RunFilesAre, ElementOfSeq, LenProperties
  <2> QED  BY <2>1 DEF ReadStep
<1> QED  BY <1>1, <1>2

LEMMA VerifyIs ==
  ReadPart(Verify, {}) /\ NoEarly(Verify) /\ \A f \in RunTables : Awaits(Verify, <<"same", f>>)
<1> DEFINE k == Each("keep", Papers)
           s == Each("same", Selected)
<1>1. ReadPart(k, {}) /\ NoEarly(k)
  BY RunFilesAre, PapersAndTables, EachReading
<1>2. ReadPart(s, {}) /\ NoEarly(s)
  BY RunFilesAre, PapersAndTables, EachReading
<1>3. \A i \in 1 .. Len(Selected) : Awaits(s, <<"same", Selected[i]>>)
  BY RunFilesAre, PapersAndTables, EachReading
<1> HIDE DEF k, s
<1>4. ReadPart(k \o s, {})
  BY <1>1, <1>2, NextReadPart
<1>5. k \in Seq(ReadStep) /\ s \in Seq(ReadStep)
  BY <1>1, <1>2 DEF ReadPart
<1>6. NoEarly(k \o s)
  <2>1. /\ Len(k) \in Nat /\ Len(s) \in Nat /\ DOMAIN k = 1 .. Len(k) /\ DOMAIN s = 1 .. Len(s)
        /\ DOMAIN (k \o s) = 1 .. Len(k) + Len(s)
        /\ \A i \in 1 .. Len(k) + Len(s) : (k \o s)[i] = IF i <= Len(k) THEN k[i] ELSE s[i - Len(k)]
    BY <1>5, ConcatProperties, LenProperties
  <2>2. ASSUME NEW i \in 1 .. Len(k) + Len(s)
        PROVE  i \in 1 .. Len(k) \/ (i > Len(k) /\ i - Len(k) \in 1 .. Len(s))
    BY <2>1
  <2> QED  BY <1>1, <1>2, <2>1, <2>2 DEF NoEarly
<1>7. ASSUME NEW f \in RunTables PROVE Awaits(k \o s, <<"same", f>>)
  <2>1. Awaits(s, <<"same", f>>)
    BY <1>3, TablesThere
  <2> QED  BY ONLY <1>5, <2>1, JoinedAwaits
<1> QED  BY <1>4, <1>6, <1>7 DEF Verify, k, s

LEMMA DepthPart ==
  /\ ReadPart(Each("read", Depth), {"depth"}) /\ NoEarly(Each("read", Depth))
  /\ Awaits(Each("read", Depth), <<"read", "depth">>)
<1> DEFINE p == Each("read", Depth)
<1>1. Depth \in Seq(RunMembers) /\ Len(Depth) = 1 /\ Depth[1] = "depth" /\ DOMAIN Depth = 1 .. 1
  BY RunFilesAre, LenProperties
<1>2. \A i \in DOMAIN Depth : <<"read", Depth[i]>> \in ReadStep
  BY <1>1 DEF ReadStep, RunTables
<1>3. p \in Seq(ReadStep) /\ Len(p) = 1 /\ \A i \in 1 .. 1 : p[i] = <<"read", Depth[i]>>
  BY <1>1, <1>2, EachIs
<1>4. DOMAIN p = 1 .. 1
  BY <1>3, LenProperties
<1>5. \A i \in DOMAIN p : p[i] = <<"read", "depth">> /\ i = 1
  <2>1. p[1] = <<"read", "depth">>
    BY <1>1, <1>3
  <2> HIDE DEF p
  <2> QED  BY <1>4, <2>1
<1> HIDE DEF p
<1>6. NoEarly(p) /\ EarlyFirst(p)
  BY <1>5 DEF NoEarly, EarlyFirst, Early
<1>7. Answered(p, {"depth"})
  BY <1>5 DEF Answered
<1>8. \A i \in DOMAIN p : p[i][1] # "publish"
  BY <1>5
<1>9. Awaits(p, <<"read", "depth">>)
  BY <1>4, <1>5 DEF Awaits
<1> QED  BY <1>3, <1>6, <1>7, <1>8, <1>9 DEF p, ReadPart

LEMMA ReadBlocks ==
  /\ ReadPlanned(ReconstructPlan) /\ Awaits(ReconstructPlan, <<"load", "journal">>)
  /\ \A f \in RunTables :
       Awaits(ReconstructPlan, <<"read", f>>) /\ Awaits(ReconstructPlan, <<"print", f>>)
<1> DEFINE l == Each("load", Papers)
           p == Each("print", Selected)
           k == Each("keep", Papers)
           t == Compared("tape")
           b == Compared("topbook")
           v == Verify
           d == Each("read", Depth)
           e == <<"publish", "all">>
           u == <<e>>
<1>1. /\ ReadPart(l, {}) /\ \A i \in DOMAIN l : Early(l[i])
      /\ \A i \in 1 .. Len(Papers) : Awaits(l, <<"load", Papers[i]>>)
  BY RunFilesAre, PapersAndTables, EachReading
<1>2. ReadPart(p, {}) /\ \A i \in 1 .. Len(Selected) : Awaits(p, <<"print", Selected[i]>>)
  BY RunFilesAre, PapersAndTables, EachReading
<1>3. ReadPart(k, {}) /\ NoEarly(k)
  BY RunFilesAre, PapersAndTables, EachReading
<1>4. ReadPart(t, {}) /\ NoEarly(t) /\ Awaits(t, <<"read", "tape">>)
  BY ComparedIs DEF RunTables
<1>5. ReadPart(b, {}) /\ NoEarly(b) /\ Awaits(b, <<"read", "topbook">>)
  BY ComparedIs DEF RunTables
<1>6. ReadPart(v, {}) /\ NoEarly(v) /\ Awaits(v, <<"same", "depth">>)
  BY VerifyIs DEF RunTables
<1>7. ReadPart(d, {"depth"}) /\ NoEarly(d) /\ Awaits(d, <<"read", "depth">>)
  BY DepthPart
<1>8. /\ u \in Seq(ReadStep) /\ EarlyFirst(u) /\ Answered(u, {}) /\ PublishLast(u) /\ NoEarly(u)
  <2>1. e \in ReadStep /\ e[1] = "publish"
    BY DEF ReadStep
  <2> HIDE DEF e
  <2>2. u \in Seq(ReadStep) /\ DOMAIN u = 1 .. 1 /\ u[1] = e /\ Len(u) = 1
    BY <2>1
  <2> HIDE DEF u
  <2>3. \A i \in DOMAIN u : i = 1 /\ u[i][1] = "publish"
    BY <2>1, <2>2
  <2> QED  BY <2>2, <2>3 DEF EarlyFirst, Answered, PublishLast, NoEarly, Early
<1>9. Awaits(l, <<"load", "journal">>)
  <2>1. Len(Papers) = 3 /\ Papers[3] = "journal"
    BY RunFilesAre
  <2>2. Awaits(l, <<"load", Papers[3]>>)
    BY <1>1, <2>1
  <2> QED  BY <2>1, <2>2
<1>10. \A f \in RunTables : Awaits(p, <<"print", f>>)
  BY <1>2, TablesThere
<1> HIDE DEF l, p, k, t, b, v, d, u
<1> DEFINE x1 == l \o p
           x2 == x1 \o k
           x3 == x2 \o t
           x4 == x3 \o b
           x5 == x4 \o v
           x6 == x5 \o d
           x7 == x6 \o v
           x8 == x7 \o u
<1>11. ReadPart(x1, {})
  <2>1. PublishLast(p)
    BY <1>2 DEF ReadPart, PublishLast
  <2> QED  BY <1>1, <1>2, <2>1, JoinedReading DEF ReadPart
<1> HIDE DEF x1
<1>12. ReadPart(x2, {})
  BY <1>11, <1>3, NextReadPart
<1> HIDE DEF x2
<1>13. ReadPart(x3, {})
  BY <1>12, <1>4, NextReadPart
<1> HIDE DEF x3
<1>14. ReadPart(x4, {})
  BY <1>13, <1>5, NextReadPart
<1> HIDE DEF x4
<1>15. ReadPart(x5, {})
  BY <1>14, <1>6, NextReadPart
<1> HIDE DEF x5
<1>16. ReadPart(x6, {"depth"})
  BY <1>15, <1>7, NextReadPart
<1> HIDE DEF x6
<1>17. ReadPart(x7, {})
  BY <1>16, <1>6, NextReadPart
<1> HIDE DEF x7
<1>18. ReadPlanned(x8)
  BY <1>17, <1>8, JoinedReading DEF ReadPart, ReadPlanned
<1>19. /\ l \in Seq(ReadStep) /\ p \in Seq(ReadStep) /\ k \in Seq(ReadStep) /\ t \in Seq(ReadStep)
       /\ b \in Seq(ReadStep) /\ v \in Seq(ReadStep) /\ d \in Seq(ReadStep) /\ u \in Seq(ReadStep)
       /\ x1 \in Seq(ReadStep) /\ x2 \in Seq(ReadStep) /\ x3 \in Seq(ReadStep) /\ x4 \in Seq(ReadStep)
       /\ x5 \in Seq(ReadStep) /\ x6 \in Seq(ReadStep) /\ x7 \in Seq(ReadStep)
  BY <1>1, <1>2, <1>3, <1>4, <1>5, <1>6, <1>7, <1>8, <1>11, <1>12, <1>13, <1>14, <1>15, <1>16, <1>17
    DEF ReadPart
<1>20. ASSUME NEW y, \/ Awaits(l, y) \/ Awaits(p, y) \/ Awaits(t, y) \/ Awaits(b, y) \/ Awaits(d, y)
       PROVE  Awaits(x8, y)
  <2>1. Awaits(x1, y) <=> Awaits(l, y) \/ Awaits(p, y)
    BY ONLY <1>19, JoinedAwaits DEF x1
  <2>2. Awaits(x2, y) <=> Awaits(x1, y) \/ Awaits(k, y)
    BY ONLY <1>19, JoinedAwaits DEF x2
  <2>3. Awaits(x3, y) <=> Awaits(x2, y) \/ Awaits(t, y)
    BY ONLY <1>19, JoinedAwaits DEF x3
  <2>4. Awaits(x4, y) <=> Awaits(x3, y) \/ Awaits(b, y)
    BY ONLY <1>19, JoinedAwaits DEF x4
  <2>5. Awaits(x5, y) <=> Awaits(x4, y) \/ Awaits(v, y)
    BY ONLY <1>19, JoinedAwaits DEF x5
  <2>6. Awaits(x6, y) <=> Awaits(x5, y) \/ Awaits(d, y)
    BY ONLY <1>19, JoinedAwaits DEF x6
  <2>7. Awaits(x7, y) <=> Awaits(x6, y) \/ Awaits(v, y)
    BY ONLY <1>19, JoinedAwaits DEF x7
  <2>8. Awaits(x8, y) <=> Awaits(x7, y) \/ Awaits(u, y)
    BY ONLY <1>19, JoinedAwaits DEF x8
  <2> QED  BY <1>20, <2>1, <2>2, <2>3, <2>4, <2>5, <2>6, <2>7, <2>8
<1>21. ASSUME NEW f \in RunTables PROVE Awaits(x8, <<"read", f>>) /\ Awaits(x8, <<"print", f>>)
  <2>1. f = "tape" \/ f = "topbook" \/ f = "depth"
    BY DEF RunTables
  <2>2. Awaits(t, <<"read", f>>) \/ Awaits(b, <<"read", f>>) \/ Awaits(d, <<"read", f>>)
    BY <1>4, <1>5, <1>7, <2>1
  <2> QED  BY <1>10, <1>20, <2>2
<1>22. Awaits(x8, <<"load", "journal">>)
  BY <1>9, <1>20
<1>23. ReconstructPlan = x8
  BY DEF ReconstructPlan, x8, x7, x6, x5, x4, x3, x2, x1, l, p, k, t, b, v, d, u
<1> HIDE DEF x8
<1> QED  BY <1>18, <1>21, <1>22, <1>23

-----------------------------------------------------------------------------
(* The invariant. *)

TaskShape(t) ==
  t \in [does : {"none", "reconstruct", "archive"}, plan : {t.plan}, noted : {t.noted}, saw : {t.saw}]
ArchiveShape(a) ==
  a \in [staged : BOOLEAN, holds : {a.holds}, sidecar : {"none", "kept", "deleted"}, digest : {a.digest}]
\* What is in the run.
RunIsTyped ==
  /\ MaxEdits \in Nat /\ files \in [RunMembers -> Nat] /\ edits \in 0 .. MaxEdits
  /\ \A f \in RunMembers : files[f] < Gone => files[f] <= edits
\* What an archive stands for.
ArchiveIsWhole(fs, a, sl) ==
  /\ ArchiveShape(a) /\ (a.holds = <<>> \/ DOMAIN a.holds = RunMembers)
  /\ \A f \in RunMembers : fs[f] >= Gone =>
       /\ a.sidecar # "none" /\ f \in DOMAIN a.holds
       /\ fs[f] = Gone + a.holds[f] \/ f \in sl
\* Where the archiver is with a file, and with the archive.
MemberPacked(fs, t, sl, f) ==
  /\ Awaits(t.plan, <<"copy", f>>) \/ f \in DOMAIN t.noted
  /\ \/ Awaits(t.plan, <<"compare", f>>) \/ ~Awaits(t.plan, <<"digest", f>>)
     \/ fs[f] = t.noted[f] \/ f \in sl
  /\ \/ Awaits(t.plan, <<"digest", f>>)
     \/ f \in DOMAIN t.saw /\ (t.saw[f] = t.noted[f] \/ f \in sl)
  /\ \/ Awaits(t.plan, <<"recheck", f>>) \/ ~Awaits(t.plan, <<"remove", f>>)
     \/ fs[f] = t.noted[f] \/ f \in sl
  /\ Awaits(t.plan, <<"remove", f>>) => fs[f] < Gone
Packing(fs, t, a, sl) ==
  /\ PackPlanned(t.plan) /\ DOMAIN t.noted \subseteq RunMembers
  /\ IF Awaits(t.plan, <<"install", "all">>) THEN a.holds = <<>>
       ELSE a.holds = t.noted /\ DOMAIN t.noted = RunMembers
  /\ IF Awaits(t.plan, <<"sidecar", "all">>) THEN a.sidecar = "none"
       ELSE a.sidecar # "none" /\ a.digest = t.saw
  /\ \A f \in RunMembers : MemberPacked(fs, t, sl, f)
\* Where the reconstruction is with a table, and with the journal.
TableRead(fs, t, f) ==
  /\ Awaits(t.plan, <<"print", f>>) \/ (f \in DOMAIN t.noted /\ t.noted[f] = 0)
  /\ Awaits(t.plan, <<"read", f>>) \/ f \in DOMAIN t.saw
  /\ f \in DOMAIN t.saw =>
       /\ t.saw[f] \in 0 .. fs[f]
       /\ t.saw[f] = 0 \/ Awaits(t.plan, <<"same", f>>)
Rebuilding(fs, t) ==
  /\ ReadPlanned(t.plan)
  /\ \A f \in RunTables : TableRead(fs, t, f)
  /\ \/ Awaits(t.plan, <<"load", "journal">>)
     \/ "journal" \in DOMAIN t.noted /\ t.noted["journal"] = 0
ProductIsCommitted(made) ==
  made.made => (\A f \in RunTables : made.saw[f] = 0) /\ made.papers["journal"] = 0
RunInv ==
  /\ RunIsTyped /\ TaskShape(task)
  /\ ArchiveIsWhole(files, archive, slipped) /\ ProductIsCommitted(product)
  /\ task.does = "archive" => Packing(files, task, archive, slipped)
  /\ task.does = "reconstruct" => Rebuilding(files, task)

-----------------------------------------------------------------------------
(* One step on. *)

\* What is behind the step at the head of a plan to pack, and what is before it.
LEMMA PackOn ==
  ASSUME NEW p, PackPlanned(p), p # <<>>
  PROVE  /\ PackPlanned(Tail(p)) /\ Head(p) \in PackStep /\ Head(p) = <<Head(p)[1], Head(p)[2]>>
         /\ Awaits(p, Head(p))
         /\ \A e : Awaits(Tail(p), e) <=> Awaits(p, e) /\ e # Head(p)
         /\ \A e \in PackStep : Stage(e[1]) < Stage(Head(p)[1]) => ~Awaits(p, e)
         /\ \A e \in Mandatory : Stage(e[1]) > Stage(Head(p)[1]) => Awaits(p, e)
         /\ \A f \in RunMembers : Awaits(p, <<"remove", f>>) /\ Stage(Head(p)[1]) < 7 => Awaits(p, <<"recheck", f>>)
<1> DEFINE h == Head(p)
           q == Tail(p)
           n == Len(p)
<1>1. /\ p \in Seq(PackStep) /\ h = p[1] /\ h \in PackStep /\ Awaits(p, h) /\ n \in Nat \ {0}
      /\ q \in Seq(PackStep) /\ Len(q) = n - 1 /\ \A i \in 1 .. n - 1 : q[i] = p[i + 1]
      /\ \A e : Awaits(p, e) <=> e = h \/ Awaits(q, e)
  BY StepSequence DEF PackPlanned
<1>2. DOMAIN p = 1 .. n /\ DOMAIN q = 1 .. n - 1
  BY <1>1, LenProperties
<1> HIDE DEF h, q, n
<1>3. \A i \in 1 .. n : p[i] \in PackStep /\ Stage(p[i][1]) \in 1 .. 9
  BY <1>1, <1>2, StageIs, ElementOfSeq DEF n
<1>4. Stage(h[1]) \in 1 .. 9 /\ h = <<h[1], h[2]>>
  BY <1>1, StageIs
<1>5. \A i \in 1 .. n : Stage(h[1]) <= Stage(p[i][1]) /\ (i # 1 => p[i] # h)
  <2> TAKE i \in 1 .. n
  <2>1. CASE i = 1
    BY <1>1, <1>4, <2>1
  <2>2. CASE i # 1
    <3>1. 1 \in DOMAIN p /\ i \in DOMAIN p /\ 1 < i
      BY <1>1, <1>2, <2>2
    <3> QED  BY <1>1, <3>1 DEF PackPlanned, StagesInOrder
  <2> QED  BY <2>1, <2>2
<1>6. ASSUME NEW i \in 1 .. n - 1 PROVE i + 1 \in 1 .. n /\ i + 1 # 1 /\ q[i] = p[i + 1]
  BY <1>1
<1>7. ~Awaits(q, h)
  BY <1>2, <1>5, <1>6 DEF Awaits
<1>8. \A e : Awaits(q, e) <=> Awaits(p, e) /\ e # h
  BY <1>1, <1>7
<1>9. ASSUME NEW e \in PackStep, Stage(e[1]) < Stage(h[1]) PROVE ~Awaits(p, e)
  <2> SUFFICES ASSUME NEW i \in 1 .. n, p[i] = e PROVE FALSE
    BY <1>2 DEF Awaits
  <2>1. Stage(h[1]) <= Stage(e[1]) /\ Stage(e[1]) \in 1 .. 9
    BY <1>3, <1>5
  <2> QED  BY <1>4, <1>9, <2>1
<1>10. ASSUME NEW e \in Mandatory, Stage(e[1]) > Stage(h[1]) PROVE Awaits(p, e)
  <2> SUFFICES ASSUME ~Awaits(p, e) PROVE FALSE
    OBVIOUS
  <2>1. 1 \in DOMAIN p
    BY <1>1, <1>2
  <2>2. Stage(p[1][1]) >= Stage(e[1])
    BY <2>1 DEF PackPlanned, StagesAreThere
  <2>3. Stage(h[1]) >= Stage(e[1]) /\ Stage(e[1]) \in 2 .. 6
    BY <1>1, <2>2, DueIs
  <2> QED  BY <1>4, <1>10, <2>3
<1>11. ASSUME NEW f \in RunMembers, Awaits(p, <<"remove", f>>), Stage(h[1]) < 7 PROVE Awaits(p, <<"recheck", f>>)
  <2> SUFFICES ASSUME ~Awaits(p, <<"recheck", f>>) PROVE FALSE
    OBVIOUS
  <2>1. 1 \in DOMAIN p
    BY <1>1, <1>2
  <2>2. Stage(p[1][1]) >= 7
    BY <1>11, <2>1 DEF PackPlanned, StagesAreThere
  <2> QED  BY <1>1, <1>4, <1>11, <2>2
<1>12. StagesInOrder(q)
  <2> SUFFICES ASSUME NEW i \in 1 .. n - 1, NEW j \in 1 .. n - 1, i < j
               PROVE  Stage(q[i][1]) <= Stage(q[j][1]) /\ q[i] # q[j]
    BY <1>2 DEF StagesInOrder
  <2>1. i + 1 \in DOMAIN p /\ j + 1 \in DOMAIN p /\ i + 1 < j + 1 /\ q[i] = p[i + 1] /\ q[j] = p[j + 1]
    BY <1>1, <1>2
  <2> QED  BY <2>1 DEF PackPlanned, StagesInOrder
<1>13. ASSUME NEW e \in Mandatory, ~Awaits(q, e) PROVE \A i \in DOMAIN q : Stage(q[i][1]) >= Stage(e[1])
  <2> SUFFICES ASSUME NEW i \in 1 .. n - 1 PROVE Stage(q[i][1]) >= Stage(e[1])
    BY <1>2
  <2>1. i + 1 \in 1 .. n /\ q[i] = p[i + 1]
    BY <1>6
  <2>2. CASE e = h
    <3>1. Stage(h[1]) <= Stage(p[i + 1][1]) /\ Stage(p[i + 1][1]) \in 1 .. 9
      BY <1>3, <1>5, <2>1
    <3> QED  BY <1>4, <2>1, <2>2, <3>1
  <2>3. CASE e # h
    <3>1. ~Awaits(p, e)
      BY <1>1, <1>13, <2>3
    <3> QED  BY <1>2, <2>1, <3>1 DEF PackPlanned, StagesAreThere
  <2> QED  BY <2>2, <2>3
<1>14. ASSUME NEW f \in RunMembers, Awaits(q, <<"remove", f>>), ~Awaits(q, <<"recheck", f>>)
       PROVE  \A i \in DOMAIN q : Stage(q[i][1]) >= 7
  <2> SUFFICES ASSUME NEW i \in 1 .. n - 1 PROVE Stage(q[i][1]) >= 7
    BY <1>2
  <2>1. i + 1 \in 1 .. n /\ q[i] = p[i + 1]
    BY <1>6
  <2>2. Awaits(p, <<"remove", f>>)
    BY <1>1, <1>14
  <2>3. CASE h = <<"recheck", f>>
    <3>1. Stage(h[1]) <= Stage(p[i + 1][1]) /\ Stage(p[i + 1][1]) \in 1 .. 9
      BY <1>3, <1>5, <2>1
    <3>2. h[1] = "recheck"
      BY <2>3
    <3>3. Stage(h[1]) = 7
      BY <3>2 DEF Stage
    <3> QED  BY <2>1, <3>1, <3>3
  <2>4. CASE h # <<"recheck", f>>
    <3>1. ~Awaits(p, <<"recheck", f>>)
      BY <1>1, <1>14, <2>4
    <3> QED  BY <1>2, <2>1, <2>2, <3>1 DEF PackPlanned, StagesAreThere
  <2> QED  BY <2>3, <2>4
<1>15. PackPlanned(q)
  BY <1>1, <1>12, <1>13, <1>14 DEF PackPlanned, StagesAreThere
<1> QED  BY <1>1, <1>4, <1>8, <1>9, <1>10, <1>11, <1>15 DEF h, q

LEMMA ReadOn ==
  ASSUME NEW p, ReadPlanned(p), p # <<>>
  PROVE  /\ ReadPlanned(Tail(p)) /\ Head(p) \in ReadStep /\ Head(p) = <<Head(p)[1], Head(p)[2]>>
         /\ Awaits(p, Head(p))
         /\ \A e : Awaits(p, e) <=> e = Head(p) \/ Awaits(Tail(p), e)
         /\ ~Early(Head(p)) => \A e : Awaits(p, e) => ~Early(e)
         /\ Head(p)[1] = "publish" => \A e : Awaits(p, e) => e = Head(p)
         /\ Head(p)[1] = "read" => Awaits(Tail(p), <<"same", Head(p)[2]>>)
<1> DEFINE h == Head(p)
           q == Tail(p)
           n == Len(p)
<1>1. /\ p \in Seq(ReadStep) /\ h = p[1] /\ h \in ReadStep /\ Awaits(p, h) /\ n \in Nat \ {0}
      /\ q \in Seq(ReadStep) /\ Len(q) = n - 1 /\ \A i \in 1 .. n - 1 : q[i] = p[i + 1]
      /\ \A e : Awaits(p, e) <=> e = h \/ Awaits(q, e)
  BY StepSequence DEF ReadPlanned
<1>2. DOMAIN p = 1 .. n /\ DOMAIN q = 1 .. n - 1 /\ Len(p) = n
  BY <1>1, LenProperties
<1> HIDE DEF h, q, n
<1>3. h = <<h[1], h[2]>>
  BY <1>1 DEF ReadStep
<1>4. ASSUME NEW i \in 1 .. n - 1 PROVE i + 1 \in 1 .. n /\ q[i] = p[i + 1]
  BY <1>1
<1>5. ASSUME NEW i \in 2 .. n PROVE i - 1 \in 1 .. n - 1 /\ q[i - 1] = p[i]
  <2>1. i - 1 \in 1 .. n - 1 /\ (i - 1) + 1 = i
    BY <1>1
  <2> QED  BY <1>1, <2>1
<1>6. EarlyFirst(q)
  <2> SUFFICES ASSUME NEW i \in 1 .. n - 1, NEW j \in 1 .. n - 1, i < j, Early(q[j]) PROVE Early(q[i])
    BY <1>2 DEF EarlyFirst
  <2>1. i + 1 \in DOMAIN p /\ j + 1 \in DOMAIN p /\ i + 1 < j + 1 /\ q[i] = p[i + 1] /\ q[j] = p[j + 1]
    BY <1>2, <1>4
  <2> QED  BY <2>1 DEF ReadPlanned, EarlyFirst
<1>7. PublishLast(q)
  <2> SUFFICES ASSUME NEW i \in 1 .. n - 1, q[i][1] = "publish" PROVE i = n - 1
    BY <1>1, <1>2 DEF PublishLast
  <2>1. i + 1 \in DOMAIN p /\ p[i + 1][1] = "publish"
    BY <1>2, <1>4
  <2>2. i + 1 = n
    BY <1>2, <2>1 DEF ReadPlanned, PublishLast
  <2> QED  BY <1>1, <2>2
<1>8. ASSUME NEW i \in 1 .. n, p[i][1] = "read"
      PROVE  \E j \in 2 .. n : i < j /\ p[j] = <<"same", p[i][2]>>
  <2>1. PICK j \in 1 .. n : i < j /\ p[j] = <<"same", p[i][2]>>
    BY <1>2, <1>8 DEF ReadPlanned, Answered
  <2> QED  BY <1>1, <2>1
<1>9. Answered(q, {})
  <2> SUFFICES ASSUME NEW i \in 1 .. n - 1, q[i][1] = "read"
               PROVE  \E j \in 1 .. n - 1 : i < j /\ q[j] = <<"same", q[i][2]>>
    BY <1>2 DEF Answered
  <2>1. i + 1 \in 1 .. n /\ q[i] = p[i + 1]
    BY <1>4
  <2>2. PICK j \in 2 .. n : i + 1 < j /\ p[j] = <<"same", q[i][2]>>
    BY <1>8, <2>1
  <2>3. j - 1 \in 1 .. n - 1 /\ q[j - 1] = p[j]
    BY <1>5
  <2>4. i < j - 1
    BY <2>2
  <2> QED  BY <2>2, <2>3, <2>4
<1>10. ASSUME ~Early(h), NEW e, Awaits(p, e) PROVE ~Early(e)
  <2>1. PICK i \in 1 .. n : p[i] = e
    BY <1>2, <1>10 DEF Awaits
  <2>2. CASE i = 1
    BY <1>1, <1>10, <2>1, <2>2
  <2>3. CASE i # 1
    <3>1. 1 \in DOMAIN p /\ i \in DOMAIN p /\ 1 < i
      BY <1>1, <1>2, <2>3
    <3> QED  BY <1>1, <1>10, <2>1, <3>1 DEF ReadPlanned, EarlyFirst
  <2> QED  BY <2>2, <2>3
<1>11. ASSUME h[1] = "publish", NEW e, Awaits(p, e) PROVE e = h
  <2>1. 1 \in DOMAIN p
    BY <1>1, <1>2
  <2>2. n = 1
    BY <1>1, <1>2, <1>11, <2>1 DEF ReadPlanned, PublishLast
  <2> QED  BY <1>1, <1>2, <1>11, <2>2 DEF Awaits
<1>12. ASSUME h[1] = "read" PROVE Awaits(q, <<"same", h[2]>>)
  <2>1. 1 \in 1 .. n
    BY <1>1
  <2>2. PICK j \in 2 .. n : p[j] = <<"same", h[2]>>
    BY <1>1, <1>8, <1>12, <2>1
  <2> QED  BY <1>2, <1>5, <2>2 DEF Awaits
<1> QED  BY <1>1, <1>3, <1>6, <1>7, <1>9, <1>10, <1>11, <1>12 DEF ReadPlanned, h, q

LEMMA TaskOn ==
  ASSUME TaskShape(task), NEW v
  PROVE  /\ TaskShape(Onwards) /\ Onwards.does = task.does /\ Onwards.plan = Tail(task.plan)
         /\ Onwards.noted = task.noted /\ Onwards.saw = task.saw
         /\ TaskShape([Onwards EXCEPT !.noted = v]) /\ [Onwards EXCEPT !.noted = v].does = task.does
         /\ [Onwards EXCEPT !.noted = v].plan = Tail(task.plan)
         /\ [Onwards EXCEPT !.noted = v].noted = v /\ [Onwards EXCEPT !.noted = v].saw = task.saw
<1> DEFINE p == Tail(task.plan)
<1>1. Onwards = [task EXCEPT !.plan = p]
  BY DEF Onwards
<1> HIDE DEF p
<1>2. /\ TaskShape(Onwards) /\ Onwards.does = task.does /\ Onwards.plan = p
      /\ Onwards.noted = task.noted /\ Onwards.saw = task.saw
  BY <1>1 DEF TaskShape
<1>3. /\ TaskShape([Onwards EXCEPT !.noted = v]) /\ [Onwards EXCEPT !.noted = v].does = task.does
      /\ [Onwards EXCEPT !.noted = v].plan = p
      /\ [Onwards EXCEPT !.noted = v].noted = v /\ [Onwards EXCEPT !.noted = v].saw = task.saw
  BY <1>2 DEF TaskShape
<1> QED  BY <1>2, <1>3 DEF p

LEMMA SawOn ==
  ASSUME TaskShape(task), NEW t, t = [Onwards EXCEPT !.saw = [f \in DOMAIN @ \cup {File} |-> IF f = File THEN files[File] ELSE @[f]]]
  PROVE  /\ TaskShape(t) /\ t.does = task.does /\ t.plan = Tail(task.plan) /\ t.noted = task.noted
         /\ DOMAIN t.saw = DOMAIN task.saw \cup {File}
         /\ \A f \in DOMAIN t.saw : t.saw[f] = IF f = File THEN files[File] ELSE task.saw[f]
<1> DEFINE p == Tail(task.plan)
           s == [f \in DOMAIN task.saw \cup {File} |-> IF f = File THEN files[File] ELSE task.saw[f]]
<1>1. Onwards = [task EXCEPT !.plan = p]
  BY DEF Onwards
<1>2. /\ TaskShape(Onwards) /\ Onwards.does = task.does /\ Onwards.plan = p
      /\ Onwards.noted = task.noted /\ Onwards.saw = task.saw
  BY TaskOn
<1>3. t = [Onwards EXCEPT !.saw = s]
  BY <1>2
<1>4. DOMAIN s = DOMAIN task.saw \cup {File} /\ \A f \in DOMAIN s : s[f] = IF f = File THEN files[File] ELSE task.saw[f]
  OBVIOUS
<1> HIDE DEF p, s
<1>5. TaskShape(t) /\ t.does = task.does /\ t.plan = p /\ t.noted = task.noted /\ t.saw = s
  BY <1>2, <1>3 DEF TaskShape
<1> QED  BY <1>4, <1>5 DEF p

LEMMA PackAt ==
  ASSUME NEW op, RunInv, Step(op), task.does = "archive"
  PROVE  /\ <<op, File>> \in PackStep /\ PackPlanned(Tail(task.plan))
         /\ Packing(files, task, archive, slipped) /\ Awaits(task.plan, <<op, File>>)
         /\ \A e : Awaits(Tail(task.plan), e) <=> Awaits(task.plan, e) /\ e # <<op, File>>
         /\ Awaits(task.plan, <<"install", "all">>) => Stage(op) <= 4
         /\ Awaits(task.plan, <<"sidecar", "all">>) => Stage(op) <= 6
         /\ ~Awaits(task.plan, <<"install", "all">>) => Stage(op) >= 4
         /\ ~Awaits(task.plan, <<"sidecar", "all">>) => Stage(op) >= 6
         /\ \A f \in RunMembers :
              /\ Awaits(task.plan, <<"copy", f>>) => Stage(op) <= 2
              /\ Awaits(task.plan, <<"compare", f>>) => Stage(op) <= 3
              /\ Awaits(task.plan, <<"digest", f>>) => Stage(op) <= 5
              /\ Awaits(task.plan, <<"recheck", f>>) => Stage(op) <= 7
              /\ ~Awaits(task.plan, <<"copy", f>>) => Stage(op) >= 2
              /\ ~Awaits(task.plan, <<"compare", f>>) => Stage(op) >= 3
              /\ ~Awaits(task.plan, <<"digest", f>>) => Stage(op) >= 5
              /\ Awaits(task.plan, <<"remove", f>>) /\ Stage(op) < 7 => Awaits(task.plan, <<"recheck", f>>)
<1> DEFINE p == task.plan
<1>1. Packing(files, task, archive, slipped) /\ PackPlanned(p) /\ p # <<>> /\ Head(p)[1] = op /\ Head(p)[2] = File
  BY DEF RunInv, Packing, Step, Op, File
<1> HIDE DEF p
<1>2. /\ PackPlanned(Tail(p)) /\ Head(p) \in PackStep /\ Head(p) = <<op, File>>
      /\ Awaits(p, Head(p))
      /\ \A e : Awaits(Tail(p), e) <=> Awaits(p, e) /\ e # Head(p)
      /\ \A e \in PackStep : Stage(e[1]) < Stage(op) => ~Awaits(p, e)
      /\ \A e \in Mandatory : Stage(e[1]) > Stage(op) => Awaits(p, e)
      /\ \A f \in RunMembers : Awaits(p, <<"remove", f>>) /\ Stage(op) < 7 => Awaits(p, <<"recheck", f>>)
  BY <1>1, PackOn
<1>3. Stage(op) \in 1 .. 9
  BY <1>1, <1>2, StageIs
<1>4. /\ Stage("copy") = 2 /\ Stage("compare") = 3 /\ Stage("install") = 4 /\ Stage("digest") = 5
      /\ Stage("sidecar") = 6 /\ Stage("recheck") = 7
  BY DEF Stage
<1>5. ASSUME NEW o \in {"copy", "compare", "digest", "recheck"}, NEW f \in RunMembers
      PROVE  /\ Awaits(p, <<o, f>>) => Stage(op) <= Stage(o)
             /\ o # "recheck" /\ ~Awaits(p, <<o, f>>) => Stage(op) >= Stage(o)
  <2> DEFINE e == <<o, f>>
  <2>1. e[1] = o /\ e \in PackStep /\ (o # "recheck" => e \in Mandatory)
    BY DEF PackStep, Mandatory
  <2>2. Stage(o) \in 1 .. 9
    BY <1>4
  <2> HIDE DEF e
  <2>3. (Awaits(p, e) => Stage(op) <= Stage(o)) /\ (o # "recheck" /\ ~Awaits(p, e) => Stage(op) >= Stage(o))
    BY <1>2, <1>3, <2>1, <2>2
  <2> QED  BY <2>3 DEF e
<1>6. ASSUME NEW o \in {"install", "sidecar"}
      PROVE  /\ Awaits(p, <<o, "all">>) => Stage(op) <= Stage(o)
             /\ ~Awaits(p, <<o, "all">>) => Stage(op) >= Stage(o)
  <2> DEFINE e == <<o, "all">>
  <2>1. e[1] = o /\ e \in PackStep /\ e \in Mandatory
    BY DEF PackStep, Mandatory
  <2>2. Stage(o) \in 1 .. 9
    BY <1>4
  <2> HIDE DEF e
  <2>3. (Awaits(p, e) => Stage(op) <= Stage(o)) /\ (~Awaits(p, e) => Stage(op) >= Stage(o))
    BY <1>2, <1>3, <2>1, <2>2
  <2> QED  BY <2>3 DEF e
<1>7. /\ Awaits(p, <<"install", "all">>) => Stage(op) <= 4
      /\ Awaits(p, <<"sidecar", "all">>) => Stage(op) <= 6
      /\ ~Awaits(p, <<"install", "all">>) => Stage(op) >= 4
      /\ ~Awaits(p, <<"sidecar", "all">>) => Stage(op) >= 6
  BY <1>4, <1>6
<1>8. ASSUME NEW f \in RunMembers
      PROVE  /\ Awaits(p, <<"copy", f>>) => Stage(op) <= 2
             /\ Awaits(p, <<"compare", f>>) => Stage(op) <= 3
             /\ Awaits(p, <<"digest", f>>) => Stage(op) <= 5
             /\ Awaits(p, <<"recheck", f>>) => Stage(op) <= 7
             /\ ~Awaits(p, <<"copy", f>>) => Stage(op) >= 2
             /\ ~Awaits(p, <<"compare", f>>) => Stage(op) >= 3
             /\ ~Awaits(p, <<"digest", f>>) => Stage(op) >= 5
             /\ Awaits(p, <<"remove", f>>) /\ Stage(op) < 7 => Awaits(p, <<"recheck", f>>)
  BY <1>2, <1>4, <1>5
<1>9. <<op, File>> \in PackStep /\ Awaits(p, <<op, File>>)
  BY <1>2
<1>10. \A e : Awaits(Tail(p), e) <=> Awaits(p, e) /\ e # <<op, File>>
  BY <1>2
<1> QED  BY <1>1, <1>2, <1>7, <1>8, <1>9, <1>10 DEF p

\* What is awaited at each stage.
LEMMA PackStage ==
  ASSUME NEW op, RunInv, Step(op), task.does = "archive", NEW n \in 1 .. 9, Stage(op) = n
  PROVE  /\ IF n <= 4 THEN n < 4 => Awaits(task.plan, <<"install", "all">>)
                       ELSE ~Awaits(task.plan, <<"install", "all">>)
         /\ IF n <= 6 THEN n < 6 => Awaits(task.plan, <<"sidecar", "all">>)
                       ELSE ~Awaits(task.plan, <<"sidecar", "all">>)
         /\ \A f \in RunMembers :
              /\ n > 2 => ~Awaits(task.plan, <<"copy", f>>)
              /\ n < 3 => Awaits(task.plan, <<"compare", f>>)
              /\ n > 3 => ~Awaits(task.plan, <<"compare", f>>)
              /\ n < 5 => Awaits(task.plan, <<"digest", f>>)
              /\ n > 5 => ~Awaits(task.plan, <<"digest", f>>)
              /\ n < 7 /\ Awaits(task.plan, <<"remove", f>>) => Awaits(task.plan, <<"recheck", f>>)
<1>1. /\ Awaits(task.plan, <<"install", "all">>) => Stage(op) <= 4
      /\ ~Awaits(task.plan, <<"install", "all">>) => Stage(op) >= 4
  BY PackAt
<1>2. /\ Awaits(task.plan, <<"sidecar", "all">>) => Stage(op) <= 6
      /\ ~Awaits(task.plan, <<"sidecar", "all">>) => Stage(op) >= 6
  BY PackAt
<1>3. \A f \in RunMembers :
         /\ Awaits(task.plan, <<"copy", f>>) => Stage(op) <= 2
         /\ Awaits(task.plan, <<"compare", f>>) => Stage(op) <= 3
         /\ Awaits(task.plan, <<"digest", f>>) => Stage(op) <= 5
         /\ ~Awaits(task.plan, <<"compare", f>>) => Stage(op) >= 3
         /\ ~Awaits(task.plan, <<"digest", f>>) => Stage(op) >= 5
         /\ Awaits(task.plan, <<"remove", f>>) /\ Stage(op) < 7 => Awaits(task.plan, <<"recheck", f>>)
  BY PackAt
<1>4. Stage(op) = n
  OBVIOUS
<1>5. /\ IF n <= 4 THEN n < 4 => Awaits(task.plan, <<"install", "all">>)
                    ELSE ~Awaits(task.plan, <<"install", "all">>)
      /\ IF n <= 6 THEN n < 6 => Awaits(task.plan, <<"sidecar", "all">>)
                    ELSE ~Awaits(task.plan, <<"sidecar", "all">>)
  BY ONLY <1>1, <1>2, <1>4, n \in 1 .. 9
<1>6. ASSUME NEW f \in RunMembers
      PROVE  /\ n > 2 => ~Awaits(task.plan, <<"copy", f>>)
             /\ n < 3 => Awaits(task.plan, <<"compare", f>>)
             /\ n > 3 => ~Awaits(task.plan, <<"compare", f>>)
             /\ n < 5 => Awaits(task.plan, <<"digest", f>>)
             /\ n > 5 => ~Awaits(task.plan, <<"digest", f>>)
             /\ n < 7 /\ Awaits(task.plan, <<"remove", f>>) => Awaits(task.plan, <<"recheck", f>>)
  BY ONLY <1>3, <1>4, n \in 1 .. 9, f \in RunMembers
<1> QED  BY <1>5, <1>6

LEMMA Copied ==
  ASSUME NEW op, RunInv, Step(op), task.does = "archive", ~(Stage(op) <= 2)
  PROVE  \A f \in RunMembers : ~Awaits(task.plan, <<"copy", f>>)
<1>1. \A f \in RunMembers : Awaits(task.plan, <<"copy", f>>) => Stage(op) <= 2
  BY PackAt
<1> QED  BY <1>1

LEMMA ComparedBy ==
  ASSUME NEW op, RunInv, Step(op), task.does = "archive", ~(Stage(op) <= 3)
  PROVE  \A f \in RunMembers : ~Awaits(task.plan, <<"compare", f>>)
<1>1. \A f \in RunMembers : Awaits(task.plan, <<"compare", f>>) => Stage(op) <= 3
  BY PackAt
<1> QED  BY <1>1

LEMMA DigestedBy ==
  ASSUME NEW op, RunInv, Step(op), task.does = "archive", ~(Stage(op) <= 5)
  PROVE  \A f \in RunMembers : ~Awaits(task.plan, <<"digest", f>>)
<1>1. \A f \in RunMembers : Awaits(task.plan, <<"digest", f>>) => Stage(op) <= 5
  BY PackAt
<1> QED  BY <1>1

LEMMA RecheckedBy ==
  ASSUME NEW op, RunInv, Step(op), task.does = "archive", ~(Stage(op) <= 7)
  PROVE  \A f \in RunMembers : ~Awaits(task.plan, <<"recheck", f>>)
<1>1. \A f \in RunMembers : Awaits(task.plan, <<"recheck", f>>) => Stage(op) <= 7
  BY PackAt
<1> QED  BY <1>1

LEMMA ReadAt ==
  ASSUME NEW op, RunInv, Step(op), task.does = "reconstruct"
  PROVE  /\ <<op, File>> \in ReadStep /\ ReadPlanned(Tail(task.plan)) /\ Rebuilding(files, task)
         /\ \A e : Awaits(task.plan, e) <=> Awaits(Tail(task.plan), e) \/ e = <<op, File>>
         /\ op \notin {"load", "print"} =>
              /\ \A f : ~Awaits(task.plan, <<"print", f>>)
              /\ ~Awaits(task.plan, <<"load", "journal">>)
         /\ op = "publish" => \A e : Awaits(task.plan, e) => e = <<op, File>>
         /\ op = "read" => Awaits(Tail(task.plan), <<"same", File>>)
<1> DEFINE p == task.plan
<1>1. Rebuilding(files, task) /\ ReadPlanned(p) /\ p # <<>> /\ Head(p)[1] = op /\ Head(p)[2] = File
  BY DEF RunInv, Rebuilding, Step, Op, File
<1> HIDE DEF p
<1>2. /\ ReadPlanned(Tail(p)) /\ Head(p) \in ReadStep /\ Head(p) = <<op, File>>
      /\ \A e : Awaits(p, e) <=> e = Head(p) \/ Awaits(Tail(p), e)
      /\ ~Early(Head(p)) => \A e : Awaits(p, e) => ~Early(e)
      /\ op = "publish" => \A e : Awaits(p, e) => e = Head(p)
      /\ op = "read" => Awaits(Tail(p), <<"same", File>>)
  BY <1>1, ReadOn
<1>3. ASSUME op \notin {"load", "print"}
      PROVE  (\A f : ~Awaits(p, <<"print", f>>)) /\ ~Awaits(p, <<"load", "journal">>)
  <2>1. ~Early(Head(p))
    BY <1>1, <1>3 DEF Early
  <2>2. (\A f : Early(<<"print", f>>)) /\ Early(<<"load", "journal">>)
    BY DEF Early
  <2> QED  BY <1>2, <2>1, <2>2
<1> QED  BY <1>1, <1>2, <1>3 DEF p

\* A plan says what its command is.
LEMMA WhoSteps ==
  ASSUME NEW op, RunInv, Step(op)
  PROVE  /\ task.does \in {"reconstruct", "archive"} /\ task # NoTask
         /\ op \in {"load", "keep", "read", "same", "publish"} => task.does = "reconstruct"
         /\ op \in {"copy", "compare", "install", "digest", "sidecar", "recheck", "remove", "deleted"} =>
              task.does = "archive"
         /\ op \in {"load", "keep"} => File \in RunPapers
         /\ op \in {"read", "same"} => File \in RunTables
         /\ op \in {"print", "copy", "compare", "digest", "recheck", "remove"} => File \in RunMembers
<1> DEFINE g == File
<1>1. task.does \in {"reconstruct", "archive"}
  BY DEF RunInv, TaskShape, Step
<1>2. task # NoTask
  BY DEF Step, NoTask
<1>3. task.does = "archive" => <<op, g>> \in PackStep
  BY PackAt
<1>4. task.does = "reconstruct" => <<op, g>> \in ReadStep
  BY ReadAt
<1> HIDE DEF g
<1>5. /\ task.does = "archive" => op \notin {"load", "keep", "read", "same", "publish"}
      /\ task.does = "archive" /\ op \in {"print", "copy", "compare", "digest", "recheck", "remove"} => g \in RunMembers
  BY <1>3 DEF PackStep
<1>6. /\ task.does = "reconstruct" =>
            op \notin {"copy", "compare", "install", "digest", "sidecar", "recheck", "remove", "deleted"}
      /\ task.does = "reconstruct" /\ op \in {"load", "keep"} => g \in RunPapers
      /\ task.does = "reconstruct" /\ op \in {"read", "same", "print"} => g \in RunTables
  BY <1>4 DEF ReadStep
<1> QED  BY <1>1, <1>2, <1>5, <1>6 DEF g, RunMembers

-----------------------------------------------------------------------------
(* Every step keeps the invariant. *)

LEMMA ReadersStart == ReaderInit => RunInv
<1> SUFFICES ASSUME ReaderInit PROVE RunInv
  OBVIOUS
<1>1. files = [f \in RunMembers |-> 0] /\ edits = 0 /\ MaxEdits \in Nat
  BY RunRanges, ReaderBounds DEF ReaderInit
<1>2. RunIsTyped
  BY <1>1 DEF RunIsTyped
<1>3. TaskShape(task) /\ task.does = "none"
  BY DEF ReaderInit, NoTask, TaskShape
<1>4. \A f \in RunMembers : files[f] < Gone
  BY <1>1 DEF Gone
<1>5. ArchiveIsWhole(files, archive, slipped)
  <2>1. ArchiveShape(archive) /\ archive.holds = <<>>
    BY DEF ReaderInit, NoArchive, ArchiveShape
  <2> QED  BY <1>1, <1>4, <2>1 DEF ArchiveIsWhole, Gone
<1>6. ProductIsCommitted(product)
  BY DEF ReaderInit, NoProduct, ProductIsCommitted
<1> QED  BY <1>2, <1>3, <1>5, <1>6 DEF RunInv

LEMMA StartOfReconstruction == RunInv /\ StartReconstruction => RunInv'
<1> SUFFICES ASSUME RunInv, StartReconstruction PROVE RunInv'
  OBVIOUS
<1>1. TaskShape(task') /\ task'.does = "reconstruct" /\ task'.plan = ReconstructPlan
  BY DEF StartReconstruction, NoTask, TaskShape
<1>2. DOMAIN task'.saw = {}
  BY DEF StartReconstruction, NoTask
<1>3. Rebuilding(files', task')
  BY <1>1, <1>2, ReadBlocks DEF Rebuilding, TableRead
<1> QED  BY <1>1, <1>3 DEF RunInv, StartReconstruction, RunIsTyped

LEMMA PaperLoads == RunInv /\ LoadPaper => RunInv'
<1> SUFFICES ASSUME RunInv, LoadPaper PROVE RunInv'
  OBVIOUS
<1>1. Step("load")
  BY DEF LoadPaper
<1>2. task.does = "reconstruct" /\ File \in RunPapers
  BY <1>1, WhoSteps
<1>3. /\ ReadPlanned(Tail(task.plan)) /\ Rebuilding(files, task)
      /\ \A e : Awaits(task.plan, e) <=> Awaits(Tail(task.plan), e) \/ e = <<"load", File>>
  BY <1>1, <1>2, ReadAt
<1>4. /\ TaskShape(task') /\ task'.does = "reconstruct" /\ task'.plan = Tail(task.plan)
      /\ task'.noted = Noted(files[File]) /\ task'.saw = task.saw
  BY <1>2, TaskOn DEF LoadPaper, RunInv
<1>5. /\ DOMAIN task'.noted = DOMAIN task.noted \cup {File} /\ task'.noted[File] = files[File]
      /\ \A f \in DOMAIN task.noted : f # File => task'.noted[f] = task.noted[f]
  BY <1>4 DEF Noted
<1>6. File = "journal" => files[File] = 0
  BY DEF LoadPaper
<1>7. ASSUME NEW f \in RunTables PROVE TableRead(files', task', f)
  <2>1. f # File /\ TableRead(files, task, f) /\ files' = files
    BY <1>2, <1>3 DEF Rebuilding, RunTables, RunPapers, LoadPaper
  <2> QED  BY <1>3, <1>4, <1>5, <2>1 DEF TableRead
<1>8. \/ Awaits(task'.plan, <<"load", "journal">>)
      \/ "journal" \in DOMAIN task'.noted /\ task'.noted["journal"] = 0
  BY <1>3, <1>4, <1>5, <1>6 DEF Rebuilding
<1>9. Rebuilding(files', task')
  BY <1>3, <1>4, <1>7, <1>8 DEF Rebuilding
<1> QED  BY <1>4, <1>9 DEF RunInv, LoadPaper, RunIsTyped

LEMMA FingerprintTaken == RunInv /\ Fingerprint => RunInv'
<1> SUFFICES ASSUME RunInv, Fingerprint PROVE RunInv'
  OBVIOUS
<1>1. Step("print") /\ Stage("print") = 1
  BY DEF Fingerprint, Stage
<1>2. task.does \in {"reconstruct", "archive"} /\ File \in RunMembers
  BY <1>1, WhoSteps
<1>3. /\ TaskShape(task') /\ task'.does = task.does /\ task'.plan = Tail(task.plan)
      /\ task'.noted = Noted(0) /\ task'.saw = task.saw
  BY TaskOn DEF Fingerprint, RunInv
<1>4. /\ DOMAIN task'.noted = DOMAIN task.noted \cup {File} /\ task'.noted[File] = 0
      /\ \A f \in DOMAIN task.noted : f # File => task'.noted[f] = task.noted[f]
  BY <1>3 DEF Noted
<1>5. CASE task.does = "reconstruct"
  <2>1. /\ ReadPlanned(Tail(task.plan)) /\ Rebuilding(files, task) /\ <<"print", File>> \in ReadStep
        /\ \A e : Awaits(task.plan, e) <=> Awaits(Tail(task.plan), e) \/ e = <<"print", File>>
    BY <1>1, <1>5, ReadAt
  <2>2. \A f \in RunTables : TableRead(files', task', f)
    BY <1>3, <1>4, <2>1 DEF TableRead, Rebuilding, Fingerprint
  <2>3. File # "journal"
    BY <2>1 DEF ReadStep, RunTables
  <2>4. \/ Awaits(task'.plan, <<"load", "journal">>)
        \/ "journal" \in DOMAIN task'.noted /\ task'.noted["journal"] = 0
    BY <1>3, <1>4, <2>1, <2>3 DEF Rebuilding
  <2>5. Rebuilding(files', task')
    BY <1>3, <2>1, <2>2, <2>4 DEF Rebuilding
  <2> QED  BY <1>3, <1>5, <2>5 DEF RunInv, Fingerprint, RunIsTyped
<1>6. CASE task.does = "archive"
  <2>1. /\ PackPlanned(Tail(task.plan)) /\ Packing(files, task, archive, slipped)
        /\ \A e : Awaits(Tail(task.plan), e) <=> Awaits(task.plan, e) /\ e # <<"print", File>>
        /\ Awaits(task.plan, <<"install", "all">>) /\ Awaits(task.plan, <<"sidecar", "all">>)
        /\ \A f \in RunMembers :
             /\ Awaits(task.plan, <<"copy", f>>) /\ Awaits(task.plan, <<"compare", f>>)
             /\ Awaits(task.plan, <<"digest", f>>)
             /\ Awaits(task.plan, <<"remove", f>>) => Awaits(task.plan, <<"recheck", f>>)
    <3>1. /\ PackPlanned(Tail(task.plan)) /\ Packing(files, task, archive, slipped)
          /\ \A e : Awaits(Tail(task.plan), e) <=> Awaits(task.plan, e) /\ e # <<"print", File>>
      BY <1>1, <1>6, PackAt
    <3>2. /\ ~Awaits(task.plan, <<"install", "all">>) => Stage("print") >= 4
          /\ ~Awaits(task.plan, <<"sidecar", "all">>) => Stage("print") >= 6
      BY <1>1, <1>6, PackAt
    <3>3. \A f \in RunMembers :
            /\ ~Awaits(task.plan, <<"copy", f>>) => Stage("print") >= 2
            /\ ~Awaits(task.plan, <<"compare", f>>) => Stage("print") >= 3
            /\ ~Awaits(task.plan, <<"digest", f>>) => Stage("print") >= 5
            /\ Awaits(task.plan, <<"remove", f>>) /\ Stage("print") < 7 => Awaits(task.plan, <<"recheck", f>>)
      BY <1>1, <1>6, PackAt
    <3> QED  BY ONLY <1>1, <3>1, <3>2, <3>3
  <2>2. ASSUME NEW f \in RunMembers PROVE MemberPacked(files, task', slipped, f)
    BY <1>3, <2>1 DEF MemberPacked, Packing
  <2>3. DOMAIN task'.noted \subseteq RunMembers
    BY <1>2, <1>4, <2>1 DEF Packing
  <2>4. Packing(files, task', archive, slipped)
    BY <1>3, <2>1, <2>2, <2>3 DEF Packing
  <2> QED  BY <1>3, <1>6, <2>4 DEF RunInv, Fingerprint, RunIsTyped
<1> QED  BY <1>2, <1>5, <1>6

LEMMA PaperKept == RunInv /\ KeepPaper => RunInv'
<1> SUFFICES ASSUME RunInv, KeepPaper PROVE RunInv'
  OBVIOUS
<1>1. Step("keep")
  BY DEF KeepPaper
<1>2. task.does = "reconstruct"
  BY <1>1, WhoSteps
<1>3. /\ ReadPlanned(Tail(task.plan)) /\ Rebuilding(files, task)
      /\ \A e : Awaits(task.plan, e) <=> Awaits(Tail(task.plan), e) \/ e = <<"keep", File>>
  BY <1>1, <1>2, ReadAt
<1>4. /\ TaskShape(task') /\ task'.does = "reconstruct" /\ task'.plan = Tail(task.plan)
      /\ task'.noted = task.noted /\ task'.saw = task.saw
  BY <1>2, TaskOn DEF KeepPaper, RunInv
<1>5. Rebuilding(files', task')
  BY <1>3, <1>4 DEF Rebuilding, TableRead, KeepPaper
<1> QED  BY <1>4, <1>5 DEF RunInv, KeepPaper, RunIsTyped

LEMMA RowsRead == RunInv /\ ReadRows => RunInv'
<1> SUFFICES ASSUME RunInv, ReadRows PROVE RunInv'
  OBVIOUS
<1>1. Step("read")
  BY DEF ReadRows
<1>2. task.does = "reconstruct"
  BY <1>1, WhoSteps
<1>3. /\ ReadPlanned(Tail(task.plan)) /\ Rebuilding(files, task) /\ Awaits(Tail(task.plan), <<"same", File>>)
      /\ \A e : Awaits(task.plan, e) <=> Awaits(Tail(task.plan), e) \/ e = <<"read", File>>
  BY <1>1, <1>2, ReadAt
<1>4. task' = [Onwards EXCEPT !.saw = [f \in DOMAIN @ \cup {File} |-> IF f = File THEN files[File] ELSE @[f]]]
  BY DEF ReadRows
<1>5. /\ TaskShape(task') /\ task'.does = task.does /\ task'.plan = Tail(task.plan) /\ task'.noted = task.noted
      /\ DOMAIN task'.saw = DOMAIN task.saw \cup {File}
      /\ \A f \in DOMAIN task'.saw : task'.saw[f] = IF f = File THEN files[File] ELSE task.saw[f]
  <2>1. TaskShape(task)
    BY DEF RunInv
  <2> QED  BY ONLY <1>4, <2>1, SawOn
<1>6. ASSUME NEW f \in RunTables PROVE TableRead(files', task', f)
  <2>1. TableRead(files, task, f)
    BY <1>3 DEF Rebuilding
  <2>2. files' = files /\ files[f] \in Nat
    BY DEF ReadRows, RunInv, RunIsTyped, RunMembers
  <2> QED  BY <1>3, <1>5, <2>1, <2>2 DEF TableRead
<1>7. Rebuilding(files', task')
  BY <1>3, <1>5, <1>6 DEF Rebuilding
<1> QED  BY <1>2, <1>5, <1>7 DEF RunInv, ReadRows, RunIsTyped

LEMMA LookedAgain == RunInv /\ Unchanged => RunInv'
<1> SUFFICES ASSUME RunInv, Unchanged PROVE RunInv'
  OBVIOUS
<1>1. Step("same") /\ files' = files /\ files[File] = task.noted[File]
  BY DEF Unchanged
<1>2. task.does = "reconstruct" /\ File \in RunTables
  BY <1>1, WhoSteps
<1>3. /\ ReadPlanned(Tail(task.plan)) /\ Rebuilding(files, task)
      /\ \A e : Awaits(task.plan, e) <=> Awaits(Tail(task.plan), e) \/ e = <<"same", File>>
      /\ \A f : ~Awaits(task.plan, <<"print", f>>)
  BY <1>1, <1>2, ReadAt
<1>4. /\ TaskShape(task') /\ task'.does = "reconstruct" /\ task'.plan = Tail(task.plan)
      /\ task'.noted = task.noted /\ task'.saw = task.saw
  BY <1>2, TaskOn DEF Unchanged, RunInv
<1>5. files[File] = 0
  BY <1>1, <1>2, <1>3 DEF Rebuilding, TableRead
<1>6. ASSUME NEW f \in RunTables PROVE TableRead(files', task', f)
  <2>1. TableRead(files, task, f)
    BY <1>3 DEF Rebuilding
  <2>2. f = File /\ f \in DOMAIN task.saw => task.saw[f] = 0
    BY <1>5, <2>1 DEF TableRead
  <2> QED  BY <1>1, <1>3, <1>4, <2>1, <2>2 DEF TableRead
<1>7. Rebuilding(files', task')
  BY <1>3, <1>4, <1>6 DEF Rebuilding
<1> QED  BY <1>4, <1>7 DEF RunInv, Unchanged, RunIsTyped

LEMMA RowsPublished == RunInv /\ PublishRows => RunInv'
<1> SUFFICES ASSUME RunInv, PublishRows PROVE RunInv'
  OBVIOUS
<1>1. Step("publish") /\ files' = files
  BY DEF PublishRows
<1>2. task.does = "reconstruct"
  BY <1>1, WhoSteps
<1>3. /\ Rebuilding(files, task) /\ \A e : Awaits(task.plan, e) => e = <<"publish", File>>
      /\ ~Awaits(task.plan, <<"load", "journal">>)
  <2>1. Rebuilding(files, task) /\ ~Awaits(task.plan, <<"load", "journal">>)
    <3>1. Rebuilding(files, task)
      BY <1>2 DEF RunInv
    <3>2. "publish" \notin {"load", "print"} => ~Awaits(task.plan, <<"load", "journal">>)
      BY <1>1, <1>2, ReadAt
    <3> QED  BY <3>1, <3>2
  <2>2. \A e : Awaits(task.plan, e) => e = <<"publish", File>>
    BY <1>1, <1>2, ReadAt
  <2> QED  BY <2>1, <2>2
<1>4. \A f \in RunTables : task.saw[f] = 0
  BY <1>3 DEF Rebuilding, TableRead
<1>5. task.noted["journal"] = 0
  BY <1>3 DEF Rebuilding
<1>6. TaskShape(task') /\ task'.does = "none"
  BY DEF PublishRows, NoTask, TaskShape
<1>7. ProductIsCommitted(product')
  <2>1. CASE product' = product
    BY <2>1 DEF RunInv
  <2>2. CASE product' = [made |-> TRUE, saw |-> task.saw, papers |-> [f \in Range(Papers) |-> task.noted[f]]]
    <3>1. "journal" \in Range(Papers)
      BY RunRanges DEF RunPapers
    <3>2. product'.saw = task.saw /\ product'.papers["journal"] = task.noted["journal"]
      BY <2>2, <3>1
    <3> QED  BY <1>4, <1>5, <3>2 DEF ProductIsCommitted
  <2> QED  BY <2>1, <2>2 DEF PublishRows
<1> QED  BY <1>6, <1>7 DEF RunInv, PublishRows, RunIsTyped

LEMMA StartOfArchive == ASSUME NEW delete \in BOOLEAN, RunInv, StartArchive(delete) PROVE RunInv'
<1> DEFINE p == PackPlan \o IF delete THEN DeletePlan ELSE <<>>
<1>1. PackPlanned(p) /\ \A e \in Mandatory : Awaits(p, e)
  BY PlansOfPacking
<1>2. archive = NoArchive /\ task' = [NoTask EXCEPT !.does = "archive", !.plan = p]
  BY DEF StartArchive
<1>3. UNCHANGED <<files, edits, product, mismatch, archive, slipped>>
  BY DEF StartArchive
<1> HIDE DEF p
<1>4. TaskShape(task') /\ task'.does = "archive" /\ task'.plan = p /\ DOMAIN task'.noted = {}
  <2>1. TaskShape(task') /\ task'.does = "archive" /\ task'.plan = p
    BY <1>2 DEF NoTask, TaskShape
  <2>2. DOMAIN task'.noted = {}
    BY <1>2 DEF NoTask
  <2> QED  BY <2>1, <2>2
<1>5. archive.sidecar = "none" /\ archive.holds = <<>>
  BY <1>2 DEF NoArchive
<1>6. \A f \in RunMembers : files[f] < Gone
  BY <1>5 DEF RunInv, ArchiveIsWhole, RunIsTyped, Gone
<1>7. /\ Awaits(p, <<"install", "all">>) /\ Awaits(p, <<"sidecar", "all">>)
      /\ \A f \in RunMembers :
           Awaits(p, <<"copy", f>>) /\ Awaits(p, <<"compare", f>>) /\ Awaits(p, <<"digest", f>>)
  BY <1>1 DEF Mandatory
<1>8. ASSUME NEW f \in RunMembers PROVE Awaits(p, <<"recheck", f>>) \/ ~Awaits(p, <<"remove", f>>)
  <2> SUFFICES ASSUME Awaits(p, <<"remove", f>>), ~Awaits(p, <<"recheck", f>>) PROVE FALSE
    OBVIOUS
  <2>1. \A i \in DOMAIN p : Stage(p[i][1]) >= 7
    BY <1>1 DEF PackPlanned, StagesAreThere
  <2>2. PICK i \in DOMAIN p : p[i] = <<"copy", f>>
    BY <1>7 DEF Awaits
  <2>3. Stage("copy") = 2
    BY DEF Stage
  <2> QED  BY <2>1, <2>2, <2>3
<1>9. \A f \in RunMembers : MemberPacked(files, task', slipped, f)
  BY <1>4, <1>6, <1>7, <1>8 DEF MemberPacked
<1>10. Packing(files, task', archive, slipped)
  BY <1>1, <1>4, <1>5, <1>7, <1>9 DEF Packing
<1> QED  BY <1>3, <1>4, <1>10 DEF RunInv, RunIsTyped

LEMMA MemberCopied == RunInv /\ CopyMember => RunInv'
<1> SUFFICES ASSUME RunInv, CopyMember PROVE RunInv'
  OBVIOUS
<1>1. Step("copy") /\ Stage("copy") = 2
  BY DEF CopyMember, Stage
<1>2. task.does = "archive" /\ File \in RunMembers
  BY <1>1, WhoSteps
<1>3. /\ TaskShape(task') /\ task'.does = "archive" /\ task'.plan = Tail(task.plan)
      /\ task'.noted = Noted(files[File]) /\ task'.saw = task.saw
  BY <1>2, TaskOn DEF CopyMember, RunInv
<1>4. DOMAIN task'.noted = DOMAIN task.noted \cup {File}
  BY <1>3 DEF Noted
<1>5. /\ PackPlanned(Tail(task.plan)) /\ Packing(files, task, archive, slipped)
      /\ \A e : Awaits(Tail(task.plan), e) <=> Awaits(task.plan, e) /\ e # <<"copy", File>>
  BY <1>1, <1>2, PackAt
<1>6. /\ Awaits(task.plan, <<"install", "all">>) /\ Awaits(task.plan, <<"sidecar", "all">>)
      /\ \A f \in RunMembers :
           /\ Awaits(task.plan, <<"compare", f>>) /\ Awaits(task.plan, <<"digest", f>>)
           /\ Awaits(task.plan, <<"remove", f>>) => Awaits(task.plan, <<"recheck", f>>)
  BY <1>1, <1>2, PackStage
<1>7. ASSUME NEW f \in RunMembers PROVE MemberPacked(files, task', slipped, f)
  BY <1>3, <1>4, <1>5, <1>6 DEF MemberPacked, Packing
<1>8. DOMAIN task'.noted \subseteq RunMembers
  BY <1>2, <1>4, <1>5 DEF Packing
<1>9. archive'.holds = archive.holds /\ archive'.sidecar = archive.sidecar /\ ArchiveShape(archive')
  BY DEF CopyMember, RunInv, ArchiveIsWhole, ArchiveShape
<1>10. Packing(files, task', archive', slipped)
  BY <1>3, <1>5, <1>6, <1>7, <1>8, <1>9 DEF Packing
<1>11. ArchiveIsWhole(files, archive', slipped)
  BY <1>9 DEF RunInv, ArchiveIsWhole
<1> QED  BY <1>3, <1>10, <1>11 DEF RunInv, CopyMember, RunIsTyped

LEMMA MemberCompared == RunInv /\ CompareMember => RunInv'
<1> SUFFICES ASSUME RunInv, CompareMember PROVE RunInv'
  OBVIOUS
<1>1. Step("compare") /\ Stage("compare") = 3 /\ files[File] = task.noted[File]
  BY DEF CompareMember, Stage
<1>2. task.does = "archive" /\ File \in RunMembers
  BY <1>1, WhoSteps
<1>3. /\ TaskShape(task') /\ task'.does = "archive" /\ task'.plan = Tail(task.plan)
      /\ task'.noted = task.noted /\ task'.saw = task.saw
  BY <1>2, TaskOn DEF CompareMember, RunInv
<1>5. /\ PackPlanned(Tail(task.plan)) /\ Packing(files, task, archive, slipped)
      /\ \A e : Awaits(Tail(task.plan), e) <=> Awaits(task.plan, e) /\ e # <<"compare", File>>
  BY <1>1, <1>2, PackAt
<1>7. ASSUME NEW f \in RunMembers PROVE MemberPacked(files, task', slipped, f)
  BY <1>1, <1>3, <1>5 DEF MemberPacked, Packing
<1>10. Packing(files, task', archive, slipped)
  BY <1>3, <1>5, <1>7 DEF Packing
<1> QED  BY <1>3, <1>10 DEF RunInv, CompareMember, RunIsTyped

LEMMA ArchiveInstalled == RunInv /\ Install => RunInv'
<1> SUFFICES ASSUME RunInv, Install PROVE RunInv'
  OBVIOUS
<1>1. Step("install") /\ Stage("install") = 4
  BY DEF Install, Stage
<1>2. task.does = "archive"
  BY <1>1, WhoSteps
<1>3. /\ TaskShape(task') /\ task'.does = "archive" /\ task'.plan = Tail(task.plan)
      /\ task'.noted = task.noted /\ task'.saw = task.saw
  BY <1>2, TaskOn DEF Install, RunInv
<1>5. /\ PackPlanned(Tail(task.plan)) /\ Packing(files, task, archive, slipped)
      /\ \A e : Awaits(Tail(task.plan), e) <=> Awaits(task.plan, e) /\ e # <<"install", File>>
      /\ <<"install", File>> \in PackStep
  BY <1>1, <1>2, PackAt
<1>6. Awaits(task.plan, <<"sidecar", "all">>) /\ \A f \in RunMembers : ~Awaits(task.plan, <<"copy", f>>)
  <2>1. Awaits(task.plan, <<"sidecar", "all">>)
    BY <1>1, <1>2, PackStage
  <2>2. \A f \in RunMembers : ~Awaits(task.plan, <<"copy", f>>)
    <3>1. ~(Stage("install") <= 2)
      BY <1>1
    <3> QED  BY <1>1, <1>2, <3>1, Copied
  <2> QED  BY <2>1, <2>2
<1>7. \A f \in RunMembers : MemberPacked(files, task', slipped, f)
  BY <1>3, <1>5 DEF MemberPacked, Packing
<1>8. DOMAIN task.noted = RunMembers
  BY <1>5, <1>6 DEF Packing, MemberPacked
<1>9. archive'.holds = task.noted /\ archive'.sidecar = archive.sidecar /\ ArchiveShape(archive')
  BY DEF Install, RunInv, ArchiveIsWhole, ArchiveShape
<1>10. File = "all"
  BY <1>5 DEF PackStep
<1>11. archive.sidecar = "none"
  BY <1>5, <1>6 DEF Packing
<1>12. Packing(files, task', archive', slipped)
  BY <1>3, <1>5, <1>6, <1>7, <1>8, <1>9, <1>10, <1>11 DEF Packing
<1>13. ArchiveIsWhole(files, archive', slipped)
  BY <1>8, <1>9, <1>11 DEF RunInv, ArchiveIsWhole
<1> QED  BY <1>3, <1>12, <1>13 DEF RunInv, Install, RunIsTyped

LEMMA MemberDigested == RunInv /\ DigestMember => RunInv'
<1> SUFFICES ASSUME RunInv, DigestMember PROVE RunInv'
  OBVIOUS
<1>1. Step("digest") /\ Stage("digest") = 5
  BY DEF DigestMember, Stage
<1>2. task.does = "archive" /\ File \in RunMembers
  BY <1>1, WhoSteps
<1>3. task' = [Onwards EXCEPT !.saw = [f \in DOMAIN @ \cup {File} |-> IF f = File THEN files[File] ELSE @[f]]]
  BY DEF DigestMember
<1>4. /\ TaskShape(task') /\ task'.does = task.does /\ task'.plan = Tail(task.plan) /\ task'.noted = task.noted
      /\ DOMAIN task'.saw = DOMAIN task.saw \cup {File}
      /\ \A f \in DOMAIN task'.saw : task'.saw[f] = IF f = File THEN files[File] ELSE task.saw[f]
  <2>1. TaskShape(task)
    BY DEF RunInv
  <2> QED  BY ONLY <1>3, <2>1, SawOn
<1>5. /\ PackPlanned(Tail(task.plan)) /\ Packing(files, task, archive, slipped)
      /\ Awaits(task.plan, <<"digest", File>>)
      /\ \A e : Awaits(Tail(task.plan), e) <=> Awaits(task.plan, e) /\ e # <<"digest", File>>
  BY <1>1, <1>2, PackAt
<1>6. Awaits(task.plan, <<"sidecar", "all">>)
  BY <1>1, <1>2, PackStage
<1>7. \A f \in RunMembers : ~Awaits(task.plan, <<"compare", f>>)
  <2>1. ~(Stage("digest") <= 3)
    BY <1>1
  <2> QED  BY <1>1, <1>2, <2>1, ComparedBy
<1>8. ASSUME NEW f \in RunMembers PROVE MemberPacked(files, task', slipped, f)
  <2>1. MemberPacked(files, task, slipped, f)
    BY <1>5 DEF Packing
  <2>2. f = File => files[f] = task.noted[f] \/ f \in slipped
    BY <1>5, <1>7, <2>1 DEF MemberPacked
  <2> QED  BY <1>4, <1>5, <2>1, <2>2 DEF MemberPacked
<1>9. Packing(files, task', archive, slipped)
  BY <1>4, <1>5, <1>6, <1>8 DEF Packing
<1> QED  BY <1>2, <1>4, <1>9 DEF RunInv, DigestMember, RunIsTyped

LEMMA SidecarWritten == RunInv /\ WriteSidecar => RunInv'
<1> SUFFICES ASSUME RunInv, WriteSidecar PROVE RunInv'
  OBVIOUS
<1>1. Step("sidecar") /\ Stage("sidecar") = 6
  BY DEF WriteSidecar, Stage
<1>2. task.does = "archive"
  BY <1>1, WhoSteps
<1>3. /\ PackPlanned(Tail(task.plan)) /\ Packing(files, task, archive, slipped)
      /\ \A e : Awaits(Tail(task.plan), e) <=> Awaits(task.plan, e) /\ e # <<"sidecar", File>>
      /\ <<"sidecar", File>> \in PackStep
  BY <1>1, <1>2, PackAt
<1>4. ~Awaits(task.plan, <<"install", "all">>)
  BY <1>1, <1>2, PackStage
<1>5. archive'.holds = archive.holds /\ archive'.sidecar = "kept" /\ archive'.digest = task.saw /\ ArchiveShape(archive')
  <2> DEFINE d == task.saw
  <2>1. archive' = [archive EXCEPT !.sidecar = "kept", !.digest = d]
    BY DEF WriteSidecar
  <2> HIDE DEF d
  <2>2. archive'.holds = archive.holds /\ archive'.sidecar = "kept" /\ archive'.digest = d /\ ArchiveShape(archive')
    BY <2>1 DEF RunInv, ArchiveIsWhole, ArchiveShape
  <2> QED  BY <2>2 DEF d
<1>6. ArchiveIsWhole(files, archive', slipped)
  BY <1>5 DEF RunInv, ArchiveIsWhole
<1>7. CASE task' = NoTask
  <2>1. TaskShape(task') /\ task'.does = "none"
    BY <1>7 DEF NoTask, TaskShape
  <2> QED  BY <1>6, <2>1 DEF RunInv, WriteSidecar, RunIsTyped
<1>8. CASE task' = Onwards
  <2>1. /\ TaskShape(task') /\ task'.does = "archive" /\ task'.plan = Tail(task.plan)
        /\ task'.noted = task.noted /\ task'.saw = task.saw
    BY <1>2, <1>8, TaskOn DEF RunInv
  <2>2. \A f \in RunMembers : MemberPacked(files, task', slipped, f)
    BY <1>3, <2>1 DEF MemberPacked, Packing
  <2>3. File = "all"
    BY <1>3 DEF PackStep
  <2>4. Packing(files, task', archive', slipped)
    BY <1>3, <1>4, <1>5, <2>1, <2>2, <2>3 DEF Packing
  <2> QED  BY <1>6, <2>1, <2>4 DEF RunInv, WriteSidecar, RunIsTyped
<1> QED  BY <1>7, <1>8 DEF WriteSidecar

LEMMA MemberRechecked == RunInv /\ RecheckMember => RunInv'
<1> SUFFICES ASSUME RunInv, RecheckMember PROVE RunInv'
  OBVIOUS
<1>1. Step("recheck") /\ Stage("recheck") = 7 /\ files[File] = archive.digest[File]
  BY DEF RecheckMember, Stage
<1>2. task.does = "archive" /\ File \in RunMembers
  BY <1>1, WhoSteps
<1>3. /\ TaskShape(task') /\ task'.does = "archive" /\ task'.plan = Tail(task.plan)
      /\ task'.noted = task.noted /\ task'.saw = task.saw
  BY <1>2, TaskOn DEF RecheckMember, RunInv
<1>4. /\ PackPlanned(Tail(task.plan)) /\ Packing(files, task, archive, slipped)
      /\ \A e : Awaits(Tail(task.plan), e) <=> Awaits(task.plan, e) /\ e # <<"recheck", File>>
  BY <1>1, <1>2, PackAt
<1>5. ~Awaits(task.plan, <<"sidecar", "all">>)
  BY <1>1, <1>2, PackStage
<1>6. \A f \in RunMembers : ~Awaits(task.plan, <<"digest", f>>)
  <2>1. ~(Stage("recheck") <= 5)
    BY <1>1
  <2> QED  BY <1>1, <1>2, <2>1, DigestedBy
<1>7. ASSUME NEW f \in RunMembers PROVE MemberPacked(files, task', slipped, f)
  <2>1. MemberPacked(files, task, slipped, f)
    BY <1>4 DEF Packing
  <2>2. archive.digest = task.saw
    BY <1>4, <1>5 DEF Packing
  <2>3. f = File => files[f] = task.noted[f] \/ f \in slipped
    BY <1>1, <1>6, <2>1, <2>2 DEF MemberPacked
  <2> QED  BY <1>3, <1>4, <2>1, <2>3 DEF MemberPacked
<1>8. Packing(files, task', archive, slipped)
  BY <1>3, <1>4, <1>7 DEF Packing
<1> QED  BY <1>3, <1>8 DEF RunInv, RecheckMember, RunIsTyped

LEMMA MemberRemoved == RunInv /\ RemoveMember => RunInv'
<1> SUFFICES ASSUME RunInv, RemoveMember PROVE RunInv'
  OBVIOUS
<1>1. Step("remove") /\ Stage("remove") = 8
  BY DEF RemoveMember, Stage
<1>2. task.does = "archive" /\ File \in RunMembers
  BY <1>1, WhoSteps
<1>3. /\ TaskShape(task') /\ task'.does = "archive" /\ task'.plan = Tail(task.plan)
      /\ task'.noted = task.noted /\ task'.saw = task.saw
  BY <1>2, TaskOn DEF RemoveMember, RunInv
<1>4. /\ PackPlanned(Tail(task.plan)) /\ Packing(files, task, archive, slipped)
      /\ Awaits(task.plan, <<"remove", File>>)
      /\ \A e : Awaits(Tail(task.plan), e) <=> Awaits(task.plan, e) /\ e # <<"remove", File>>
  BY <1>1, <1>2, PackAt
<1>5. ~Awaits(task.plan, <<"sidecar", "all">>) /\ ~Awaits(task.plan, <<"install", "all">>)
  <2>1. ~Awaits(task.plan, <<"sidecar", "all">>)
    BY <1>1, <1>2, PackStage
  <2>2. ~Awaits(task.plan, <<"install", "all">>)
    BY <1>1, <1>2, PackStage
  <2> QED  BY <2>1, <2>2
<1>6. \A f \in RunMembers : ~Awaits(task.plan, <<"digest", f>>)
  <2>1. ~(Stage("remove") <= 5)
    BY <1>1
  <2> QED  BY <1>1, <1>2, <2>1, DigestedBy
<1>7. \A f \in RunMembers : ~Awaits(task.plan, <<"recheck", f>>)
  <2>1. ~(Stage("remove") <= 7)
    BY <1>1
  <2> QED  BY <1>1, <1>2, <2>1, RecheckedBy
<1>8. /\ files \in [RunMembers -> Nat] /\ Gone \in Nat
      /\ files' = [files EXCEPT ![File] = @ + Gone] /\ files' \in [RunMembers -> Nat]
      /\ files'[File] = Gone + files[File] /\ \A f \in RunMembers : f # File => files'[f] = files[f]
  BY <1>2 DEF RunInv, RunIsTyped, RemoveMember, Gone
<1>9. MemberPacked(files, task, slipped, File)
  BY <1>2, <1>4 DEF Packing
<1>10. files[File] = task.noted[File] \/ File \in slipped
  BY <1>2, <1>4, <1>7, <1>9 DEF MemberPacked
<1>11. ASSUME NEW f \in RunMembers PROVE MemberPacked(files', task', slipped, f)
  <2>1. MemberPacked(files, task, slipped, f)
    BY <1>4 DEF Packing
  <2>2. ~Awaits(task'.plan, <<"digest", f>>)
    BY <1>3, <1>4, <1>6
  <2>3. CASE f = File
    <3>1. ~Awaits(task'.plan, <<"remove", f>>)
      BY <1>3, <1>4, <2>3
    <3> QED  BY <1>3, <1>4, <2>1, <2>2, <3>1 DEF MemberPacked
  <2>4. CASE f # File
    <3>1. files'[f] = files[f]
      BY <1>8, <2>4
    <3> QED  BY <1>3, <1>4, <2>1, <2>2, <3>1 DEF MemberPacked
  <2> QED  BY <2>3, <2>4
<1>12. Packing(files', task', archive, slipped)
  BY <1>3, <1>4, <1>5, <1>11 DEF Packing
<1>13. archive.sidecar # "none" /\ archive.holds = task.noted /\ DOMAIN task.noted = RunMembers
  BY <1>4, <1>5 DEF Packing
<1>14. ASSUME NEW f \in RunMembers, files'[f] >= Gone
       PROVE  /\ archive.sidecar # "none" /\ f \in DOMAIN archive.holds
              /\ files'[f] = Gone + archive.holds[f] \/ f \in slipped
  <2>1. CASE f = File
    BY <1>8, <1>10, <1>13, <2>1
  <2>2. CASE f # File
    BY <1>8, <1>14, <2>2 DEF RunInv, ArchiveIsWhole
  <2> QED  BY <2>1, <2>2
<1>15. ArchiveIsWhole(files', archive, slipped)
  BY <1>14 DEF RunInv, ArchiveIsWhole
<1>16. RunIsTyped'
  <2>1. \A f \in RunMembers : files'[f] < Gone => files'[f] <= edits
    <3> SUFFICES ASSUME NEW f \in RunMembers, files'[f] < Gone PROVE files'[f] <= edits
      OBVIOUS
    <3>1. f # File
      <4>1. files[File] \in Nat
        BY <1>2, <1>8
      <4> QED  BY <1>8, <4>1
    <3> QED  BY <1>8, <3>1 DEF RunInv, RunIsTyped
  <2> QED  BY <1>8, <2>1 DEF RunInv, RunIsTyped, RemoveMember
<1> QED  BY <1>3, <1>12, <1>15, <1>16 DEF RunInv, RemoveMember

LEMMA DeletionMarked == RunInv /\ MarkDeleted => RunInv'
<1> SUFFICES ASSUME RunInv, MarkDeleted PROVE RunInv'
  OBVIOUS
<1>1. archive'.holds = archive.holds /\ archive'.sidecar = "deleted" /\ ArchiveShape(archive')
  BY DEF MarkDeleted, RunInv, ArchiveIsWhole, ArchiveShape
<1>2. TaskShape(task') /\ task'.does = "none"
  BY DEF MarkDeleted, NoTask, TaskShape
<1>3. ArchiveIsWhole(files, archive', slipped)
  BY <1>1 DEF RunInv, ArchiveIsWhole
<1> QED  BY <1>2, <1>3 DEF RunInv, MarkDeleted, RunIsTyped

LEMMA CommandEnds == RunInv /\ (GiveUp \/ ReaderDies) => RunInv'
<1> SUFFICES ASSUME RunInv, GiveUp \/ ReaderDies PROVE RunInv'
  OBVIOUS
<1>1. TaskShape(task') /\ task'.does = "none"
  BY DEF GiveUp, ReaderDies, NoTask, TaskShape
<1>2. archive'.holds = archive.holds /\ archive'.sidecar = archive.sidecar /\ ArchiveShape(archive')
  BY DEF GiveUp, ReaderDies, RunInv, ArchiveIsWhole, ArchiveShape
<1>3. files' = files /\ edits' = edits /\ slipped' = slipped /\ product' = product
  BY DEF GiveUp, ReaderDies
<1>4. ArchiveIsWhole(files, archive', slipped)
  BY <1>2 DEF RunInv, ArchiveIsWhole
<1> QED  BY <1>1, <1>3, <1>4 DEF RunInv, RunIsTyped

\* A change the archiver does not see is remembered.
LEMMA FileChanged == ASSUME NEW f \in RunMembers, RunInv, ChangeFile(f) PROVE RunInv'
<1>1. /\ files \in [RunMembers -> Nat] /\ edits \in 0 .. MaxEdits /\ MaxEdits \in Nat /\ Gone = MaxEdits + 1
      /\ edits < MaxEdits /\ files[f] < Gone /\ edits' = edits + 1 /\ files' = [files EXCEPT ![f] = @ + 1]
      /\ \A g \in RunMembers : files[g] < Gone => files[g] <= edits
  BY DEF RunInv, RunIsTyped, ChangeFile, Gone
<1>2. files' \in [RunMembers -> Nat] /\ files'[f] = files[f] + 1 /\ \A g \in RunMembers : g # f => files'[g] = files[g]
  BY <1>1
<1>3. files[f] <= edits /\ files'[f] <= edits' /\ files'[f] < Gone
  BY <1>1, <1>2
<1>4. RunIsTyped'
  <2>1. \A g \in RunMembers : files'[g] < Gone => files'[g] <= edits'
    BY <1>1, <1>2, <1>3
  <2> QED  BY <1>1, <1>2, <2>1 DEF RunIsTyped, Gone
<1>5. task' = task /\ archive' = archive /\ product' = product /\ slipped \subseteq slipped'
  BY DEF ChangeFile
<1>6. ASSUME NEW g \in RunMembers, files'[g] >= Gone
      PROVE  /\ archive.sidecar # "none" /\ g \in DOMAIN archive.holds
             /\ files'[g] = Gone + archive.holds[g] \/ g \in slipped'
  <2>1. g # f /\ files'[g] = files[g]
    BY <1>1, <1>2, <1>3, <1>6
  <2> QED  BY <1>5, <1>6, <2>1 DEF RunInv, ArchiveIsWhole
<1>7. ArchiveIsWhole(files', archive, slipped')
  BY <1>6 DEF RunInv, ArchiveIsWhole
<1>8. ASSUME task.does = "archive" PROVE Packing(files', task, archive, slipped')
  <2>1. Packing(files, task, archive, slipped)
    BY <1>8 DEF RunInv
  <2>2. /\ ~Awaits(task.plan, <<"compare", f>>) /\ Awaits(task.plan, <<"digest", f>>) => f \in slipped'
        /\ ~Awaits(task.plan, <<"recheck", f>>) /\ Awaits(task.plan, <<"remove", f>>) => f \in slipped'
    BY <1>8 DEF ChangeFile, Ahead, Awaits
  <2>3. ASSUME NEW g \in RunMembers PROVE MemberPacked(files', task, slipped', g)
    <3>1. MemberPacked(files, task, slipped, g)
      BY <2>1 DEF Packing
    <3>2. CASE g = f
      BY <1>3, <1>5, <2>2, <3>1, <3>2 DEF MemberPacked
    <3>3. CASE g # f
      <4>1. files'[g] = files[g]
        BY <1>2, <3>3
      <4> QED  BY <1>5, <3>1, <4>1 DEF MemberPacked
    <3> QED  BY <3>2, <3>3
  <2> QED  BY <2>1, <2>3 DEF Packing
<1>9. ASSUME task.does = "reconstruct" PROVE Rebuilding(files', task)
  <2>1. Rebuilding(files, task)
    BY <1>9 DEF RunInv
  <2>2. \A g \in RunMembers : files[g] \in Nat /\ files'[g] \in Nat /\ files[g] <= files'[g]
    BY <1>1, <1>2
  <2>3. ASSUME NEW g \in RunTables PROVE TableRead(files', task, g)
    <3>1. TableRead(files, task, g)
      BY <2>1 DEF Rebuilding
    <3>2. files[g] \in Nat /\ files'[g] \in Nat /\ files[g] <= files'[g]
      BY <2>2 DEF RunMembers
    <3>3. g \in DOMAIN task.saw => task.saw[g] \in 0 .. files'[g]
      <4>1. g \in DOMAIN task.saw => task.saw[g] \in 0 .. files[g]
        BY <3>1 DEF TableRead
      <4> QED  BY <3>2, <4>1
    <3> QED  BY <3>1, <3>3 DEF TableRead
  <2> QED  BY <2>1, <2>3 DEF Rebuilding
<1> QED  BY <1>4, <1>5, <1>7, <1>8, <1>9 DEF RunInv

LEMMA ReadersStep == RunInv /\ [ReaderNext]_readerVars => RunInv'
<1> SUFFICES ASSUME RunInv, [ReaderNext]_readerVars PROVE RunInv'
  OBVIOUS
<1>1. CASE UNCHANGED readerVars
  BY <1>1 DEF readerVars, RunInv, RunIsTyped
<1>2. ASSUME NEW f \in Range(Members), ChangeFile(f) PROVE RunInv'
  BY <1>2, FileChanged, RunRanges
<1> QED
  BY <1>1, <1>2, StartOfReconstruction, PaperLoads, FingerprintTaken, PaperKept, RowsRead, LookedAgain,
     RowsPublished, StartOfArchive, MemberCopied, MemberCompared, ArchiveInstalled, MemberDigested,
     SidecarWritten, MemberRechecked, MemberRemoved, DeletionMarked, CommandEnds
  DEF ReaderNext

LEMMA RunTold == RunInv => PublishedIsCommitted /\ SourceIsArchived
<1> SUFFICES ASSUME RunInv PROVE PublishedIsCommitted /\ SourceIsArchived
  OBVIOUS
<1>1. PublishedIsCommitted
  BY RunRanges DEF RunInv, ProductIsCommitted, PublishedIsCommitted
<1>2. SourceIsArchived
  BY RunRanges DEF RunInv, ArchiveIsWhole, SourceIsArchived
<1> QED  BY <1>1, <1>2

LEMMA RunFilesBegins == Init => ReaderInit
  BY DEF Init

LEMMA RunFilesGoes == [Next]_commandVars => [ReaderNext]_readerVars
  BY DEF commandVars, Next, Capture, RunJobs, ResolveMarkets, SuperviseShard,
    ReadVenue, ReplayTape, UseRun, IngestMarkets, PollVenue, OpenCatalog,
    ObserveShard, EmitQuotes, StreamDatasets, ResolveBatch, PlanFeed, ReadSocket,
    readerVars

(***************************************************************************)
(* A published reconstruction was made of what the run committed, and a    *)
(* file is missing from a run only when a complete archive with a sidecar  *)
(* has it, for any number of changes another program makes to the run      *)
(* meanwhile and wherever a command ends or dies                           *)
(* (book_reconstruction_streaming.py, capture_archive.py).                 *)
(***************************************************************************)
THEOREM RunFilesStayTrusted == Spec => []RunFilesAreTrusted
<1>1. Init => RunInv
  BY RunFilesBegins, ReadersStart
<1>2. RunInv /\ [Next]_commandVars => RunInv'
  BY RunFilesGoes, ReadersStep
<1>3. RunInv => RunFilesAreTrusted
  BY RunTold DEF RunFilesAreTrusted
<1> QED  BY <1>1, <1>2, <1>3, PTL DEF Spec

-----------------------------------------------------------------------------
(* What the pollers and walkers write.                                      *)

\* A row of a book, a row of a gap, a trade.
PolledCells == [run : Nat, cycle : Nat, leg : Range(Legs)]
PolledGaps ==
  [run : Nat, cycle : Nat, leg : Range(Legs), type : {"fetch_error", "missing_relation_book", "stale_book"}]
PolledBooks == [row : PolledCells, stale : BOOLEAN]
PolledRows == PolledCells \cup PolledGaps
PolledTrades == [leg : Range(Legs), page : Nat]
WalkedParts == [leg : Range(Legs), complete : BOOLEAN, pages : Nat]
CycleWrites == [set : Datasets, rows : SUBSET PolledRows]

PollKinds == {"any", "topbooks", "collector", "table", "backfill"}
PolledCycles == [run : Nat, cycle : Nat]
PolledSegments == [Datasets -> [files : Seq(SUBSET PolledRows), listed : SUBSET Nat]]
WalkedResults ==
  [run : [ResultFiles -> Nat], rows : SUBSET PolledTrades, gaps : SUBSET Range(Legs),
   partitions : SUBSET WalkedParts]
FileStates == {"absent", "broken", "whole"}
PolledTables == [run : Nat, state : FileStates, allow : BOOLEAN, legs : SUBSET Range(Legs)]
PollDisk ==
  [polls : Nat, kind : PollKinds, begun : Nat, cycles : SUBSET PolledCycles, datasets : PolledSegments,
   file : FileStates, rows : SUBSET Nat, kept : SUBSET Nat, result : WalkedResults,
   table : PolledTables, manifest : [run : Nat, legs : SUBSET Range(Legs)]]

TopbookRun ==
  [kind : {"topbooks"}, run : Nat, cycle : Nat, depth : BOOLEAN, asked : Nat,
   books : SUBSET PolledBooks, gaps : SUBSET PolledGaps,
   writes : Seq(CycleWrites), placed : Nat]
CollectorRun ==
  [kind : {"collector"}, buffer : SUBSET Nat, seen : Nat, writer : {"none", "direct", "temp"},
   written : SUBSET Nat, failed : BOOLEAN]
TableRun ==
  [kind : {"table", "kalshi_table"}, run : Nat, allow : BOOLEAN, manifest : BOOLEAN,
   seen : SUBSET Range(Legs), at : {"asking", "writing", "manifest"}]
BackfillRun ==
  [kind : {"backfill"}, run : Nat, cap : Nat, done : 0 .. Len(Legs), pages : Nat, rows : SUBSET PolledTrades,
   partitions : SUBSET WalkedParts, gaps : SUBSET Range(Legs), file : ResultFiles, open : BOOLEAN]

\* The manifest of a dataset lists files that are there, up to a last one.
SegmentsSound(s) ==
  /\ s.listed \subseteq 1 .. Len(s.files)
  /\ \E m \in s.listed \cup {0} : \A i \in s.listed : i <= m

\* The rows of a cycle that are still to be written, and what is said of a leg.
AwaitedRows(d) == UNION {w.rows : w \in {v \in Range(poll.writes) : v.set = d}}
Told(process, cycle, leg, answers, gaps) ==
  \/ [run |-> process, cycle |-> cycle, leg |-> leg] \in answers
  \/ \E gap \in gaps : gap.run = process /\ gap.cycle = cycle /\ gap.leg = leg

DatasetsInv ==
  /\ \A d \in Datasets : SegmentsSound(disk.datasets[d])
  /\ \A c \in disk.cycles : \A leg \in Range(Legs) :
       Told(c.run, c.cycle, leg, ListedRows("topbooks"), ListedRows("gaps"))
CycleUnderway ==
  /\ poll \in TopbookRun
  /\ poll.asked > Len(Legs) => \A leg \in Range(Legs) :
       Told(poll.run, poll.cycle, leg, ListedRows("topbooks") \cup AwaitedRows("topbooks"),
            ListedRows("gaps") \cup AwaitedRows("gaps"))
  /\ poll.asked <= Len(Legs) => poll.writes = <<>>
  /\ poll.placed # 0 =>
       /\ poll.writes # <<>>
       /\ poll.placed \in 1 .. Len(disk.datasets[Head(poll.writes).set].files)
       /\ disk.datasets[Head(poll.writes).set].files[poll.placed] = Head(poll.writes).rows
TopbooksInv == DatasetsInv /\ (poll.kind = "topbooks" => CycleUnderway)

CollectorInv ==
  /\ ClosedRowsStay
  /\ poll.kind = "collector" =>
       /\ poll \in CollectorRun
       /\ poll.writer = "direct" => disk.kept = {}
       /\ poll.writer = "temp" => disk.kept \subseteq poll.written

TablesInv ==
  /\ disk.manifest.run <= disk.polls
  /\ disk.table.state = "whole" => disk.table.allow \/ Range(Legs) \subseteq disk.table.legs
  /\ disk.manifest.run > 0 /\ disk.manifest.run = disk.table.run =>
       disk.table.state = "whole" /\ disk.manifest.legs = disk.table.legs
  /\ poll.kind \in {"table", "kalshi_table"} =>
       /\ poll \in TableRun /\ poll.run = disk.polls /\ disk.manifest.run < poll.run
       /\ poll.at \in {"writing", "manifest"} => poll.allow \/ poll.seen = Range(Legs)
       /\ poll.at = "manifest" => disk.table.state = "whole"

\* All trades of a leg are there, or a gap of it.
Walked(leg, rows, gaps) == TradesOf(leg, TradePages) \subseteq rows \/ leg \in gaps
\* Trades and gaps of one run account for every leg, and the summary is the last file of a run.
ResultHolds(result, last) ==
  /\ result.run["trades"] > 0 /\ result.run["trades"] = result.run["gaps"] =>
       \A leg \in Range(Legs) : Walked(leg, result.rows, result.gaps)
  /\ result.run["trades"] > 0 /\ result.run["trades"] = result.run["summary"] =>
       result.run["gaps"] = result.run["trades"]
  /\ \A f \in ResultFiles : result.run[f] <= last
\* What a run p has written of its result: the files before the one it is at.
WrittenOf(result, p) ==
  /\ p.file # "trades" => p.done = Len(Legs) /\ result.run["trades"] = p.run /\ result.rows = p.rows
  /\ p.file = "trades" => result.run["trades"] < p.run
  /\ IF p.file = "summary" THEN result.run["gaps"] = p.run /\ result.gaps = p.gaps
     ELSE result.run["gaps"] < p.run
  /\ result.run["summary"] < p.run
WalksInv ==
  /\ ResultHolds(disk.result, disk.polls)
  /\ poll.kind = "backfill" =>
       /\ poll \in BackfillRun /\ poll.run = disk.polls /\ WrittenOf(disk.result, poll)
       /\ \A n \in 1 .. poll.done : Walked(Legs[n], poll.rows, poll.gaps)
       /\ poll.done < Len(Legs) => TradesOf(Legs[poll.done + 1], poll.pages) \subseteq poll.rows

PollInv == disk \in PollDisk /\ TopbooksInv /\ CollectorInv /\ TablesInv /\ WalksInv

-----------------------------------------------------------------------------
(* What a step leaves alone. *)

LEMMA DatasetsStay ==
  ASSUME DatasetsInv, disk'.datasets = disk.datasets, disk'.cycles = disk.cycles
  PROVE  DatasetsInv'
<1>1. ListedRows("topbooks")' = ListedRows("topbooks") /\ ListedRows("gaps")' = ListedRows("gaps")
  BY DEF ListedRows
<1> QED  BY <1>1 DEF DatasetsInv, Told, SegmentsSound

LEMMA TopbooksStay ==
  ASSUME TopbooksInv, disk'.datasets = disk.datasets, disk'.cycles = disk.cycles, poll'.kind # "topbooks"
  PROVE  TopbooksInv'
  BY DatasetsStay DEF TopbooksInv

LEMMA CollectorStays ==
  ASSUME CollectorInv, poll'.kind # "collector",
         disk'.file = disk.file, disk'.rows = disk.rows, disk'.kept = disk.kept
  PROVE  CollectorInv'
  BY DEF CollectorInv, ClosedRowsStay

LEMMA TablesStay ==
  ASSUME TablesInv, disk \in PollDisk, disk'.polls \in {disk.polls, disk.polls + 1},
         disk'.table = disk.table, disk'.manifest = disk.manifest,
         poll'.kind \notin {"table", "kalshi_table"}
  PROVE  TablesInv'
  BY DEF TablesInv, PollDisk

LEMMA WalksStay ==
  ASSUME WalksInv, disk \in PollDisk, disk'.polls \in {disk.polls, disk.polls + 1},
         disk'.result = disk.result, poll'.kind # "backfill"
  PROVE  WalksInv'
<1>1. \A f \in ResultFiles : disk.result.run[f] \in Nat
  BY DEF PollDisk, WalkedResults
<1>2. ResultHolds(disk.result, disk.polls')
  <2>1. disk.polls \in Nat
    BY DEF PollDisk
  <2> QED  BY <1>1, <2>1 DEF WalksInv, ResultHolds
<1> QED  BY <1>2 DEF WalksInv

LEMMA DiskSteps ==
  ASSUME disk \in PollDisk
  PROVE  /\ \A k \in {"topbooks", "collector", "table", "backfill"} :
              /\ Started(k) \in PollDisk /\ Started(k).polls = disk.polls + 1
              /\ Started(k).begun = disk.begun /\ Started(k).cycles = disk.cycles
              /\ Started(k).datasets = disk.datasets /\ Started(k).file = disk.file
              /\ Started(k).rows = disk.rows /\ Started(k).kept = disk.kept
              /\ Started(k).result = disk.result /\ Started(k).table = disk.table
              /\ Started(k).manifest = disk.manifest
<1> SUFFICES ASSUME NEW k \in {"topbooks", "collector", "table", "backfill"}
             PROVE  /\ Started(k) \in PollDisk /\ Started(k).polls = disk.polls + 1
                    /\ Started(k).begun = disk.begun /\ Started(k).cycles = disk.cycles
                    /\ Started(k).datasets = disk.datasets /\ Started(k).file = disk.file
                    /\ Started(k).rows = disk.rows /\ Started(k).kept = disk.kept
                    /\ Started(k).result = disk.result /\ Started(k).table = disk.table
                    /\ Started(k).manifest = disk.manifest
  OBVIOUS
<1>1. k \in PollKinds /\ disk.polls + 1 \in Nat
  BY DEF PollDisk, PollKinds
<1>2. Started(k) \in PollDisk
  BY <1>1 DEF PollDisk, Started
<1> QED  BY <1>1, <1>2 DEF PollDisk, Started

LEMMA PollStarts == PollInit => PollInv
<1> SUFFICES ASSUME PollInit PROVE PollInv
  OBVIOUS
<1>1. disk \in PollDisk
  BY DEF PollInit, PollDisk, NoDataset, NoTable, NoResult, WalkedResults, PollKinds, PolledSegments, PolledTables, FileStates
<1>2. poll.kind = "none"
  BY DEF PollInit, NoPoll
<1>3. TopbooksInv
  BY <1>2 DEF PollInit, TopbooksInv, DatasetsInv, SegmentsSound, NoDataset
<1>4. CollectorInv /\ TablesInv /\ WalksInv
  <2>1. CollectorInv /\ TablesInv
    BY <1>2 DEF PollInit, CollectorInv, ClosedRowsStay, TablesInv, NoTable
  <2>2. disk.polls = 0 /\ \A f \in ResultFiles : disk.result.run[f] = 0
    BY DEF PollInit, NoResult
  <2>3. ResultHolds(disk.result, disk.polls)
    BY <2>2 DEF ResultHolds, ResultFiles
  <2> QED  BY <1>2, <2>1, <2>3 DEF WalksInv
<1> QED  BY <1>1, <1>3, <1>4 DEF PollInv

\* A command that ends, or dies, leaves what is on the disk.
LEMMA PollEnds == ASSUME PollInv, poll' = NoPoll, UNCHANGED disk PROVE PollInv'
<1>1. poll'.kind = "none"
  BY DEF NoPoll
<1> QED
  BY <1>1, TopbooksStay, CollectorStays, TablesStay, WalksStay DEF PollInv

-----------------------------------------------------------------------------
(* Tables. *)

LEMMA TableBegins == PollInv /\ (CollectTable \/ CollectKalshiTable) => PollInv'
<1> SUFFICES ASSUME PollInv, CollectTable \/ CollectKalshiTable PROVE PollInv'
  OBVIOUS
<1>1. /\ disk \in PollDisk /\ disk' = Started("table") /\ poll' \in TableRun
      /\ poll'.run = disk.polls + 1 /\ poll'.at = "asking"
  <2>1. disk \in PollDisk /\ disk.polls + 1 \in Nat
    BY DEF PollInv, PollDisk
  <2>2. CASE CollectTable
    BY <2>1, <2>2 DEF CollectTable, TableRun
  <2>3. CASE CollectKalshiTable
    BY <2>1, <2>3 DEF CollectKalshiTable, TableRun
  <2> QED  BY <2>2, <2>3
<1>2. poll'.kind \in {"table", "kalshi_table"}
  BY <1>1 DEF TableRun
<1>3. /\ disk' \in PollDisk /\ disk'.polls = disk.polls + 1 /\ disk'.cycles = disk.cycles
      /\ disk'.datasets = disk.datasets /\ disk'.file = disk.file
      /\ disk'.rows = disk.rows /\ disk'.kept = disk.kept
      /\ disk'.result = disk.result /\ disk'.table = disk.table /\ disk'.manifest = disk.manifest
  BY <1>1, DiskSteps
<1>4. TopbooksInv' /\ CollectorInv' /\ WalksInv'
  BY <1>2, <1>3, TopbooksStay, CollectorStays, WalksStay DEF PollInv
<1>5. disk.polls \in Nat /\ disk.manifest.run \in Nat /\ disk.manifest.run <= disk.polls
  BY <1>1 DEF PollDisk, PollInv, TablesInv
<1>6. TablesInv'
  BY <1>1, <1>2, <1>3, <1>5 DEF TablesInv, PollInv
<1> QED  BY <1>3, <1>4, <1>6 DEF PollInv

LEMMA TableSteps ==
  PollInv /\ (OpenTable \/ WriteTable \/ WriteTableManifest
              \/ \E leg \in Range(Legs) : TableRow(leg) \/ KalshiTableRow(leg)) => PollInv'
<1> SUFFICES ASSUME PollInv, OpenTable \/ WriteTable \/ WriteTableManifest
                       \/ \E leg \in Range(Legs) : TableRow(leg) \/ KalshiTableRow(leg)
             PROVE  PollInv'
  OBVIOUS
<1>1. /\ poll.kind \in {"table", "kalshi_table"} /\ poll \in TableRun
      /\ poll.run = disk.polls /\ disk.manifest.run < poll.run /\ disk \in PollDisk
  BY DEF PollInv, TablesInv, OpenTable, WriteTable, WriteTableManifest, TableRow, KalshiTableRow, OfTable
<1>2. /\ poll' \in {NoPoll} \cup TableRun /\ poll'.kind \in {"none", "table", "kalshi_table"}
      /\ poll' \in TableRun => poll'.run = poll.run
  BY <1>1 DEF TableRun, NoPoll, OpenTable, WriteTable, WriteTableManifest, TableRow, KalshiTableRow
<1>3. /\ disk' \in PollDisk /\ disk'.polls = disk.polls /\ disk'.cycles = disk.cycles
      /\ disk'.datasets = disk.datasets /\ disk'.file = disk.file
      /\ disk'.rows = disk.rows /\ disk'.kept = disk.kept /\ disk'.result = disk.result
  <2>1. CASE OpenTable
    <3>1. [NoTable EXCEPT !.run = poll.run, !.state = "broken"] \in PolledTables
      BY <1>1 DEF TableRun, NoTable, PolledTables, FileStates
    <3> QED  BY <1>1, <2>1, <3>1 DEF PollDisk, OpenTable
  <2>2. CASE WriteTable
    <3>1. [run |-> poll.run, state |-> "whole", allow |-> poll.allow, legs |-> poll.seen] \in PolledTables
      BY <1>1 DEF TableRun, PolledTables, FileStates
    <3> QED  BY <1>1, <2>2, <3>1 DEF PollDisk, WriteTable
  <2>3. CASE WriteTableManifest
    <3>1. [run |-> poll.run, legs |-> disk.table.legs] \in [run : Nat, legs : SUBSET Range(Legs)]
      BY <1>1 DEF TableRun, PollDisk, PolledTables
    <3> QED  BY <1>1, <2>3, <3>1 DEF PollDisk, WriteTableManifest
  <2>4. CASE disk' = disk
    BY <1>1, <2>4
  <2> QED  BY <2>1, <2>2, <2>3, <2>4 DEF TableRow, KalshiTableRow
<1>4. TopbooksInv' /\ CollectorInv' /\ WalksInv'
  BY <1>2, <1>3, TopbooksStay, CollectorStays, WalksStay DEF PollInv
<1>5. TablesInv'
  <2> USE DEF PollInv, TablesInv, TableRun, PollDisk, NoPoll
  <2>1. CASE OpenTable
    <3>1. /\ poll' = [poll EXCEPT !.at = "writing"] /\ disk'.manifest = disk.manifest
          /\ disk'.table.run = poll.run /\ disk'.table.state = "broken"
          /\ poll.allow \/ poll.seen = Range(Legs)
      BY <1>1, <2>1 DEF OpenTable, NoTable
    <3> QED  BY <1>1, <1>3, <3>1
  <2>2. CASE WriteTable
    <3>1. /\ poll.at = "writing" /\ disk'.manifest = disk.manifest
          /\ disk'.table = [run |-> poll.run, state |-> "whole", allow |-> poll.allow, legs |-> poll.seen]
          /\ poll' = NoPoll \/ poll' = [poll EXCEPT !.at = "manifest"]
      BY <1>1, <2>2 DEF WriteTable
    <3> QED  BY <1>1, <1>3, <3>1
  <2>3. CASE WriteTableManifest
    <3>1. /\ poll.at = "manifest" /\ disk'.table = disk.table /\ poll' = NoPoll
          /\ disk'.manifest = [run |-> poll.run, legs |-> disk.table.legs]
      BY <1>1, <2>3 DEF WriteTableManifest
    <3> QED  BY <1>1, <1>3, <3>1
  <2>4. ASSUME NEW leg \in Range(Legs), TableRow(leg) \/ KalshiTableRow(leg) PROVE TablesInv'
    <3>1. disk' = disk /\ poll.at = "asking" /\ poll' = [poll EXCEPT !.seen = @ \cup {leg}]
      BY <2>4 DEF TableRow, KalshiTableRow
    <3> QED  BY <1>1, <1>3, <3>1
  <2> QED  BY <2>1, <2>2, <2>3, <2>4
<1> QED  BY <1>3, <1>4, <1>5 DEF PollInv

-----------------------------------------------------------------------------
(* A collector. *)

LEMMA CollectorBegins == PollInv /\ CollectBooks => PollInv'
<1> SUFFICES ASSUME PollInv, CollectBooks PROVE PollInv'
  OBVIOUS
<1>1. /\ disk \in PollDisk /\ disk' = Started("collector")
      /\ poll' = [kind |-> "collector", buffer |-> {}, seen |-> 0, writer |-> "none", written |-> {},
                  failed |-> FALSE]
  BY DEF PollInv, CollectBooks
<1>2. /\ disk' \in PollDisk /\ disk'.polls = disk.polls + 1 /\ disk'.cycles = disk.cycles
      /\ disk'.datasets = disk.datasets /\ disk'.file = disk.file
      /\ disk'.rows = disk.rows /\ disk'.kept = disk.kept
      /\ disk'.result = disk.result /\ disk'.table = disk.table /\ disk'.manifest = disk.manifest
  BY <1>1, DiskSteps
<1>3. TopbooksInv' /\ TablesInv' /\ WalksInv'
  BY <1>1, <1>2, TopbooksStay, TablesStay, WalksStay DEF PollInv
<1>4. CollectorInv'
  BY <1>1, <1>2 DEF PollInv, CollectorInv, ClosedRowsStay, CollectorRun
<1> QED  BY <1>2, <1>3, <1>4 DEF PollInv

\* What a flush makes of a sink.
LEMMA FlushedIs ==
  ASSUME CollectorInv, disk \in PollDisk, poll.kind = "collector",
         poll.writer = "none" => disk.file # "broken"
  PROVE  /\ AfterFlush \in CollectorRun /\ AfterFlush.kind = "collector"
         /\ AfterFlush.writer # "none" /\ AfterFlush.written \subseteq Nat
         /\ AfterFlush.writer = "direct" => disk.kept = {}
         /\ AfterFlush.writer = "temp" => disk.kept \subseteq AfterFlush.written
<1> DEFINE w == IF poll.writer = "none" THEN OpenedAs(disk) ELSE poll.writer
           first == IF poll.writer = "none" /\ w = "temp" THEN disk.rows ELSE {}
<1>1. /\ poll \in CollectorRun /\ poll.writer \in {"none", "direct", "temp"}
      /\ poll.written \subseteq Nat /\ poll.buffer \subseteq Nat
      /\ disk.rows \subseteq Nat /\ disk.file \in FileStates
  BY DEF CollectorInv, CollectorRun, PollDisk
<1>2. w \in {"direct", "temp"} /\ first \subseteq Nat
  BY <1>1 DEF OpenedAs
<1>3. w = "direct" => disk.kept = {}
  BY <1>1 DEF OpenedAs, CollectorInv, ClosedRowsStay
<1>4. w = "temp" => disk.kept \subseteq poll.written \cup first \cup poll.buffer
  BY <1>1 DEF OpenedAs, CollectorInv, ClosedRowsStay
<1>5. AfterFlush = [poll EXCEPT !.writer = w, !.buffer = {}, !.written = @ \cup first \cup poll.buffer]
  BY DEF AfterFlush
<1> HIDE DEF w, first
<1> QED  BY <1>1, <1>2, <1>3, <1>4, <1>5 DEF CollectorRun

LEMMA CollectorSteps ==
  PollInv /\ (RowMissing \/ RowArrives \/ FlushFull \/ FlushFails \/ SinkCloses) => PollInv'
<1> SUFFICES ASSUME PollInv, RowMissing \/ RowArrives \/ FlushFull \/ FlushFails \/ SinkCloses
             PROVE  PollInv'
  OBVIOUS
<1>1. poll.kind = "collector" /\ poll \in CollectorRun /\ disk \in PollDisk /\ CollectorInv
  BY DEF PollInv, CollectorInv, RowMissing, RowArrives, Collecting, FlushFull, FlushFails, SinkCloses
<1> DEFINE Here == /\ disk' \in PollDisk /\ disk'.polls = disk.polls /\ disk'.cycles = disk.cycles
                   /\ disk'.datasets = disk.datasets /\ disk'.result = disk.result
                   /\ disk'.table = disk.table /\ disk'.manifest = disk.manifest
                   /\ poll'.kind \in {"none", "collector"}
                   /\ CollectorInv'
<1>2. ASSUME RowMissing PROVE Here
  <2>1. disk' = disk /\ poll' \in CollectorRun /\ poll' = [poll EXCEPT !.seen = @ + 1]
    BY <1>1, <1>2 DEF RowMissing, CollectorRun
  <2> QED  BY <1>1, <2>1 DEF CollectorInv, ClosedRowsStay, CollectorRun
<1>3. ASSUME RowArrives PROVE Here
  <2>1. BatchRow(poll.seen + 1) \in Nat
    BY <1>1 DEF BatchRow, PollDisk, CollectorRun
  <2>2. disk' = disk /\ poll' = [poll EXCEPT !.seen = @ + 1, !.buffer = @ \cup {BatchRow(poll.seen + 1)}]
    BY <1>3 DEF RowArrives
  <2> HIDE DEF BatchRow
  <2>3. poll.buffer \cup {BatchRow(poll.seen + 1)} \in SUBSET Nat /\ poll.seen + 1 \in Nat
    BY <1>1, <2>1 DEF CollectorRun
  <2>4. poll' \in CollectorRun
    BY <1>1, <2>2, <2>3 DEF CollectorRun
  <2> QED  BY <1>1, <2>2, <2>4 DEF CollectorInv, ClosedRowsStay, CollectorRun
<1>4. ASSUME FlushFull PROVE Here
  <2>1. poll' = AfterFlush /\ disk' = FileOf(poll') /\ (poll.writer = "none" => disk.file # "broken")
    BY <1>4 DEF FlushFull
  <2>2. /\ poll' \in CollectorRun /\ poll'.kind = "collector"
        /\ poll'.writer = "direct" => disk.kept = {}
        /\ poll'.writer = "temp" => disk.kept \subseteq poll'.written
    BY <1>1, <2>1, FlushedIs
  <2>3. CASE poll'.writer = "direct"
    <3>1. disk' = [disk EXCEPT !.file = "broken", !.rows = {}]
      BY <2>1, <2>3 DEF FileOf
    <3> QED  BY <1>1, <2>2, <2>3, <3>1 DEF CollectorInv, ClosedRowsStay, PollDisk, FileStates
  <2>4. CASE poll'.writer # "direct"
    <3>1. disk' = disk
      BY <2>1, <2>4 DEF FileOf
    <3> QED  BY <1>1, <2>2, <2>4, <3>1 DEF CollectorInv, ClosedRowsStay
  <2> QED  BY <2>3, <2>4
<1>5. ASSUME FlushFails PROVE Here
  <2>1. /\ poll' \in CollectorRun /\ poll' = [poll EXCEPT !.failed = TRUE]
        /\ disk' = IF poll.writer = "direct" THEN [disk EXCEPT !.file = "whole", !.rows = poll.written]
                   ELSE disk
    BY <1>1, <1>5 DEF FlushFails, CollectorRun
  <2>2. CASE poll.writer = "direct"
    <3>1. disk' = [disk EXCEPT !.file = "whole", !.rows = poll.written] /\ poll.written \subseteq Nat
      BY <1>1, <2>1, <2>2 DEF CollectorRun
    <3>2. disk' \in PollDisk
      BY <1>1, <3>1 DEF PollDisk, FileStates
    <3> QED  BY <1>1, <2>1, <2>2, <3>1, <3>2 DEF CollectorInv, ClosedRowsStay, PollDisk, CollectorRun
  <2>3. CASE poll.writer # "direct"
    BY <1>1, <2>1, <2>3 DEF CollectorInv, ClosedRowsStay, CollectorRun
  <2> QED  BY <2>2, <2>3
<1>6. ASSUME SinkCloses PROVE Here
  <2>1. poll' = NoPoll /\ poll'.kind = "none"
    BY <1>6 DEF SinkCloses, NoPoll
  <2>2. CASE disk' = disk
    BY <1>1, <2>1, <2>2 DEF CollectorInv, ClosedRowsStay
  <2>3. ASSUME NEW rows \in SUBSET Nat,
               disk' = [disk EXCEPT !.file = "whole", !.rows = rows, !.kept = rows]
        PROVE  Here
    BY <1>1, <2>1, <2>3 DEF CollectorInv, ClosedRowsStay, PollDisk, FileStates
  <2>4. CASE disk.file = "absent" /\ disk' = [disk EXCEPT !.file = "whole"]
    BY <1>1, <2>1, <2>4 DEF CollectorInv, ClosedRowsStay, PollDisk, FileStates
  <2>5. ASSUME ~poll.failed PROVE Here
    <3>1. /\ (poll.buffer # {} /\ poll.writer = "none") => disk.file # "broken"
          /\ LET last == IF poll.buffer = {} THEN poll ELSE AfterFlush IN
             disk' = CASE last.writer # "none" ->
                            [disk EXCEPT !.file = "whole", !.rows = last.written, !.kept = last.written]
                       [] last.writer = "none" /\ disk.file = "absent" ->
                            [disk EXCEPT !.file = "whole"]
                       [] OTHER -> disk
      BY <1>6, <2>5 DEF SinkCloses
    <3>2. CASE poll.buffer = {}
      BY <1>1, <2>2, <2>3, <2>4, <3>1, <3>2 DEF CollectorRun
    <3>3. CASE poll.buffer # {}
      <4>1. AfterFlush.writer # "none" /\ AfterFlush.written \subseteq Nat
        BY <1>1, <3>1, <3>3, FlushedIs
      <4>2. disk' = [disk EXCEPT !.file = "whole", !.rows = AfterFlush.written, !.kept = AfterFlush.written]
        BY <3>1, <3>3, <4>1
      <4> QED  BY <2>3, <4>1, <4>2
    <3> QED  BY <3>2, <3>3
  <2> QED  BY <1>6, <2>2, <2>5 DEF SinkCloses
<1>7. Here
  BY <1>2, <1>3, <1>4, <1>5, <1>6
<1>8. TopbooksInv' /\ TablesInv' /\ WalksInv'
  BY <1>7, TopbooksStay, TablesStay, WalksStay DEF PollInv
<1> QED  BY <1>7, <1>8 DEF PollInv

-----------------------------------------------------------------------------
(* A backfill. *)

LEMMA LegsAre ==
  /\ Len(Legs) \in Nat /\ TradePages \in Nat
  /\ \A n \in 1 .. Len(Legs) : Legs[n] \in Range(Legs)
  /\ \A leg \in Range(Legs) : \E n \in 1 .. Len(Legs) : Legs[n] = leg
<1>1. Legs \in Seq(Range(Legs)) /\ TradePages \in Nat
  BY PollingAssumption
<1>2. Len(Legs) \in Nat /\ DOMAIN Legs = 1 .. Len(Legs)
  BY <1>1, LenProperties
<1> QED  BY <1>1, <1>2 DEF Range

LEMMA BackfillBegins == PollInv /\ BackfillHistory => PollInv'
<1> SUFFICES ASSUME PollInv, BackfillHistory PROVE PollInv'
  OBVIOUS
<1>1. PICK cap \in 1 .. TradePages :
        poll' = [kind |-> "backfill", run |-> disk.polls + 1, cap |-> cap, done |-> 0, pages |-> 0,
                 rows |-> {}, partitions |-> {}, gaps |-> {}, file |-> "trades", open |-> FALSE]
  BY DEF BackfillHistory
<1>2. disk \in PollDisk /\ disk' = Started("backfill") /\ cap \in Nat
  BY LegsAre DEF PollInv, BackfillHistory
<1>3. /\ disk' \in PollDisk /\ disk'.polls = disk.polls + 1 /\ disk'.cycles = disk.cycles
      /\ disk'.datasets = disk.datasets /\ disk'.file = disk.file
      /\ disk'.rows = disk.rows /\ disk'.kept = disk.kept
      /\ disk'.result = disk.result /\ disk'.table = disk.table /\ disk'.manifest = disk.manifest
  BY <1>2, DiskSteps
<1>4. TopbooksInv' /\ TablesInv' /\ CollectorInv'
  BY <1>1, <1>3, TopbooksStay, TablesStay, CollectorStays DEF PollInv
<1>5. poll' \in BackfillRun /\ poll'.run = disk'.polls /\ poll'.file = "trades" /\ poll'.done = 0 /\ poll'.pages = 0
  <2>1. disk.polls + 1 \in Nat
    BY <1>2 DEF PollDisk
  <2> QED  BY <1>1, <1>2, <1>3, <2>1, LegsAre DEF BackfillRun, ResultFiles
<1>6. TradesOf(Legs[poll'.done + 1], 0) = {}
  BY DEF TradesOf
<1>8. disk.polls \in Nat /\ \A f \in ResultFiles : disk.result.run[f] \in Nat /\ disk.result.run[f] <= disk.polls
  BY <1>2 DEF PollDisk, WalkedResults, PollInv, WalksInv, ResultHolds
<1>9. ResultHolds(disk'.result, disk'.polls)
  BY <1>3, <1>8 DEF PollInv, WalksInv, ResultHolds
<1>10. WrittenOf(disk'.result, poll')
  BY <1>3, <1>5, <1>8 DEF WrittenOf, ResultFiles
<1>7. WalksInv'
  BY <1>5, <1>6, <1>9, <1>10 DEF WalksInv
<1> QED  BY <1>3, <1>4, <1>7 DEF PollInv

\* A walk that ends leaves all trades or a gap; one that goes on has what it read.
LEMMA PartitionedIs ==
  ASSUME WalksInv, poll.kind = "backfill", poll.done < Len(Legs), NEW rows \in SUBSET PolledTrades,
         poll.rows \subseteq rows, NEW pages \in Nat, TradesOf(Ticker, pages) \subseteq rows,
         NEW stop \in {"cursor_exhausted", "repeated_cursor", "page_limit", "fetch_error"},
         stop = "cursor_exhausted" => pages = TradePages,
         poll' = Partitioned([poll EXCEPT !.pages = pages, !.rows = rows], stop), UNCHANGED disk
  PROVE  WalksInv' /\ poll'.kind = "backfill"
<1> DEFINE p == [poll EXCEPT !.pages = pages, !.rows = rows]
           part == [leg |-> Ticker, complete |-> stop = "cursor_exhausted", pages |-> pages]
<1>1. poll \in BackfillRun /\ poll.done + 1 \in 1 .. Len(Legs) /\ Ticker \in Range(Legs)
  BY LegsAre DEF WalksInv, BackfillRun, Ticker
<1>2. p \in BackfillRun /\ p.done = poll.done /\ p.gaps = poll.gaps /\ p.rows = rows /\ p.pages = pages
  BY <1>1 DEF BackfillRun
<1>3. part \in WalkedParts
  BY <1>1 DEF WalkedParts
<1>4. poll' = [p EXCEPT !.done = poll.done + 1, !.pages = 0, !.partitions = @ \cup {part},
                 !.gaps = @ \cup GapsOfPartition(Ticker, stop)]
  BY <1>2 DEF Partitioned
<1>5. GapsOfPartition(Ticker, stop) \subseteq Range(Legs)
  BY <1>1 DEF GapsOfPartition
<1>6. Walked(Legs[poll.done + 1], rows, poll.gaps \cup GapsOfPartition(Ticker, stop))
  BY DEF Walked, GapsOfPartition, Ticker
<1> HIDE DEF p, part
<1> DEFINE next == poll.done + 1
           gaps == poll.gaps \cup GapsOfPartition(Ticker, stop)
           parts == p.partitions \cup {part}
<1>12. next \in 0 .. Len(Legs) /\ gaps \in SUBSET Range(Legs) /\ parts \in SUBSET WalkedParts
  BY <1>1, <1>2, <1>3, <1>5, LegsAre DEF BackfillRun
<1>13. poll' = [p EXCEPT !.done = next, !.pages = 0, !.partitions = parts, !.gaps = gaps]
  BY <1>2, <1>4 DEF BackfillRun
<1> HIDE DEF next, gaps, parts
<1>15. /\ poll' = [kind |-> p.kind, run |-> p.run, cap |-> p.cap, done |-> next, pages |-> 0, rows |-> p.rows,
                  partitions |-> parts, gaps |-> gaps, file |-> p.file, open |-> p.open]
       /\ p.kind = "backfill" /\ p.run \in Nat /\ p.cap \in Nat /\ p.rows \in SUBSET PolledTrades
       /\ p.file \in ResultFiles /\ p.open \in BOOLEAN
  BY <1>2, <1>13 DEF BackfillRun
<1>16. poll'.run = poll.run /\ poll'.file = poll.file
  BY <1>1, <1>15 DEF p, BackfillRun
<1>14. poll' \in BackfillRun /\ poll'.done = next /\ poll'.pages = 0 /\ poll'.rows = rows /\ poll'.gaps = gaps
  BY <1>2, <1>12, <1>15 DEF BackfillRun
<1>7. /\ poll' \in BackfillRun /\ poll'.done = poll.done + 1 /\ poll'.pages = 0 /\ poll'.rows = rows
      /\ poll'.gaps = poll.gaps \cup GapsOfPartition(Ticker, stop)
  BY <1>14 DEF next, gaps
<1>8. ASSUME NEW n \in 1 .. poll'.done PROVE Walked(Legs[n], poll'.rows, poll'.gaps)
  <2>1. CASE n = poll.done + 1
    BY <1>6, <1>7, <2>1
  <2>2. CASE n # poll.done + 1
    <3>1. n \in 1 .. poll.done
      BY <1>1, <1>7, <2>2 DEF BackfillRun
    <3>2. Walked(Legs[n], poll.rows, poll.gaps)
      BY <3>1 DEF WalksInv
    <3> QED  BY <1>7, <3>2 DEF Walked
  <2> QED  BY <2>1, <2>2
<1>9. TradesOf(Legs[poll'.done + 1], poll'.pages) = {}
  BY <1>7 DEF TradesOf
<1>10. ResultHolds(disk'.result, disk'.polls) /\ poll'.run = disk'.polls /\ WrittenOf(disk'.result, poll')
  <2>1. poll.file = "trades"
    BY DEF WalksInv, WrittenOf
  <2> QED  BY <1>16, <2>1 DEF WalksInv, WrittenOf
<1>11. poll'.kind = "backfill"
  BY <1>7 DEF BackfillRun
<1> QED  BY <1>7, <1>8, <1>9, <1>10, <1>11 DEF WalksInv

LEMMA BackfillSteps ==
  PollInv /\ (TradesFail \/ (\E f \in ResultFiles : OpenResult(f) \/ WriteResult(f))
              \/ \E repeated \in BOOLEAN : TradePage(repeated)) => PollInv'
<1> SUFFICES ASSUME PollInv, TradesFail \/ (\E f \in ResultFiles : OpenResult(f) \/ WriteResult(f))
                             \/ \E repeated \in BOOLEAN : TradePage(repeated)
             PROVE  PollInv'
  OBVIOUS
<1>1. poll.kind = "backfill" /\ poll \in BackfillRun /\ disk \in PollDisk /\ WalksInv
  BY DEF PollInv, WalksInv, TradesFail, WritingResult, OpenResult, WriteResult, TradePage, Walking
<1>0. /\ disk.result \in WalkedResults /\ disk.result.run \in [ResultFiles -> Nat] /\ disk.polls \in Nat
      /\ ResultHolds(disk.result, disk.polls) /\ WrittenOf(disk.result, poll) /\ poll.run = disk.polls
      /\ poll.run > 0
  BY <1>1 DEF PollDisk, WalkedResults, WalksInv, WrittenOf, ResultFiles
<1> DEFINE Here == /\ disk' \in PollDisk /\ disk'.polls = disk.polls /\ disk'.cycles = disk.cycles
                   /\ disk'.datasets = disk.datasets /\ disk'.file = disk.file
                   /\ disk'.rows = disk.rows /\ disk'.kept = disk.kept
                   /\ disk'.table = disk.table /\ disk'.manifest = disk.manifest
                   /\ poll'.kind \in {"none", "backfill"}
                   /\ WalksInv'
<1>2. ASSUME TradesFail PROVE Here
  <2>1. poll' = Partitioned(poll, "fetch_error") /\ disk' = disk /\ poll.done < Len(Legs)
    BY <1>2 DEF TradesFail, Walking
  <2>2. [poll EXCEPT !.pages = poll.pages, !.rows = poll.rows] = poll
    BY <1>1 DEF BackfillRun
  <2>3. poll.rows \in SUBSET PolledTrades /\ poll.pages \in Nat
    BY <1>1 DEF BackfillRun
  <2>4. TradesOf(Ticker, poll.pages) \subseteq poll.rows
    BY <1>1, <2>1 DEF WalksInv, Ticker
  <2>5. WalksInv' /\ poll'.kind = "backfill"
    BY <1>1, <2>1, <2>2, <2>3, <2>4, PartitionedIs
  <2> QED  BY <1>1, <2>1, <2>5
<1>3. ASSUME NEW repeated \in BOOLEAN, TradePage(repeated) PROVE Here
  <2> DEFINE row == [leg |-> Ticker, page |-> poll.pages + 1]
             rows == poll.rows \cup {row}
             page == [poll EXCEPT !.pages = poll.pages + 1, !.rows = rows]
  <2>1. poll.done < Len(Legs) /\ disk' = disk /\ poll.done + 1 \in 1 .. Len(Legs)
    BY <1>1, <1>3, LegsAre DEF TradePage, Walking, BackfillRun
  <2>2. /\ Ticker \in Range(Legs) /\ rows \in SUBSET PolledTrades /\ poll.rows \subseteq rows
        /\ poll.pages \in Nat /\ poll.pages + 1 \in Nat
    BY <1>1, <2>1, LegsAre DEF BackfillRun, Ticker, PolledTrades
  <2>3. TradesOf(Ticker, poll.pages + 1) \subseteq rows
    <3>1. TradesOf(Ticker, poll.pages) \subseteq poll.rows
      BY <1>1, <2>1 DEF WalksInv, Ticker
    <3> QED  BY <2>2, <3>1 DEF TradesOf
  <2>4. page.pages = poll.pages + 1 /\ page \in BackfillRun /\ page.done = poll.done /\ page.gaps = poll.gaps
        /\ page.rows = rows /\ page.kind = "backfill" /\ page.run = poll.run /\ page.file = poll.file
    BY <1>1, <2>2 DEF BackfillRun
  <2>5. \/ poll.pages + 1 = TradePages /\ poll' = Partitioned(page, "cursor_exhausted")
        \/ poll' = Partitioned(page, "repeated_cursor")
        \/ poll' = Partitioned(page, "page_limit")
        \/ poll' = page
    BY <1>3, <2>4 DEF TradePage
  <2>6. CASE poll' = page
    <3>1. \A n \in 1 .. poll.done : Walked(Legs[n], rows, poll.gaps)
      BY <1>1, <2>2 DEF WalksInv, Walked
    <3>3. WrittenOf(disk'.result, poll')
      BY <1>0, <2>1, <2>4, <2>6 DEF WrittenOf
    <3>2. WalksInv'
      BY <1>0, <1>1, <2>1, <2>3, <2>4, <2>6, <3>1, <3>3 DEF WalksInv, Ticker
    <3> QED  BY <1>1, <2>1, <2>4, <2>6, <3>2
  <2> HIDE DEF rows
  <2>7. ASSUME NEW stop \in {"cursor_exhausted", "repeated_cursor", "page_limit", "fetch_error"},
               stop = "cursor_exhausted" => poll.pages + 1 = TradePages,
               poll' = Partitioned(page, stop)
        PROVE  Here
    <3>1. WalksInv' /\ poll'.kind = "backfill"
      BY <1>1, <2>1, <2>2, <2>3, <2>7, PartitionedIs
    <3> QED  BY <1>1, <2>1, <3>1
  <2> QED  BY <2>5, <2>6, <2>7
<1>4. ASSUME NEW f \in ResultFiles, OpenResult(f) PROVE Here
  <2>1. PICK marks \in [ResultFiles -> Nat] : marks = [disk.result.run EXCEPT ![f] = 0]
    BY <1>0
  <2>2. PICK result : result = [disk.result EXCEPT !.run = marks]
    OBVIOUS
  <2>3. result \in WalkedResults /\ result.run = marks /\ result.rows = disk.result.rows /\ result.gaps = disk.result.gaps
    BY <1>0, <2>1, <2>2 DEF WalkedResults
  <2>4. disk' = [disk EXCEPT !.result = result] /\ poll' = [poll EXCEPT !.open = TRUE] /\ poll.file = f
    BY <1>4, <2>1, <2>2 DEF OpenResult, WritingResult
  <2>5. /\ disk' \in PollDisk /\ disk'.polls = disk.polls /\ disk'.cycles = disk.cycles
        /\ disk'.datasets = disk.datasets /\ disk'.file = disk.file /\ disk'.rows = disk.rows
        /\ disk'.kept = disk.kept /\ disk'.table = disk.table /\ disk'.manifest = disk.manifest
        /\ disk'.result = result
    BY <1>1, <2>3, <2>4 DEF PollDisk
  <2>6. /\ poll' \in BackfillRun /\ poll'.kind = "backfill" /\ poll'.run = poll.run /\ poll'.file = f
        /\ poll'.done = poll.done /\ poll'.rows = poll.rows /\ poll'.gaps = poll.gaps /\ poll'.pages = poll.pages
    BY <1>1, <2>4 DEF BackfillRun
  <2>7. marks[f] = 0 /\ \A g \in ResultFiles : g # f => marks[g] = disk.result.run[g]
    BY <1>0, <2>1
  <2>8. ResultHolds(result, disk.polls)
    BY <1>0, <2>3, <2>4, <2>7 DEF ResultHolds, WrittenOf, ResultFiles
  <2>9. WrittenOf(result, poll')
    BY <1>0, <2>3, <2>4, <2>6, <2>7 DEF WrittenOf, ResultFiles
  <2>10. WalksInv'
    BY <1>0, <1>1, <2>5, <2>6, <2>8, <2>9 DEF WalksInv
  <2> QED  BY <2>5, <2>6, <2>10
<1>7. ASSUME NEW f \in ResultFiles, WriteResult(f) PROVE Here
  <2>1. PICK marks \in [ResultFiles -> Nat] : marks = [disk.result.run EXCEPT ![f] = poll.run]
    BY <1>0
  <2>2. PICK result : result = ResultWith(disk.result, f)
    OBVIOUS
  <2>0. poll.rows \in SUBSET PolledTrades /\ poll.gaps \in SUBSET Range(Legs) /\ poll.partitions \in SUBSET WalkedParts
    BY <1>1 DEF BackfillRun
  <2>3. /\ result \in WalkedResults /\ result.run = marks
        /\ result.rows = (IF f = "trades" THEN poll.rows ELSE disk.result.rows)
        /\ result.gaps = (IF f = "gaps" THEN poll.gaps ELSE disk.result.gaps)
    BY <1>0, <2>0, <2>1, <2>2 DEF WalkedResults, ResultWith
  <2>4. disk' = [disk EXCEPT !.result = result] /\ poll.file = f /\ poll.done = Len(Legs)
    BY <1>7, <2>2 DEF WriteResult, WritingResult
  <2>5. /\ disk' \in PollDisk /\ disk'.polls = disk.polls /\ disk'.cycles = disk.cycles
        /\ disk'.datasets = disk.datasets /\ disk'.file = disk.file /\ disk'.rows = disk.rows
        /\ disk'.kept = disk.kept /\ disk'.table = disk.table /\ disk'.manifest = disk.manifest
        /\ disk'.result = result
    BY <1>1, <2>3, <2>4 DEF PollDisk
  <2>7. marks[f] = poll.run /\ \A g \in ResultFiles : g # f => marks[g] = disk.result.run[g]
    BY <1>0, <2>1
  <2>11. \A leg \in Range(Legs) : Walked(leg, poll.rows, poll.gaps)
    BY <1>1, <2>4, LegsAre DEF WalksInv
  <2>8. ResultHolds(result, disk.polls)
    <3>1. CASE f = "trades"
      BY <1>0, <2>3, <2>4, <2>7, <3>1 DEF ResultHolds, WrittenOf, ResultFiles
    <3>2. CASE f = "gaps"
      BY <1>0, <2>3, <2>4, <2>7, <2>11, <3>2 DEF ResultHolds, WrittenOf, ResultFiles
    <3>3. CASE f = "summary"
      BY <1>0, <2>3, <2>4, <2>7, <2>11, <3>3 DEF ResultHolds, WrittenOf, ResultFiles
    <3> QED  BY <3>1, <3>2, <3>3 DEF ResultFiles
  <2>9. CASE f = "summary"
    <3>1. poll' = NoPoll /\ poll'.kind = "none"
      BY <1>7, <2>9 DEF WriteResult, NoPoll
    <3> QED  BY <2>5, <2>8, <3>1 DEF WalksInv
  <2>10. CASE f # "summary"
    <3>1. PICK after \in ResultFiles : after = FileAfter[f] /\ after = (IF f = "trades" THEN "gaps" ELSE "summary")
      BY <2>10 DEF FileAfter, ResultFiles
    <3>2. poll' = [poll EXCEPT !.file = after, !.open = FALSE]
      BY <1>7, <2>10, <3>1 DEF WriteResult
    <3>3. /\ poll' \in BackfillRun /\ poll'.kind = "backfill" /\ poll'.run = poll.run /\ poll'.file = after
          /\ poll'.done = poll.done /\ poll'.rows = poll.rows /\ poll'.gaps = poll.gaps /\ poll'.pages = poll.pages
      BY <1>1, <3>2 DEF BackfillRun
    <3>4. WrittenOf(result, poll')
      BY <1>0, <2>3, <2>4, <2>7, <2>10, <3>1, <3>3 DEF WrittenOf, ResultFiles
    <3>5. WalksInv'
      BY <1>0, <1>1, <2>5, <2>8, <3>3, <3>4 DEF WalksInv
    <3> QED  BY <2>5, <3>3, <3>5
  <2> QED  BY <2>9, <2>10
<1>5. Here
  BY <1>2, <1>3, <1>4, <1>7
<1>6. TopbooksInv' /\ TablesInv' /\ CollectorInv'
  BY <1>5, TopbooksStay, TablesStay, CollectorStays DEF PollInv
<1> QED  BY <1>5, <1>6 DEF PollInv

-----------------------------------------------------------------------------
(* A recorder of top books. *)

LEMMA RecorderBegins == PollInv /\ RecordTopbooks => PollInv'
<1> SUFFICES ASSUME PollInv, RecordTopbooks PROVE PollInv'
  OBVIOUS
<1>1. PICK depth \in BOOLEAN :
        poll' = [kind |-> "topbooks", run |-> disk.polls + 1, cycle |-> 1, depth |-> depth,
                 asked |-> 0, books |-> {}, gaps |-> {}, writes |-> <<>>, placed |-> 0]
  BY DEF RecordTopbooks
<1>2. disk \in PollDisk /\ disk' = [Started("topbooks") EXCEPT !.begun = @ + 1] /\ disk.polls + 1 \in Nat
  BY DEF PollInv, RecordTopbooks, PollDisk
<1>3. Started("topbooks") \in PollDisk
  BY <1>2, DiskSteps
<1>4. /\ disk' \in PollDisk /\ disk'.polls = disk.polls + 1 /\ disk'.cycles = disk.cycles
      /\ disk'.datasets = disk.datasets /\ disk'.file = disk.file
      /\ disk'.rows = disk.rows /\ disk'.kept = disk.kept
      /\ disk'.result = disk.result /\ disk'.table = disk.table /\ disk'.manifest = disk.manifest
  <2> HIDE DEF Started
  <2>1. disk' \in PollDisk
    BY <1>2, <1>3 DEF PollDisk
  <2>2. /\ disk'.polls = Started("topbooks").polls /\ disk'.cycles = Started("topbooks").cycles
        /\ disk'.datasets = Started("topbooks").datasets /\ disk'.file = Started("topbooks").file
        /\ disk'.rows = Started("topbooks").rows /\ disk'.kept = Started("topbooks").kept
        /\ disk'.result = Started("topbooks").result /\ disk'.table = Started("topbooks").table
        /\ disk'.manifest = Started("topbooks").manifest
    BY <1>2, <1>3 DEF PollDisk
  <2> QED  BY <1>2, <2>1, <2>2, DiskSteps
<1>5. CollectorInv' /\ TablesInv' /\ WalksInv'
  BY <1>1, <1>4, CollectorStays, TablesStay, WalksStay DEF PollInv
<1>6. poll' \in TopbookRun
  BY <1>1, <1>2 DEF TopbookRun
<1>7. CycleUnderway'
  BY <1>1, <1>6, LegsAre DEF CycleUnderway
<1>8. TopbooksInv'
  BY <1>4, <1>7, DatasetsStay DEF PollInv, TopbooksInv
<1> QED  BY <1>4, <1>5, <1>8 DEF PollInv

\* The rest of the disk is not the recorder's.
LEMMA RecorderStays ==
  ASSUME PollInv, disk' \in PollDisk, disk'.polls = disk.polls, disk'.file = disk.file,
         disk'.rows = disk.rows, disk'.kept = disk.kept, disk'.result = disk.result,
         disk'.table = disk.table, disk'.manifest = disk.manifest,
         poll'.kind \in {"none", "topbooks"}, TopbooksInv'
  PROVE  PollInv'
  BY CollectorStays, TablesStay, WalksStay DEF PollInv

LEMMA TopbooksHere ==
  ASSUME PollInv, poll.kind = "topbooks"
  PROVE  /\ disk \in PollDisk /\ poll \in TopbookRun /\ TopbooksInv /\ CycleUnderway
         /\ \A leg \in Range(Legs) : RowOf(leg) \in PolledCells
         /\ \A leg \in Range(Legs) : \A type \in {"fetch_error", "missing_relation_book", "stale_book"} :
              GapOf(leg, type) \in PolledGaps
<1>1. disk \in PollDisk /\ poll \in TopbookRun /\ TopbooksInv /\ CycleUnderway
  BY DEF PollInv, TopbooksInv, CycleUnderway
<1>2. poll.run \in Nat /\ poll.cycle \in Nat
  BY <1>1 DEF TopbookRun
<1> QED  BY <1>1, <1>2 DEF RowOf, GapOf, PolledCells, PolledGaps

LEMMA BookAsked == PollInv /\ (BookFails \/ \E stale \in BOOLEAN : BookArrives(stale)) => PollInv'
<1> SUFFICES ASSUME PollInv, BookFails \/ \E stale \in BOOLEAN : BookArrives(stale) PROVE PollInv'
  OBVIOUS
<1>1. poll.kind = "topbooks" /\ poll.asked < Len(Legs) /\ disk' = disk
  BY DEF BookFails, BookArrives, Fetching
<1>2. /\ disk \in PollDisk /\ poll \in TopbookRun /\ TopbooksInv
      /\ \A leg \in Range(Legs) : RowOf(leg) \in PolledCells
      /\ \A leg \in Range(Legs) : \A type \in {"fetch_error", "missing_relation_book", "stale_book"} :
           GapOf(leg, type) \in PolledGaps
  BY <1>1, TopbooksHere
<1>3. poll.asked \in Nat /\ Legs[poll.asked + 1] \in Range(Legs) /\ poll.asked + 1 <= Len(Legs)
  BY <1>1, <1>2, LegsAre DEF TopbookRun
<1>5. /\ poll' \in TopbookRun /\ poll'.kind = "topbooks" /\ poll'.asked = poll.asked + 1
      /\ poll'.writes = poll.writes /\ poll'.placed = poll.placed
  <2> DEFINE asked == poll.asked + 1
             leg == Legs[asked]
             BookNoted == /\ poll' \in TopbookRun /\ poll'.kind = poll.kind /\ poll'.asked = asked
                      /\ poll'.writes = poll.writes /\ poll'.placed = poll.placed
  <2>1. asked \in Nat /\ leg \in Range(Legs) /\ poll \in TopbookRun
    BY <1>2, <1>3
  <2>2. ASSUME BookFails PROVE BookNoted
    <3> DEFINE gaps == poll.gaps \cup {GapOf(leg, "fetch_error")}
    <3>1. gaps \in SUBSET PolledGaps
      BY <1>2, <2>1 DEF TopbookRun
    <3>2. poll' = [poll EXCEPT !.asked = asked, !.gaps = gaps]
      BY <2>2 DEF BookFails
    <3> HIDE DEF asked, gaps
    <3> QED  BY <2>1, <3>1, <3>2 DEF TopbookRun
  <2>3. ASSUME NEW stale \in BOOLEAN, BookArrives(stale) PROVE BookNoted
    <3> DEFINE answers == poll.books \cup {[row |-> RowOf(leg), stale |-> stale]}
    <3>1. [row |-> RowOf(leg), stale |-> stale] \in PolledBooks
      BY <1>2, <2>1 DEF PolledBooks
    <3>2. answers \in SUBSET PolledBooks
      BY <2>1, <3>1 DEF TopbookRun
    <3>3. poll' = [poll EXCEPT !.asked = asked, !.books = answers]
      BY <2>3 DEF BookArrives
    <3> HIDE DEF asked, answers
    <3> QED  BY <2>1, <3>2, <3>3 DEF TopbookRun
  <2> HIDE DEF BookNoted
  <2>4. BookNoted
    BY <2>2, <2>3
  <2> QED  BY <1>1, <2>4 DEF BookNoted
<1>6. CycleUnderway
  BY <1>1, <1>2 DEF TopbooksInv
<1>8. poll.writes = <<>> /\ poll.asked <= Len(Legs) /\ ~(poll'.asked > Len(Legs))
  BY <1>1, <1>3, <1>5, <1>6, LegsAre DEF CycleUnderway
<1>9. CycleUnderway'
  BY <1>1, <1>5, <1>6, <1>8 DEF CycleUnderway
<1>7. TopbooksInv'
  BY <1>1, <1>2, <1>9, DatasetsStay DEF TopbooksInv
<1> QED  BY <1>1, <1>2, <1>5, <1>7, RecorderStays


LEMMA AwaitsIs ==
  ASSUME NEW S, NEW q \in Seq(S), NEW e
  PROVE  Awaits(q, e) <=> e \in Range(q)
  BY DEF Awaits, Range

\* The rows of a cycle are all to be written.
LEMMA CycleFetchedStep == PollInv /\ CycleFetched => PollInv'
<1> SUFFICES ASSUME PollInv, CycleFetched PROVE PollInv'
  OBVIOUS
<1>1. poll.kind = "topbooks" /\ poll.asked = Len(Legs) /\ disk' = disk
  BY DEF CycleFetched
<1>2. /\ disk \in PollDisk /\ poll \in TopbookRun /\ TopbooksInv /\ CycleUnderway
      /\ \A leg \in Range(Legs) : RowOf(leg) \in PolledCells
      /\ \A leg \in Range(Legs) : \A type \in {"fetch_error", "missing_relation_book", "stale_book"} :
           GapOf(leg, type) \in PolledGaps
  BY <1>1, TopbooksHere
<1> DEFINE write(d, rows) == IF rows = {} THEN <<>> ELSE <<[set |-> d, rows |-> rows]>>
           gaps == poll.gaps \cup CoverageGaps \cup StaleGaps
           first == write("topbooks", BookRows)
           depths == IF poll.depth THEN write("depth", BookRows) ELSE <<>>
           last == write("gaps", gaps)
           writes == (first \o depths) \o last
<1>3. poll' = [poll EXCEPT !.asked = @ + 1, !.writes = writes]
  BY DEF CycleFetched
<1>4. BookRows \subseteq PolledRows /\ gaps \subseteq PolledRows
  <2>1. \A b \in poll.books : b.row \in PolledCells /\ b.row.leg \in Range(Legs)
    BY <1>2 DEF TopbookRun, PolledBooks, PolledCells
  <2>2. CoverageGaps \subseteq PolledGaps
    BY <1>2 DEF CoverageGaps
  <2>3. StaleGaps \subseteq PolledGaps
    BY <1>2, <2>1 DEF StaleGaps
  <2> QED  BY <1>2, <2>1, <2>2, <2>3 DEF TopbookRun, BookRows, PolledRows
<1>5. ASSUME NEW d \in Datasets, NEW rows \in SUBSET PolledRows
      PROVE  /\ write(d, rows) \in Seq(CycleWrites)
             /\ rows # {} => Awaits(write(d, rows), [set |-> d, rows |-> rows])
  <2>1. CASE rows = {}
    <3>1. write(d, rows) = <<>>
      BY <2>1
    <3> QED  BY <2>1, <3>1
  <2>2. CASE rows # {}
    <3> DEFINE w == [set |-> d, rows |-> rows]
    <3>1. w \in CycleWrites /\ write(d, rows) = <<w>>
      BY <2>2 DEF CycleWrites
    <3> HIDE DEF w
    <3>2. <<w>> \in Seq(CycleWrites) /\ 1 \in DOMAIN <<w>> /\ <<w>>[1] = w
      BY <3>1
    <3>3. Awaits(<<w>>, w)
      BY <3>2 DEF Awaits
    <3> QED  BY <3>1, <3>2, <3>3 DEF w
  <2> QED  BY <2>1, <2>2
<1>6. "topbooks" \in Datasets /\ "depth" \in Datasets /\ "gaps" \in Datasets
  BY DEF Datasets
<1>7. /\ first \in Seq(CycleWrites) /\ last \in Seq(CycleWrites)
      /\ BookRows # {} => Awaits(first, [set |-> "topbooks", rows |-> BookRows])
      /\ gaps # {} => Awaits(last, [set |-> "gaps", rows |-> gaps])
  BY <1>4, <1>5, <1>6
<1>8. depths \in Seq(CycleWrites)
  <2>1. CASE poll.depth
    BY <1>4, <1>5, <1>6, <2>1
  <2>2. CASE ~poll.depth
    <3>1. depths = <<>>
      BY <2>2
    <3> QED  BY <3>1
  <2> QED  BY <2>1, <2>2
<1> HIDE DEF first, depths, last, write
<1>9. /\ writes \in Seq(CycleWrites)
      /\ BookRows # {} => Awaits(writes, [set |-> "topbooks", rows |-> BookRows])
      /\ gaps # {} => Awaits(writes, [set |-> "gaps", rows |-> gaps])
  <2>1. first \o depths \in Seq(CycleWrites) /\ writes \in Seq(CycleWrites)
    BY <1>7, <1>8, Joined
  <2>2. \A e : Awaits(first, e) \/ Awaits(last, e) => Awaits(writes, e)
    <3>1. \A e : Awaits(first \o depths, e) <=> Awaits(first, e) \/ Awaits(depths, e)
      BY ONLY <1>7, <1>8, JoinedAwaits
    <3>2. \A e : Awaits(writes, e) <=> Awaits(first \o depths, e) \/ Awaits(last, e)
      BY ONLY <1>7, <2>1, JoinedAwaits DEF writes
    <3> QED  BY <3>1, <3>2
  <2> QED  BY <1>7, <2>1, <2>2
<1> HIDE DEF writes
<1>10. /\ poll' \in TopbookRun /\ poll'.kind = "topbooks" /\ poll'.asked = poll.asked + 1
       /\ poll'.writes = writes /\ poll'.placed = poll.placed /\ poll'.run = poll.run
       /\ poll'.cycle = poll.cycle
  <2> DEFINE asked == poll.asked + 1
  <2>1. asked \in Nat /\ poll' = [poll EXCEPT !.asked = asked, !.writes = writes]
    BY <1>2, <1>3 DEF TopbookRun
  <2> HIDE DEF asked
  <2>2. /\ poll' \in TopbookRun /\ poll'.kind = poll.kind /\ poll'.asked = asked
        /\ poll'.writes = writes /\ poll'.placed = poll.placed /\ poll'.run = poll.run
        /\ poll'.cycle = poll.cycle
    BY <1>2, <1>9, <2>1 DEF TopbookRun
  <2> QED  BY <1>1, <2>2 DEF asked
<1>11. poll.placed = 0
  BY <1>1, <1>2, LegsAre DEF CycleUnderway
<1>12. BookRows \subseteq AwaitedRows("topbooks")' /\ gaps \subseteq AwaitedRows("gaps")'
  <2>1. \A e : Awaits(writes, e) => e \in Range(writes)
    BY <1>9, AwaitsIs
  <2>2. /\ BookRows # {} => [set |-> "topbooks", rows |-> BookRows] \in Range(poll'.writes)
        /\ gaps # {} => [set |-> "gaps", rows |-> gaps] \in Range(poll'.writes)
    BY <1>9, <1>10, <2>1
  <2> HIDE DEF gaps
  <2> QED  BY <2>2 DEF AwaitedRows
<1>13. ASSUME NEW leg \in Range(Legs)
       PROVE  Told(poll.run, poll.cycle, leg, BookRows, gaps)
  <2>1. CASE RowOf(leg) \in BookRows
    BY <2>1 DEF Told, RowOf
  <2>2. CASE RowOf(leg) \notin BookRows
    <3>1. GapOf(leg, "missing_relation_book") \in gaps
      BY <2>2 DEF CoverageGaps
    <3>2. /\ GapOf(leg, "missing_relation_book").run = poll.run
          /\ GapOf(leg, "missing_relation_book").cycle = poll.cycle
          /\ GapOf(leg, "missing_relation_book").leg = leg
      BY DEF GapOf
    <3> QED  BY <3>1, <3>2 DEF Told
  <2> QED  BY <2>1, <2>2
<1> HIDE DEF gaps
<1>14. CycleUnderway'
  <2>1. \A leg \in Range(Legs) :
          Told(poll'.run, poll'.cycle, leg, ListedRows("topbooks")' \cup AwaitedRows("topbooks")',
               ListedRows("gaps")' \cup AwaitedRows("gaps")')
    BY <1>10, <1>12, <1>13 DEF Told
  <2>2. ~(poll'.asked <= Len(Legs)) /\ poll'.placed = 0
    BY <1>1, <1>10, <1>11, LegsAre
  <2> QED  BY <1>10, <2>1, <2>2 DEF CycleUnderway
<1>15. TopbooksInv'
  BY <1>1, <1>2, <1>14, DatasetsStay DEF TopbooksInv
<1> QED  BY <1>1, <1>2, <1>10, <1>15, RecorderStays

\* The next segment of a dataset is a new file behind the others.
LEMMA NextSegmentIs ==
  ASSUME NEW T, NEW s \in [files : Seq(T), listed : SUBSET Nat], SegmentsSound(s)
  PROVE  NextSegmentIndex(s) = Len(s.files) + 1
<1> DEFINE n == Len(s.files)
           known == s.listed \cup {0}
           free(k) == {i \in k .. n + 1 : i \notin DOMAIN s.files}
<1>1. n \in Nat /\ DOMAIN s.files = 1 .. n /\ s.listed \subseteq 1 .. n
  BY LenProperties DEF SegmentsSound
<1>2. PICK m \in known : \A i \in s.listed : i <= m
  BY DEF SegmentsSound
<1>3. \A x \in known : m >= x
  BY <1>1, <1>2
<1>4. Max(known) \in known
  BY <1>3 DEF Max
<1>5. Max(known) \in 0 .. n
  BY <1>1, <1>4
<1> DEFINE after == Max(known) + 1
<1>6. after \in 1 .. n + 1
  BY <1>1, <1>5
<1> HIDE DEF after
<1>7. free(after) = {n + 1}
  BY <1>1, <1>6
<1>8. Min({n + 1}) = n + 1
  BY <1>1 DEF Min
<1>9. NextSegmentIndex(s) = Min(free(after))
  BY DEF NextSegmentIndex, after
<1> QED  BY <1>7, <1>8, <1>9

LEMMA ToldStays ==
  ASSUME NEW process, NEW cycle, NEW leg, NEW answers, NEW gaps, NEW more, NEW others,
         Told(process, cycle, leg, answers, gaps), answers \subseteq more, gaps \subseteq others
  PROVE  Told(process, cycle, leg, more, others)
  BY DEF Told

LEMMA HeadWrite ==
  ASSUME PollInv, poll.kind = "topbooks", poll.writes # <<>>
  PROVE  /\ Head(poll.writes) \in CycleWrites /\ Head(poll.writes).set \in Datasets
         /\ Head(poll.writes).rows \in SUBSET PolledRows
         /\ Tail(poll.writes) \in Seq(CycleWrites)
         /\ Range(poll.writes) = {Head(poll.writes)} \cup Range(Tail(poll.writes))
         /\ disk.datasets \in PolledSegments
         /\ disk.datasets[Head(poll.writes).set] \in [files : Seq(SUBSET PolledRows), listed : SUBSET Nat]
         /\ SegmentsSound(disk.datasets[Head(poll.writes).set])
<1>1. /\ poll \in TopbookRun /\ disk \in PollDisk /\ DatasetsInv /\ poll.writes \in Seq(CycleWrites)
      /\ disk.datasets \in PolledSegments
  BY TopbooksHere DEF TopbooksInv, TopbookRun, PollDisk
<1>2. /\ Head(poll.writes) \in CycleWrites /\ Tail(poll.writes) \in Seq(CycleWrites)
      /\ \A e : Awaits(poll.writes, e) <=> e = Head(poll.writes) \/ Awaits(Tail(poll.writes), e)
  BY <1>1, StepSequence
<1>3. \A e : e \in Range(poll.writes) <=> e = Head(poll.writes) \/ e \in Range(Tail(poll.writes))
  BY <1>1, <1>2, AwaitsIs
<1>4. Head(poll.writes).set \in Datasets /\ Head(poll.writes).rows \in SUBSET PolledRows
  BY <1>2 DEF CycleWrites
<1>5. /\ disk.datasets[Head(poll.writes).set] \in [files : Seq(SUBSET PolledRows), listed : SUBSET Nat]
      /\ SegmentsSound(disk.datasets[Head(poll.writes).set])
  BY <1>1, <1>4 DEF PolledSegments, DatasetsInv
<1> QED  BY <1>1, <1>2, <1>3, <1>4, <1>5

LEMMA SegmentPlaced == PollInv /\ PlaceSegment => PollInv'
<1> SUFFICES ASSUME PollInv, PlaceSegment PROVE PollInv'
  OBVIOUS
<1>1. poll.kind = "topbooks" /\ poll.writes # <<>> /\ poll.placed = 0
  BY DEF PlaceSegment, Writing
<1>2. disk \in PollDisk /\ poll \in TopbookRun /\ TopbooksInv /\ CycleUnderway /\ DatasetsInv
  BY <1>1, TopbooksHere DEF TopbooksInv
<1> DEFINE w == Head(poll.writes)
           d == w.set
           s == disk.datasets[d]
           n == Len(s.files)
           i == NextSegmentIndex(s)
           sheets == [k \in DOMAIN s.files \cup {i} |-> IF k = i THEN w.rows ELSE s.files[k]]
           sets == [disk.datasets EXCEPT ![d] = [s EXCEPT !.files = sheets]]
<1>3. /\ w \in CycleWrites /\ d \in Datasets /\ w.rows \in SUBSET PolledRows
      /\ disk.datasets \in PolledSegments /\ s \in [files : Seq(SUBSET PolledRows), listed : SUBSET Nat]
      /\ SegmentsSound(s)
  BY <1>1, HeadWrite
<1>4. disk' = [disk EXCEPT !.datasets = sets] /\ poll' = [poll EXCEPT !.placed = i]
  BY <1>2, <1>3 DEF PlaceSegment, PollDisk, PolledSegments
<1>5. i = n + 1 /\ n \in Nat /\ DOMAIN s.files = 1 .. n /\ s.files \in Seq(SUBSET PolledRows)
  BY <1>3, NextSegmentIs, LenProperties
<1>6. \A k \in 1 .. n : s.files[k] \in SUBSET PolledRows
  BY <1>5, ElementOfSeq
<1> HIDE DEF w, d, s, n, i
<1>7. /\ sheets \in Seq(SUBSET PolledRows) /\ Len(sheets) = n + 1 /\ sheets[i] = w.rows
      /\ \A k \in 1 .. n : sheets[k] = s.files[k]
  <2>1. DOMAIN s.files \cup {i} = 1 .. n + 1
    BY <1>5
  <2>2. \A k \in 1 .. n + 1 : (IF k = i THEN w.rows ELSE s.files[k]) \in SUBSET PolledRows
    BY <1>3, <1>5, <1>6
  <2>3. sheets = [k \in 1 .. n + 1 |-> IF k = i THEN w.rows ELSE s.files[k]]
    BY <2>1
  <2>4. n + 1 \in Nat /\ \A k \in 1 .. n : k \in 1 .. n + 1 /\ k # i
    BY <1>5
  <2>5. sheets \in Seq(SUBSET PolledRows) /\ Len(sheets) = n + 1
    <3> DEFINE m == n + 1
    <3>1. sheets \in [1 .. m -> SUBSET PolledRows] /\ m \in Nat
      BY ONLY <2>2, <2>3, <2>4
    <3> HIDE DEF m
    <3>2. sheets \in Seq(SUBSET PolledRows) /\ DOMAIN sheets = 1 .. m
      BY ONLY <3>1, SeqDef
    <3>3. Len(sheets) = m
      BY ONLY <3>1, <3>2, LenProperties
    <3> QED  BY <3>2, <3>3 DEF m
  <2> QED  BY <1>5, <2>1, <2>4, <2>5
<1> HIDE DEF sheets
<1>8. /\ sets \in PolledSegments /\ sets[d].files = sheets /\ sets[d].listed = s.listed
      /\ \A e \in Datasets : e # d => sets[e] = disk.datasets[e]
  BY <1>3, <1>7 DEF PolledSegments, s
<1> HIDE DEF sets
<1>9. /\ disk' \in PollDisk /\ disk'.datasets = sets /\ disk'.polls = disk.polls
      /\ disk'.cycles = disk.cycles /\ disk'.file = disk.file
      /\ disk'.rows = disk.rows /\ disk'.kept = disk.kept /\ disk'.result = disk.result
      /\ disk'.table = disk.table /\ disk'.manifest = disk.manifest
  BY <1>2, <1>4, <1>8 DEF PollDisk
<1>10. s.listed \subseteq 1 .. n
  BY <1>3 DEF SegmentsSound, n
<1>11. ASSUME NEW e \in Datasets PROVE SegmentsSound(sets[e]) /\ ListedRows(e)' = ListedRows(e)
  <2>1. CASE e # d
    <3>1. sets[e] = disk.datasets[e]
      BY <1>8, <2>1
    <3> QED  BY <1>2, <1>9, <3>1 DEF DatasetsInv, ListedRows
  <2>2. CASE e = d
    <3>1. \A k \in s.listed : sets[e].files[k] = s.files[k]
      BY <1>7, <1>8, <1>10, <2>2
    <3>2. ListedRows(e)' = ListedRows(e)
      BY <1>8, <1>9, <2>2, <3>1 DEF ListedRows, s
    <3>3. s.listed \subseteq 1 .. n + 1
      BY <1>5, <1>10
    <3>4. SegmentsSound(sets[e])
      BY <1>3, <1>7, <1>8, <2>2, <3>3 DEF SegmentsSound
    <3> QED  BY <3>2, <3>4
  <2> QED  BY <2>1, <2>2
<1>12. "topbooks" \in Datasets /\ "gaps" \in Datasets
  BY DEF Datasets
<1>13. DatasetsInv'
  BY <1>2, <1>9, <1>11, <1>12 DEF DatasetsInv, Told
<1>14. i \in Nat /\ i \in 1 .. n + 1
  BY <1>5
<1>15. /\ poll' \in TopbookRun /\ poll'.kind = "topbooks" /\ poll'.asked = poll.asked
       /\ poll'.writes = poll.writes /\ poll'.placed = i /\ poll'.run = poll.run
       /\ poll'.cycle = poll.cycle
  BY <1>1, <1>2, <1>4, <1>14 DEF TopbookRun
<1>16. AwaitedRows("topbooks")' = AwaitedRows("topbooks") /\ AwaitedRows("gaps")' = AwaitedRows("gaps")
  BY <1>15 DEF AwaitedRows
<1>17. CycleUnderway'
  <2>1. /\ Head(poll'.writes) = w /\ poll'.writes # <<>>
        /\ poll'.placed \in 1 .. Len(disk'.datasets[Head(poll'.writes).set].files)
        /\ disk'.datasets[Head(poll'.writes).set].files[poll'.placed] = Head(poll'.writes).rows
    BY <1>1, <1>7, <1>8, <1>9, <1>14, <1>15 DEF w, d
  <2>2. poll'.asked > Len(Legs) => \A leg \in Range(Legs) :
          Told(poll'.run, poll'.cycle, leg, ListedRows("topbooks")' \cup AwaitedRows("topbooks")',
               ListedRows("gaps")' \cup AwaitedRows("gaps")')
    BY <1>2, <1>11, <1>12, <1>15, <1>16 DEF CycleUnderway
  <2>3. poll'.asked <= Len(Legs) => poll'.writes = <<>>
    BY <1>2, <1>15 DEF CycleUnderway
  <2> QED  BY <1>15, <2>1, <2>2, <2>3 DEF CycleUnderway
<1>18. TopbooksInv'
  BY <1>13, <1>17 DEF TopbooksInv
<1> QED  BY <1>9, <1>15, <1>18, RecorderStays

LEMMA SegmentListed == PollInv /\ ListSegment => PollInv'
<1> SUFFICES ASSUME PollInv, ListSegment PROVE PollInv'
  OBVIOUS
<1>1. poll.kind = "topbooks" /\ poll.writes # <<>> /\ poll.placed # 0
  BY DEF ListSegment, Writing
<1>2. disk \in PollDisk /\ poll \in TopbookRun /\ TopbooksInv /\ CycleUnderway /\ DatasetsInv
  BY <1>1, TopbooksHere DEF TopbooksInv
<1> DEFINE w == Head(poll.writes)
           d == w.set
           s == disk.datasets[d]
           n == Len(s.files)
           i == poll.placed
           listed == s.listed \cup {i}
           sets == [disk.datasets EXCEPT ![d] = [s EXCEPT !.listed = listed]]
           rest == Tail(poll.writes)
<1>3. /\ w \in CycleWrites /\ d \in Datasets /\ w.rows \in SUBSET PolledRows
      /\ disk.datasets \in PolledSegments /\ s \in [files : Seq(SUBSET PolledRows), listed : SUBSET Nat]
      /\ SegmentsSound(s) /\ rest \in Seq(CycleWrites)
      /\ Range(poll.writes) = {w} \cup Range(rest)
  BY <1>1, HeadWrite
<1>4. disk' = [disk EXCEPT !.datasets = sets] /\ poll' = [poll EXCEPT !.placed = 0, !.writes = rest]
  BY <1>2, <1>3 DEF ListSegment, ListedWith, PollDisk, PolledSegments
<1>5. n \in Nat /\ i \in 1 .. n /\ s.files[i] = w.rows
  BY <1>1, <1>2, <1>3, LenProperties DEF CycleUnderway
<1> HIDE DEF w, d, s, n, i, rest
<1>6. listed \in SUBSET Nat /\ listed \subseteq 1 .. n /\ s.listed \subseteq listed
  BY <1>3, <1>5 DEF SegmentsSound, n
<1>7. \E m \in listed \cup {0} : \A k \in listed : k <= m
  <2>1. PICK m \in s.listed \cup {0} : \A k \in s.listed : k <= m
    BY <1>3 DEF SegmentsSound
  <2>2. m \in Nat /\ i \in Nat /\ s.listed \subseteq Nat
    BY <1>3, <1>5, <2>1
  <2>3. CASE i <= m
    BY <2>1, <2>3
  <2>4. CASE ~(i <= m)
    <3>1. \A k \in s.listed : k <= i
      BY <2>1, <2>2, <2>4
    <3> QED  BY <2>2, <3>1
  <2> QED  BY <2>3, <2>4
<1>8. i \in listed
  OBVIOUS
<1> HIDE DEF listed
<1>9. /\ sets \in PolledSegments /\ sets[d].files = s.files /\ sets[d].listed = listed
      /\ \A e \in Datasets : e # d => sets[e] = disk.datasets[e]
  BY <1>3, <1>6 DEF PolledSegments, s
<1> HIDE DEF sets
<1>10. /\ disk' \in PollDisk /\ disk'.datasets = sets /\ disk'.polls = disk.polls
       /\ disk'.cycles = disk.cycles /\ disk'.file = disk.file
       /\ disk'.rows = disk.rows /\ disk'.kept = disk.kept /\ disk'.result = disk.result
       /\ disk'.table = disk.table /\ disk'.manifest = disk.manifest
  BY <1>2, <1>4, <1>9 DEF PollDisk
<1>11. ASSUME NEW e \in Datasets
       PROVE  SegmentsSound(sets[e]) /\ ListedRows(e) \subseteq ListedRows(e)'
  <2>1. CASE e # d
    <3>1. sets[e] = disk.datasets[e]
      BY <1>9, <2>1
    <3> QED  BY <1>2, <1>10, <3>1 DEF DatasetsInv, ListedRows
  <2>2. CASE e = d
    <3>1. ListedRows(e) \subseteq ListedRows(e)'
      BY <1>6, <1>9, <1>10, <2>2 DEF ListedRows, s
    <3>2. SegmentsSound(sets[e])
      BY <1>6, <1>7, <1>9, <2>2 DEF SegmentsSound, n
    <3> QED  BY <3>1, <3>2
  <2> QED  BY <2>1, <2>2
<1>12. ASSUME NEW e \in Datasets, e = d PROVE w.rows \subseteq ListedRows(e)'
  BY <1>5, <1>8, <1>9, <1>10, <1>12 DEF ListedRows
<1>13. "topbooks" \in Datasets /\ "gaps" \in Datasets
  BY DEF Datasets
<1>14. DatasetsInv'
  <2>1. ASSUME NEW c \in disk.cycles, NEW leg \in Range(Legs)
        PROVE  Told(c.run, c.cycle, leg, ListedRows("topbooks")', ListedRows("gaps")')
    <3>1. Told(c.run, c.cycle, leg, ListedRows("topbooks"), ListedRows("gaps"))
      BY <1>2 DEF DatasetsInv
    <3> QED  BY <1>11, <1>13, <3>1, ToldStays
  <2> QED  BY <1>10, <1>11, <2>1 DEF DatasetsInv
<1>15. /\ poll' \in TopbookRun /\ poll'.kind = "topbooks" /\ poll'.asked = poll.asked
       /\ poll'.writes = rest /\ poll'.placed = 0 /\ poll'.run = poll.run
       /\ poll'.cycle = poll.cycle
  BY <1>1, <1>2, <1>3, <1>4 DEF TopbookRun
<1>16. ASSUME NEW e \in Datasets
       PROVE  ListedRows(e) \cup AwaitedRows(e) \subseteq ListedRows(e)' \cup AwaitedRows(e)'
  <2>1. ASSUME NEW row \in AwaitedRows(e) PROVE row \in ListedRows(e)' \cup AwaitedRows(e)'
    <3>1. PICK v \in Range(poll.writes) : v.set = e /\ row \in v.rows
      BY DEF AwaitedRows
    <3>2. CASE v = w
      BY <1>12, <3>1, <3>2 DEF d
    <3>3. CASE v \in Range(rest)
      BY <1>15, <3>1, <3>3 DEF AwaitedRows
    <3> QED  BY <1>3, <3>2, <3>3
  <2> QED  BY <1>11, <2>1
<1>17. CycleUnderway'
  <2>1. ASSUME poll.asked > Len(Legs), NEW leg \in Range(Legs)
        PROVE  Told(poll'.run, poll'.cycle, leg, ListedRows("topbooks")' \cup AwaitedRows("topbooks")',
                    ListedRows("gaps")' \cup AwaitedRows("gaps")')
    <3>1. Told(poll.run, poll.cycle, leg, ListedRows("topbooks") \cup AwaitedRows("topbooks"),
               ListedRows("gaps") \cup AwaitedRows("gaps"))
      BY <1>2, <2>1 DEF CycleUnderway
    <3>2. Told(poll.run, poll.cycle, leg, ListedRows("topbooks")' \cup AwaitedRows("topbooks")',
               ListedRows("gaps")' \cup AwaitedRows("gaps")')
      BY <1>13, <1>16, <3>1, ToldStays
    <3> QED  BY <1>15, <3>2
  <2>2. ~(poll'.asked <= Len(Legs))
    BY <1>1, <1>2, <1>15 DEF CycleUnderway
  <2> QED  BY <1>15, <2>1, <2>2 DEF CycleUnderway
<1>18. TopbooksInv'
  BY <1>14, <1>17 DEF TopbooksInv
<1> QED  BY <1>10, <1>15, <1>18, RecorderStays

LEMMA CycleEnded == PollInv /\ CycleEnds => PollInv'
<1> SUFFICES ASSUME PollInv, CycleEnds PROVE PollInv'
  OBVIOUS
<1>1. poll.kind = "topbooks" /\ poll.writes = <<>> /\ poll.asked > Len(Legs)
  BY DEF CycleEnds
<1>2. disk \in PollDisk /\ poll \in TopbookRun /\ TopbooksInv /\ CycleUnderway /\ DatasetsInv
  BY <1>1, TopbooksHere DEF TopbooksInv
<1> DEFINE c == [run |-> poll.run, cycle |-> poll.cycle]
           cycles == disk.cycles \cup {c}
           started == IF disk.begun < MaxCycles THEN disk.begun + 1 ELSE disk.begun
           next == poll.cycle + 1
<1>3. c \in PolledCycles /\ cycles \in SUBSET PolledCycles /\ started \in Nat /\ next \in Nat
  BY <1>2 DEF PollDisk, TopbookRun, PolledCycles
<1>4. /\ disk' = [disk EXCEPT !.cycles = cycles, !.begun = started]
      /\ \/ poll' = NoPoll
         \/ poll' = [poll EXCEPT !.cycle = next, !.asked = 0, !.books = {}, !.gaps = {}]
  BY DEF CycleEnds
<1>5. c.run = poll.run /\ c.cycle = poll.cycle
  OBVIOUS
<1> HIDE DEF c
<1>6. \A k \in cycles : k \in disk.cycles \/ k = c
  OBVIOUS
<1> HIDE DEF cycles, started, next
<1>7. /\ disk' \in PollDisk /\ disk'.datasets = disk.datasets /\ disk'.polls = disk.polls
      /\ disk'.cycles = cycles /\ disk'.file = disk.file
      /\ disk'.rows = disk.rows /\ disk'.kept = disk.kept /\ disk'.result = disk.result
      /\ disk'.table = disk.table /\ disk'.manifest = disk.manifest
  BY <1>2, <1>3, <1>4 DEF PollDisk
<1>8. ListedRows("topbooks")' = ListedRows("topbooks") /\ ListedRows("gaps")' = ListedRows("gaps")
  BY <1>7 DEF ListedRows
<1>9. AwaitedRows("topbooks") = {} /\ AwaitedRows("gaps") = {}
  <2>1. Range(poll.writes) = {}
    BY <1>1 DEF Range
  <2> QED  BY <2>1 DEF AwaitedRows
<1>10. ASSUME NEW leg \in Range(Legs)
       PROVE  Told(c.run, c.cycle, leg, ListedRows("topbooks"), ListedRows("gaps"))
  BY <1>1, <1>2, <1>5, <1>9 DEF CycleUnderway
<1>11. DatasetsInv'
  BY <1>2, <1>6, <1>7, <1>8, <1>10 DEF DatasetsInv, SegmentsSound
<1>12. poll' = NoPoll => poll'.kind = "none"
  BY DEF NoPoll
<1>13. ASSUME poll' = [poll EXCEPT !.cycle = next, !.asked = 0, !.books = {}, !.gaps = {}]
       PROVE  poll'.kind = "topbooks" /\ CycleUnderway'
  <2>1. /\ poll' \in TopbookRun /\ poll'.kind = "topbooks" /\ poll'.asked = 0
        /\ poll'.writes = <<>> /\ poll'.placed = poll.placed
    BY <1>1, <1>2, <1>3, <1>13 DEF TopbookRun
  <2>2. poll.placed = 0
    BY <1>1, <1>2 DEF CycleUnderway
  <2> QED  BY <2>1, <2>2, LegsAre DEF CycleUnderway
<1>14. poll'.kind \in {"none", "topbooks"} /\ TopbooksInv'
  BY <1>4, <1>11, <1>12, <1>13 DEF TopbooksInv
<1> QED  BY <1>7, <1>14, RecorderStays

LEMMA PollSteps == PollInv /\ [PollNext]_pollVars => PollInv'
<1> SUFFICES ASSUME PollInv, [PollNext]_pollVars PROVE PollInv'
  OBVIOUS
<1>1. CASE UNCHANGED pollVars
  <2>1. poll' = poll /\ disk' = disk
    BY <1>1 DEF pollVars
  <2>2. /\ ListedRows("topbooks")' = ListedRows("topbooks") /\ ListedRows("gaps")' = ListedRows("gaps")
        /\ AwaitedRows("topbooks")' = AwaitedRows("topbooks") /\ AwaitedRows("gaps")' = AwaitedRows("gaps")
    BY <2>1 DEF ListedRows, AwaitedRows
  <2>3. CycleUnderway => CycleUnderway'
    BY <2>1, <2>2 DEF CycleUnderway
  <2>4. TopbooksInv'
    BY <2>1, <2>3, DatasetsStay DEF PollInv, TopbooksInv
  <2>5. CollectorInv' /\ TablesInv'
    BY <2>1 DEF PollInv, CollectorInv, ClosedRowsStay, TablesInv
  <2>6. WalksInv'
    BY <2>1 DEF PollInv, WalksInv, Walked, TradesOf
  <2> QED
    BY <2>1, <2>4, <2>5, <2>6 DEF PollInv
<1>2. CASE PollDies \/ CollectorDies
  BY <1>2, PollEnds DEF PollDies, CollectorDies
<1> QED
  BY <1>1, <1>2, RecorderBegins, BookAsked, CycleFetchedStep, SegmentPlaced, SegmentListed, CycleEnded,
     CollectorBegins, CollectorSteps, TableBegins, TableSteps, BackfillBegins, BackfillSteps
  DEF PollNext

LEMMA PollTold == PollInv => PolledIsKept
<1> SUFFICES ASSUME PollInv PROVE EveryLegIsAccounted /\ ClosedRowsStay
  BY DEF PolledIsKept
<1>1. ClosedRowsStay
  BY DEF PollInv, CollectorInv
<1>2. EveryLegIsAccounted
  BY DEF PollInv, TopbooksInv, DatasetsInv, TablesInv, WalksInv, ResultHolds, Told, Walked, EveryLegIsAccounted
<1> QED  BY <1>1, <1>2

LEMMA PollBegins == Init => PollInit
  BY DEF Init

LEMMA PollGoes == [Next]_commandVars => [PollNext]_pollVars
  BY DEF commandVars, Next, Capture, RunJobs, ResolveMarkets, SuperviseShard,
    ReadVenue, ReplayTape, UseRun, IngestMarkets, PollVenue, OpenCatalog,
    ObserveShard, EmitQuotes, StreamDatasets, ResolveBatch, PlanFeed, ReadSocket,
    pollVars

(***************************************************************************)
(* Nothing polled is missing without a mark: each leg of a cycle that was  *)
(* counted has a listed row or gap, each instrument of a backfill its      *)
(* trades or a gap, each instrument of a strict table a row, which the     *)
(* manifest of its run counts; and the rows a collector closed its file    *)
(* with stay in it; for any legs, cycles, pages and bounds, and wherever   *)
(* the processes die (recorder.py, io.py, historical_books.py).            *)
(***************************************************************************)
THEOREM PollsAreKept == Spec => []PolledIsKept
<1>1. Init => PollInv
  BY PollBegins, PollStarts
<1>2. PollInv /\ [Next]_commandVars => PollInv'
  BY PollGoes, PollSteps
<1> QED  BY <1>1, <1>2, PollTold, PTL DEF Spec

-----------------------------------------------------------------------------
(* A stream run of streaming/legacy and its recovery.                       *)

\* Every field of the run and of the process, whatever it holds.
LegacyShape ==
  /\ run = [state |-> run.state, backend |-> run.backend, parts |-> run.parts, temps |-> run.temps,
            orphans |-> run.orphans, journal |-> run.journal, torn |-> run.torn, groups |-> run.groups,
            database |-> run.database, segments |-> run.segments, manifest |-> run.manifest]
  /\ proc = [at |-> proc.at, job |-> proc.job, buffer |-> proc.buffer, index |-> proc.index,
             todo |-> proc.todo, files |-> proc.files, committed |-> proc.committed,
             refused |-> proc.refused]
Buffers == [Range(Tables) -> Seq(Nat)]
LegacyTypes ==
  /\ LegacyShape
  /\ run.state \in {"absent", "recording", "finalized"} /\ run.backend \in {"parquet", "sqlite"}
  /\ proc.buffer \in Buffers /\ proc.index \in Nat /\ proc.todo \in Seq(Roles(run.backend))
  /\ offered \in [Range(Tables) -> Seq(Nat)]

Groups == Len(run.journal)
RolesIn(wrote) == {f.role : f \in wrote}
\* Nothing is in the directories but what the journal lists.
Tidy == Unjournaled = {} /\ run.temps = {}

\* What any process may rely on: a record is in its place, with files of its own, all there; and
\* a database that was promoted was promoted as a whole.
JournalInv ==
  /\ run.journal \in Seq(Range(run.journal))
  /\ \A i \in 1 .. Groups :
       /\ run.journal[i].index = i - 1 /\ run.journal[i].files # {}
       /\ run.journal[i].files \subseteq run.parts
       /\ \A f \in run.journal[i].files : f.index = i - 1
  /\ \A f \in run.parts : f.role \in Roles(run.backend)
  /\ run.temps \subseteq Roles(run.backend) \X Nat
  /\ run.backend = "sqlite" =>
       /\ ~run.torn /\ (\A f \in run.parts : f.index = 0) /\ (\A t \in run.temps : t[2] = 0)
       /\ run.journal # <<>> => Groups = 1 /\ Tidy /\ RolesIn(Journaled) = Range(Tables)

\* What an attempt left that failed is of roles that the next one writes.
Owing(roles) ==
  /\ \A f \in Unjournaled : f.index = proc.index /\ f.role \in roles
  /\ \A t \in run.temps : t[2] = proc.index /\ t[1] \in roles
BetweenGroups ==
  /\ proc.job = "capture" /\ proc.index = Groups /\ proc.files = {} /\ ~run.torn
  /\ proc.committed = RolesIn(Journaled) /\ Owing(Filled(proc.buffer))

\* A database is written like a Parquet run once, when it is promoted.
BeforePromotion ==
  /\ proc.job \in {"capture", "close"} /\ run.journal = <<>> /\ Tidy /\ run.database = "recording"
  /\ proc.index = 0 /\ proc.files = {} /\ proc.committed = {}

\* The files of a group, some of which are written.
WritingGroup ==
  /\ proc.index = Groups /\ ~run.torn
  /\ proc.files \subseteq run.parts /\ (proc.todo = <<>> => proc.files # {})
  /\ \A f \in proc.files : f.index = proc.index /\ f.role \notin Range(proc.todo)
  /\ \A i, j \in 1 .. Len(proc.todo) : i # j => proc.todo[i] # proc.todo[j]
  /\ \A f \in Unjournaled : f.index = proc.index /\ (f \in proc.files \/ f.role \in Range(proc.todo))
  /\ \A t \in run.temps : t[2] = proc.index /\ t[1] \in Range(proc.todo)
  /\ run.backend = "parquet" =>
       /\ proc.job \in {"capture", "close"} /\ proc.committed = RolesIn(Journaled)
       /\ proc.job = "capture" =>
            RolesIn(proc.files) \cup Range(proc.todo) = Filled(proc.buffer)
  /\ run.backend = "sqlite" =>
       /\ proc.job \in {"close", "recover"} /\ run.journal = <<>> /\ run.database = "sealed"
       /\ RolesIn(proc.files) \cup Range(proc.todo) = Range(Tables)

\* A group that counts from its journal record on.
JustPublished ==
  /\ run.backend = "parquet" =>
       /\ proc.job \in {"capture", "close"} /\ ~run.torn /\ Tidy /\ proc.index + 1 = Groups
       /\ proc.committed \cup RolesIn(proc.files) = RolesIn(Journaled)
  /\ run.backend = "sqlite" =>
       \/ BeforePromotion
       \/ run.journal # <<>> /\ run.database = "sealed" /\ proc.job \in {"close", "recover"}

\* The segment manifests of some roles list what the journal lists.
Written(roles) ==
  \A role \in roles :
    /\ role \in DOMAIN run.segments /\ run.segments[role].files = Of(role, Journaled)
    /\ (run.segments[role].status = "closed") <=> (proc.job = "settle" => Of(role, Journaled) # {})
ClosingRun ==
  /\ ~run.torn /\ Unjournaled = {} /\ (run.backend = "sqlite" => run.journal # <<>>)
  /\ proc.job \in {"close", "recover", "settle"} /\ (proc.job = "recover" => run.backend = "sqlite")
  /\ proc.job = "close" =>
       /\ run.temps = {} /\ proc.committed = Roles(run.backend)
       /\ RolesIn(Journaled) = Roles(run.backend)
       /\ run.backend = "parquet" => proc.index = Groups

AtInv ==
  /\ proc.at \in {"ready", "raised", "transaction", "write", "published", "seal", "segments",
                  "examine", "manifest", "finalize"}
  /\ proc.refused => proc.at = "raised"
  /\ proc.at = "ready" => BetweenGroups /\ (run.backend = "sqlite" => BeforePromotion)
  /\ proc.at = "raised" /\ ~proc.refused =>
       BetweenGroups /\ (run.backend = "sqlite" => BeforePromotion)
  /\ proc.at = "transaction" => run.backend = "sqlite" /\ BeforePromotion
  /\ proc.at = "write" => WritingGroup
  /\ proc.at = "published" => JustPublished
  /\ proc.at = "seal" => /\ run.backend = "sqlite" /\ run.journal = <<>>
                         /\ proc.job \in {"close", "recover"}
  /\ proc.at = "segments" => ClosingRun /\ Written(Roles(run.backend) \ Range(proc.todo))
  /\ proc.at = "examine" => proc.job = "recover" /\ (run.backend = "sqlite" => run.journal # <<>>)
  /\ proc.at = "manifest" => ClosingRun /\ proc.job # "recover" /\ Written(Roles(run.backend))
  /\ proc.at = "finalize" => Validates(run.manifest)

LegacyInv ==
  /\ LegacyTypes /\ JournalInv
  /\ run.state = "absent" => run = EmptyRun /\ proc = Idle
  /\ run.state = "finalized" => proc.at = "none" /\ Validates(run.manifest)
  /\ proc.at # "none" => run.state = "recording" /\ AtInv

-----------------------------------------------------------------------------
(* Roles and sequences. *)

LEMMA RolesAre ==
  /\ Range(Tables) = {"event", "control"} /\ Roles("sqlite") = {"event", "control"}
  /\ Roles("parquet") = {"event", "control", "raw"}
<1>1. Range(Tables) = {"event", "control"}
  <2>1. Tables \in Seq({"event", "control"}) /\ Len(Tables) = 2 /\ Tables[1] = "event" /\ Tables[2] = "control"
    BY DEF Tables
  <2>2. Range(Tables) = {Tables[i] : i \in 1 .. 2}
    BY <2>1, RangeEquality
  <2> QED  BY <2>1, <2>2
<1> QED  BY <1>1 DEF Roles, Raw

\* Each element once.
Injective(s) == \A i, j \in 1 .. Len(s) : i # j => s[i] # s[j]

LEMMA PlansAre ==
  /\ Tables \in Seq(Range(Tables)) /\ Injective(Tables) /\ Tables # <<>>
  /\ Append(Tables, Raw) \in Seq(Roles("parquet")) /\ Range(Append(Tables, Raw)) = Roles("parquet")
  /\ <<Raw>> \in Seq(Roles("parquet")) /\ Range(<<Raw>>) = {Raw} /\ Injective(<<Raw>>)
<1>1. Tables \in Seq(Range(Tables)) /\ Injective(Tables) /\ Tables # <<>>
  BY RolesAre DEF Tables, Injective
<1> DEFINE S == Roles("parquet")
           all == Append(Tables, Raw)
<1>2. /\ S = {"event", "control", "raw"} /\ Raw \in S /\ Raw = "raw" /\ Tables \in Seq(S)
      /\ Len(Tables) = 2 /\ Tables[1] = "event" /\ Tables[2] = "control"
  <2>1. S = {"event", "control", "raw"} /\ Raw = "raw"
    BY RolesAre DEF Raw
  <2>2. Tables \in Seq({"event", "control", "raw"})
    BY DEF Tables
  <2>3. Len(Tables) = 2 /\ Tables[1] = "event" /\ Tables[2] = "control"
    BY DEF Tables
  <2> QED  BY <2>1, <2>2, <2>3
<1> HIDE DEF S
<1>3. /\ all \in Seq(S) /\ Len(all) = 3 /\ all[1] = "event" /\ all[2] = "control" /\ all[3] = "raw"
  <2>1. all \in Seq(S) /\ Len(all) = Len(Tables) + 1 /\ all[Len(Tables) + 1] = Raw
        /\ \A i \in 1 .. Len(Tables) : all[i] = Tables[i]
    <3>1. ASSUME NEW T, NEW s \in Seq(T), NEW e \in T
          PROVE  /\ Append(s, e) \in Seq(T) /\ Len(Append(s, e)) = Len(s) + 1 /\ Append(s, e)[Len(s) + 1] = e
                 /\ \A i \in 1 .. Len(s) : Append(s, e)[i] = s[i]
      BY AppendProperties
    <3>2. Tables \in Seq(S) /\ Raw \in S
      BY <1>2
    <3> QED  BY ONLY <3>1, <3>2 DEF all
  <2> HIDE DEF all
  <2>2. all[1] = Tables[1] /\ all[2] = Tables[2]
    BY <1>2, <2>1
  <2> QED  BY <1>2, <2>1, <2>2
<1> HIDE DEF all
<1>4. Range(all) = S
  <2>1. Range(all) = {all[i] : i \in 1 .. 3}
    BY <1>3, RangeEquality
  <2> QED  BY <1>2, <1>3, <2>1
<1>5. <<Raw>> \in Seq(Roles("parquet")) /\ Injective(<<Raw>>)
  BY RolesAre DEF Raw, Injective
<1>6. Range(<<Raw>>) = {Raw}
  <2>1. Range(<<Raw>>) = {<<Raw>>[i] : i \in 1 .. 1}
    BY <1>5, RangeEquality
  <2> QED  BY <2>1
<1> QED  BY <1>1, <1>3, <1>4, <1>5, <1>6 DEF S, all

LEMMA EmptyRange == Range(<<>>) = {}
<1>1. <<>> \in Seq({}) /\ Len(<<>>) = 0
  BY EmptySeq
<1>2. Range(<<>>) = {<<>>[i] : i \in 1 .. 0}
  BY <1>1, RangeEquality
<1> QED  BY <1>2

OneOf(table, roles) == IF table \in roles THEN <<table>> ELSE <<>>
LEMMA OneOfIs ==
  ASSUME NEW S, NEW table \in S, NEW roles
  PROVE  /\ OneOf(table, roles) \in Seq(S) /\ Range(OneOf(table, roles)) = roles \cap {table}
         /\ Len(OneOf(table, roles)) \in {0, 1}
         /\ Len(OneOf(table, roles)) = 1 => OneOf(table, roles)[1] = table
<1>1. CASE table \in roles
  <2>1. OneOf(table, roles) = <<table>> /\ <<table>> \in Seq(S) /\ Len(<<table>>) = 1 /\ <<table>>[1] = table
    BY <1>1 DEF OneOf
  <2>2. Range(<<table>>) = {<<table>>[i] : i \in 1 .. 1}
    BY <2>1, RangeEquality
  <2>3. Range(<<table>>) = {table}
    BY <2>1, <2>2
  <2> QED  BY <1>1, <2>1, <2>3
<1>2. CASE table \notin roles
  <2>1. OneOf(table, roles) = <<>> /\ <<>> \in Seq(S) /\ Len(<<>>) = 0
    BY <1>2, EmptySeq DEF OneOf
  <2> QED  BY <1>2, <2>1, EmptyRange
<1> QED  BY <1>1, <1>2

LEMMA WriteOrderIs ==
  ASSUME NEW roles
  PROVE  /\ WriteOrder(roles) \in Seq(Range(Tables)) /\ Injective(WriteOrder(roles))
         /\ Range(WriteOrder(roles)) = roles \cap Range(Tables)
<1> DEFINE S == Range(Tables)
           one == OneOf("event", roles)
           two == OneOf("control", roles)
<1>1. WriteOrder(roles) = one \o two
  <2>1. Tables[1] = "event" /\ Tables[2] = "control"
    BY DEF Tables
  <2> QED  BY <2>1 DEF WriteOrder, OneOf
<1>2. /\ one \in Seq(S) /\ Range(one) = roles \cap {"event"} /\ Len(one) \in {0, 1} /\ (Len(one) = 1 => one[1] = "event")
      /\ two \in Seq(S) /\ Range(two) = roles \cap {"control"} /\ Len(two) \in {0, 1}
      /\ (Len(two) = 1 => two[1] = "control")
  <2>1. "event" \in S /\ "control" \in S
    BY RolesAre
  <2> HIDE DEF S
  <2> QED  BY <2>1, OneOfIs
<1> HIDE DEF one, two
<1>3. WriteOrder(roles) \in Seq(S) /\ Range(WriteOrder(roles)) = Range(one) \cup Range(two)
  BY <1>1, <1>2, ConcatProperties, RangeConcatenation
<1>5. Injective(WriteOrder(roles))
  <2>1. /\ Len(WriteOrder(roles)) = Len(one) + Len(two)
        /\ \A i \in 1 .. Len(one) + Len(two) :
             WriteOrder(roles)[i] = IF i <= Len(one) THEN one[i] ELSE two[i - Len(one)]
    BY <1>1, <1>2, ConcatProperties
  <2> QED  BY <1>2, <2>1 DEF Injective
<1> QED  BY <1>2, <1>3, <1>5, RolesAre

LEMMA FirstIs ==
  ASSUME NEW S, NEW s \in Seq(S), s # <<>>
  PROVE  /\ Head(s) \in S /\ Tail(s) \in Seq(S) /\ Range(s) = {Head(s)} \cup Range(Tail(s))
         /\ Len(s) \in Nat /\ Len(s) # 0 /\ Len(Tail(s)) = Len(s) - 1 /\ Head(s) = s[1]
         /\ \A i \in 1 .. Len(s) - 1 : Tail(s)[i] = s[i + 1]
         /\ Range(Tail(s)) = {Tail(s)[i] : i \in 1 .. Len(s) - 1}
<1>1. /\ Head(s) \in S /\ Tail(s) \in Seq(S) /\ Len(Tail(s)) = Len(s) - 1
      /\ \A i \in 1 .. Len(Tail(s)) : Tail(s)[i] = s[i + 1]
  BY HeadTailProperties
<1>2. Len(s) \in Nat /\ Len(s) # 0 /\ Head(s) = s[1]
  BY EmptySeq, LenProperties
<1>3. Range(s) = {s[i] : i \in 1 .. Len(s)} /\ Range(Tail(s)) = {Tail(s)[i] : i \in 1 .. Len(Tail(s))}
  BY <1>1, RangeEquality
<1> DEFINE n == Len(s)
           rest == Tail(s)
<1> HIDE DEF n, rest
<1>4. /\ n \in Nat /\ n # 0 /\ Len(rest) = n - 1 /\ \A i \in 1 .. n - 1 : rest[i] = s[i + 1]
  BY <1>1, <1>2 DEF n, rest
<1>5. Range(s) = {Head(s)} \cup Range(rest)
  <2>1. ASSUME NEW x \in Range(s) PROVE x \in {Head(s)} \cup Range(rest)
    <3>1. PICK i \in 1 .. n : x = s[i]
      BY <1>3 DEF n
    <3>2. CASE i = 1
      BY <1>2, <3>1, <3>2
    <3>3. CASE i # 1
      <4>1. i - 1 \in 1 .. n - 1 /\ rest[i - 1] = s[i]
        BY <1>4, <3>3
      <4> QED  BY <1>3, <1>4, <3>1, <4>1 DEF rest
    <3> QED  BY <3>2, <3>3
  <2>2. ASSUME NEW x \in Range(rest) PROVE x \in Range(s)
    <3>1. PICK i \in 1 .. n - 1 : x = rest[i]
      BY <1>3, <1>4 DEF rest
    <3>2. i + 1 \in 1 .. n /\ rest[i] = s[i + 1]
      BY <1>4
    <3> QED  BY <1>3, <3>1, <3>2 DEF n
  <2>3. Head(s) \in Range(s)
    <3>1. 1 \in 1 .. n
      BY <1>4
    <3> QED  BY <1>2, <1>3, <3>1 DEF n
  <2> QED  BY <2>1, <2>2, <2>3
<1> QED  BY <1>1, <1>2, <1>3, <1>4, <1>5 DEF n, rest

\* The first of a sequence without repetition is not in the rest.
LEMMA RestIs ==
  ASSUME NEW S, NEW s \in Seq(S), s # <<>>, Injective(s)
  PROVE  /\ Head(s) \in S /\ Tail(s) \in Seq(S) /\ Injective(Tail(s))
         /\ Range(s) = {Head(s)} \cup Range(Tail(s)) /\ Head(s) \notin Range(Tail(s))
<1> DEFINE n == Len(s)
           rest == Tail(s)
<1>1. /\ n \in Nat /\ n # 0 /\ Len(rest) = n - 1 /\ \A i \in 1 .. n - 1 : rest[i] = s[i + 1]
      /\ Head(s) = s[1] /\ Range(rest) = {rest[i] : i \in 1 .. n - 1}
  BY FirstIs
<1> HIDE DEF n, rest
<1>2. Injective(rest)
  BY <1>1 DEF Injective, n
<1>3. Head(s) \notin Range(rest)
  <2> SUFFICES ASSUME NEW i \in 1 .. n - 1, rest[i] = Head(s) PROVE FALSE
    BY <1>1
  <2>1. s[i + 1] = s[1] /\ i + 1 \in 1 .. n /\ 1 \in 1 .. n /\ i + 1 # 1
    BY <1>1
  <2> QED  BY <2>1 DEF Injective, n
<1> QED  BY <1>2, <1>3, FirstIs DEF rest


LEMMA EmptyBuffer == Filled(NoRows) = {} /\ NoRows \in Buffers /\ \A b \in Buffers : Filled(b) = {} => b = NoRows
<1>1. \A role \in Range(Tables) : NoRows[role] = <<>>
  BY DEF NoRows
<1>2. NoRows \in Buffers
  <2>1. <<>> \in Seq(Nat)
    BY EmptySeq
  <2> QED  BY <2>1 DEF NoRows, Buffers
<1>3. ASSUME NEW b \in Buffers, Filled(b) = {} PROVE b = NoRows
  <2>1. \A role \in Range(Tables) : b[role] = <<>>
    BY <1>3 DEF Filled
  <2>2. b = [role \in Range(Tables) |-> b[role]]
    BY DEF Buffers
  <2> QED  BY <2>1, <2>2 DEF NoRows
<1> QED  BY <1>1, <1>2, <1>3 DEF Filled

-----------------------------------------------------------------------------
(* The journal and the files. *)

LEMMA JournalIs ==
  ASSUME JournalInv
  PROVE  /\ Groups \in Nat /\ DOMAIN run.journal = 1 .. Groups /\ (run.journal = <<>> <=> Groups = 0)
         /\ Journaled \subseteq run.parts
         /\ \A f : f \in Journaled <=> \E i \in 1 .. Groups : f \in run.journal[i].files
         /\ \A f \in Journaled : f.index \in Nat /\ f.index < Groups
<1>1. Groups \in Nat /\ DOMAIN run.journal = 1 .. Groups /\ (run.journal = <<>> <=> Groups = 0)
  BY LenProperties, EmptySeq DEF JournalInv, Groups
<1>2. \A f : f \in Journaled <=> \E i \in 1 .. Groups : f \in run.journal[i].files
  BY <1>1 DEF Journaled
<1>3. Journaled \subseteq run.parts
  BY <1>2 DEF JournalInv
<1>4. \A f \in Journaled : f.index \in Nat /\ f.index < Groups
  <2> SUFFICES ASSUME NEW i \in 1 .. Groups, NEW f \in run.journal[i].files
               PROVE  f.index \in Nat /\ f.index < Groups
    BY <1>2
  <2>1. f.index = i - 1
    BY DEF JournalInv
  <2> QED  BY <1>1, <2>1
<1> QED  BY <1>1, <1>2, <1>3, <1>4

LEMMA AllAccepted == ASSUME JournalInv, NEW i \in 1 .. Groups PROVE Accepted(i)
<1>1. Groups \in Nat /\ run.journal[i].index = i - 1 /\ run.journal[i].files \subseteq run.parts
      /\ \A f \in run.journal[i].files : f.index = i - 1
  BY JournalIs DEF JournalInv
<1>2. ASSUME NEW j \in 1 .. i - 1, NEW f \in run.journal[i].files, NEW g \in run.journal[j].files
      PROVE  <<f.role, f.index>> # <<g.role, g.index>>
  <2>1. j \in 1 .. Groups /\ j # i
    BY <1>1
  <2>2. g.index = j - 1 /\ f.index = i - 1
    BY <1>1, <2>1 DEF JournalInv
  <2> QED  BY <1>1, <2>1, <2>2
<1> QED  BY <1>1, <1>2 DEF Accepted

\* A journal whose lines are whole is valid.
LEMMA JournalValid == ASSUME JournalInv, ~run.torn PROVE ~Errors
  BY AllAccepted, JournalIs DEF Errors

KeepsFiles ==
  /\ run'.journal = run.journal /\ run'.parts = run.parts /\ run'.temps = run.temps
  /\ run'.torn = run.torn /\ run'.backend = run.backend

LEMMA FilesStay ==
  ASSUME KeepsFiles
  PROVE  /\ Journaled' = Journaled /\ Unjournaled' = Unjournaled /\ Groups' = Groups /\ Tidy' = Tidy
         /\ JournalInv => JournalInv'
<1>1. Journaled' = Journaled /\ Groups' = Groups
  BY DEF KeepsFiles, Journaled, Groups
<1>2. Unjournaled' = Unjournaled
  BY <1>1 DEF KeepsFiles, Unjournaled
<1>3. Tidy' = Tidy
  BY <1>2 DEF Tidy, KeepsFiles
<1>4. JournalInv => JournalInv'
  BY <1>1, <1>3 DEF KeepsFiles, JournalInv, RolesIn
<1> QED  BY <1>1, <1>2, <1>3, <1>4

\* A step of a process that leaves the directory as it is.
LEMMA RunSame ==
  ASSUME LegacyInv, run' = run, run.state = "recording", LegacyTypes', proc'.at # "none" => AtInv'
  PROVE  LegacyInv'
<1>1. JournalInv'
  BY FilesStay DEF KeepsFiles, LegacyInv
<1> QED  BY <1>1 DEF LegacyInv

LEMMA LegacyStarts == LegacyInit => LegacyInv
<1> SUFFICES ASSUME LegacyInit PROVE LegacyInv
  OBVIOUS
<1>1. /\ run.state = "absent" /\ run.backend = "parquet" /\ run.parts = {} /\ run.temps = {} /\ run.journal = <<>>
      /\ run.torn = FALSE /\ run = EmptyRun /\ proc = Idle
      /\ proc.at = "none" /\ proc.buffer = NoRows /\ proc.index = 0 /\ proc.todo = <<>>
  BY DEF LegacyInit, EmptyRun, Idle
<1>2. LegacyShape
  BY DEF LegacyShape, LegacyInit, EmptyRun, Idle
<1>3. offered \in [Range(Tables) -> Seq(Nat)]
  BY DEF LegacyInit, NoRows
<1>4. LegacyTypes
  BY <1>1, <1>2, <1>3, EmptyBuffer DEF LegacyTypes
<1>5. Groups = 0 /\ <<>> \in Seq(Range(run.journal))
  BY <1>1, EmptySeq DEF Groups
<1>6. JournalInv
  BY <1>1, <1>5 DEF JournalInv
<1> QED  BY <1>1, <1>4, <1>6 DEF LegacyInv

LEMMA OpenKeeps == ASSUME LegacyInv, NEW backend \in {"parquet", "sqlite"}, Open(backend) PROVE LegacyInv'
<1>1. run = EmptyRun /\ proc = Idle /\ offered' = offered
  BY DEF LegacyInv, Open, Known
<1> DEFINE database == IF backend = "sqlite" THEN "recording" ELSE "absent"
<1>2. /\ run' = [state |-> "recording", backend |-> backend, parts |-> {}, temps |-> {}, orphans |-> {},
                 journal |-> <<>>, torn |-> FALSE, groups |-> <<>>, database |-> database,
                 segments |-> <<>>, manifest |-> NoManifest]
      /\ proc' = [at |-> "ready", job |-> "capture", buffer |-> NoRows, index |-> 0, todo |-> <<>>, files |-> {},
                  committed |-> {}, refused |-> FALSE]
  BY <1>1 DEF Open, EmptyRun, Idle
<1> HIDE DEF database
<1>3. LegacyShape'
  BY <1>2 DEF LegacyShape
<1>4. LegacyTypes'
  BY <1>1, <1>2, <1>3, EmptyBuffer DEF LegacyTypes, LegacyInv
<1>5. Groups' = 0 /\ <<>> \in Seq(Range(run'.journal)) /\ Journaled' = {} /\ Unjournaled' = {}
  <2>1. run'.journal = <<>> /\ run'.parts = {}
    BY <1>2
  <2>2. Journaled' = {}
    BY <2>1 DEF Journaled
  <2> QED  BY <2>1, <2>2, EmptySeq DEF Groups, Unjournaled
<1>6. JournalInv'
  BY <1>2, <1>5 DEF JournalInv
<1>7. BetweenGroups'
  BY <1>2, <1>5 DEF BetweenGroups, Owing, RolesIn
<1>8. run'.backend = "sqlite" => BeforePromotion'
  BY <1>2, <1>5 DEF BeforePromotion, Tidy, database
<1>9. AtInv'
  BY <1>2, <1>7, <1>8 DEF AtInv
<1> QED  BY <1>2, <1>4, <1>6, <1>9 DEF LegacyInv

LEMMA AddKeeps == ASSUME LegacyInv, NEW role \in Range(Tables), Add(role) PROVE LegacyInv'
<1> DEFINE number == Len(offered["event"]) + Len(offered["control"])
           more == [proc.buffer EXCEPT ![role] = Append(@, number)]
<1>1. /\ run' = run /\ proc' = [proc EXCEPT !.buffer = more]
      /\ offered' = [offered EXCEPT ![role] = Append(@, number)] /\ proc.at = "ready"
  BY DEF Add
<1>2. number \in Nat
  <2>1. offered["event"] \in Seq(Nat) /\ offered["control"] \in Seq(Nat)
    BY RolesAre DEF LegacyInv, LegacyTypes
  <2>2. ASSUME NEW s \in Seq(Nat) PROVE Len(s) \in Nat
    BY LenProperties
  <2>3. Len(offered["event"]) \in Nat /\ Len(offered["control"]) \in Nat
    BY <2>1, <2>2
  <2>4. ASSUME NEW a \in Nat, NEW b \in Nat PROVE a + b \in Nat
    OBVIOUS
  <2> QED  BY ONLY <2>3, <2>4 DEF number
<1> HIDE DEF number
<1>3. proc.buffer \in Buffers
  BY DEF LegacyInv, LegacyTypes
<1>4. Append(proc.buffer[role], number) \in Seq(Nat) /\ Append(proc.buffer[role], number) # <<>>
  <2>1. proc.buffer[role] \in Seq(Nat)
    BY <1>3 DEF Buffers
  <2>2. ASSUME NEW s \in Seq(Nat) PROVE Append(s, number) \in Seq(Nat) /\ Append(s, number) # <<>>
    BY <1>2, AppendProperties
  <2> QED  BY <2>1, <2>2
<1>5. more \in Buffers /\ Filled(proc.buffer) \subseteq Filled(more)
  BY <1>3, <1>4 DEF Buffers, Filled
<1> HIDE DEF more
<1>6. proc' = [at |-> proc.at, job |-> proc.job, buffer |-> more, index |-> proc.index,
             todo |-> proc.todo, files |-> proc.files, committed |-> proc.committed,
             refused |-> proc.refused]
  BY <1>1 DEF LegacyInv, LegacyTypes, LegacyShape
<1>7. offered' \in [Range(Tables) -> Seq(Nat)]
  <2>1. offered[role] \in Seq(Nat)
    BY DEF LegacyInv, LegacyTypes
  <2>2. Append(offered[role], number) \in Seq(Nat)
    BY <1>2, <2>1, AppendProperties
  <2> QED  BY <1>1, <2>2 DEF LegacyInv, LegacyTypes
<1>8. LegacyTypes'
  BY <1>1, <1>5, <1>6, <1>7 DEF LegacyInv, LegacyTypes, LegacyShape
<1>9. AtInv /\ run.state = "recording"
  BY <1>1 DEF LegacyInv
<1>10. KeepsFiles
  BY <1>1 DEF KeepsFiles
<1>11. BetweenGroups' /\ (run.backend = "sqlite" => BeforePromotion')
  <2>1. BetweenGroups /\ (run.backend = "sqlite" => BeforePromotion)
    BY <1>1, <1>9 DEF AtInv
  <2>2. Owing(Filled(proc.buffer))'
    BY <1>1, <1>5, <1>6, <1>10, <2>1, FilesStay DEF BetweenGroups, Owing
  <2>3. BetweenGroups'
    BY <1>1, <1>6, <1>10, <2>1, <2>2, FilesStay DEF BetweenGroups
  <2> QED  BY <1>1, <1>6, <1>10, <2>1, <2>3, FilesStay DEF BeforePromotion
<1>12. AtInv'
  BY <1>1, <1>6, <1>9, <1>11 DEF AtInv
<1> QED  BY <1>1, <1>8, <1>9, <1>12, RunSame

-----------------------------------------------------------------------------
(* A group is written. *)

\* What a commit, or the last one of a run, sets out to write.
LEMMA FreezeKeeps ==
  ASSUME LegacyInv, proc.at = "ready", proc.buffer # NoRows, NEW aim \in {"capture", "close"},
         run' = run, offered' = offered, proc' = Frozen([proc EXCEPT !.job = aim])
  PROVE  LegacyInv'
<1> DEFINE todo == IF run.backend = "parquet" THEN WriteOrder(Filled(proc.buffer)) ELSE proc.todo
           at == IF run.backend = "parquet" THEN "write" ELSE "transaction"
<1>1. /\ LegacyTypes /\ LegacyShape /\ AtInv /\ run.state = "recording" /\ JournalInv
      /\ BetweenGroups /\ (run.backend = "sqlite" => BeforePromotion) /\ ~proc.refused
  BY DEF LegacyInv, LegacyTypes, AtInv
<1>2. proc' = [at |-> at, job |-> aim, buffer |-> proc.buffer, index |-> proc.index,
               todo |-> todo, files |-> proc.files, committed |-> proc.committed,
               refused |-> proc.refused]
  BY <1>1 DEF Frozen, LegacyShape
<1>3. /\ WriteOrder(Filled(proc.buffer)) \in Seq(Range(Tables)) /\ Injective(WriteOrder(Filled(proc.buffer)))
      /\ Range(WriteOrder(Filled(proc.buffer))) = Filled(proc.buffer) /\ Filled(proc.buffer) # {}
  <2>1. Filled(proc.buffer) \subseteq Range(Tables) /\ Filled(proc.buffer) # {}
    BY <1>1, EmptyBuffer DEF LegacyTypes, Filled
  <2> QED  BY <2>1, WriteOrderIs
<1>4. todo \in Seq(Roles(run.backend))
  <2>1. Range(Tables) \subseteq Roles(run.backend)
    BY DEF Roles
  <2> QED  BY <1>1, <1>3, <2>1, SeqMonotonic DEF LegacyTypes
<1>5. LegacyTypes'
  <2> HIDE DEF todo, at
  <2>1. LegacyShape'
    BY <1>1, <1>2 DEF LegacyShape
  <2>2. proc'.buffer = proc.buffer /\ proc'.index = proc.index /\ proc'.todo = todo
    BY <1>2
  <2> QED  BY <1>1, <1>4, <2>1, <2>2 DEF LegacyTypes
<1>6. KeepsFiles
  BY DEF KeepsFiles
<1>7. ASSUME run.backend = "parquet" PROVE AtInv'
  <2>1. proc'.at = "write" /\ proc'.todo = WriteOrder(Filled(proc.buffer)) /\ proc'.files = {} /\ proc'.index = Groups
        /\ proc'.job = aim /\ proc'.committed = RolesIn(Journaled) /\ proc'.buffer = proc.buffer
    BY <1>1, <1>2, <1>7 DEF BetweenGroups
  <2>2. /\ Owing(Filled(proc.buffer)) /\ proc.index = Groups /\ ~run.torn
    BY <1>1 DEF BetweenGroups
  <2>3. WriteOrder(Filled(proc.buffer)) # <<>>
    BY <1>3, EmptyRange
  <2>4. \A f \in Unjournaled' : f.index = proc'.index /\ (f \in proc'.files \/ f.role \in Range(proc'.todo))
    BY <1>3, <1>6, <2>1, <2>2, FilesStay DEF Owing
  <2>5. \A t \in run'.temps : t[2] = proc'.index /\ t[1] \in Range(proc'.todo)
    BY <1>3, <2>1, <2>2 DEF Owing
  <2>6. RolesIn(proc'.files) \cup Range(proc'.todo) = Filled(proc'.buffer)
    BY <1>3, <2>1 DEF RolesIn
  <2>7. \A i, j \in 1 .. Len(proc'.todo) : i # j => proc'.todo[i] # proc'.todo[j]
    BY <1>3, <2>1 DEF Injective
  <2>8. proc'.committed = RolesIn(Journaled)' /\ proc'.index = Groups'
    BY <1>6, <2>1, FilesStay DEF RolesIn
  <2>9. WritingGroup'
    BY <1>7, <2>1, <2>2, <2>3, <2>4, <2>5, <2>6, <2>7, <2>8 DEF WritingGroup
  <2> QED  BY <1>1, <1>2, <2>1, <2>9 DEF AtInv
<1>8. ASSUME run.backend = "sqlite" PROVE AtInv'
  <2>1. proc'.at = "transaction" /\ BeforePromotion'
    BY <1>1, <1>2, <1>6, <1>8, FilesStay DEF BeforePromotion
  <2> QED  BY <1>1, <1>2, <1>8, <2>1 DEF AtInv
<1>9. AtInv'
  BY <1>1, <1>7, <1>8 DEF LegacyTypes
<1> QED  BY <1>1, <1>5, <1>9, RunSame

LEMMA CommitKeeps == LegacyInv /\ Commit => LegacyInv'
<1> SUFFICES ASSUME LegacyInv, Commit PROVE LegacyInv'
  OBVIOUS
<1>1. proc.at = "ready" /\ proc.buffer # NoRows /\ run' = run /\ offered' = offered
  BY DEF Commit, Known
<1>2. proc = [proc EXCEPT !.job = "capture"]
  BY DEF Commit, LegacyInv, LegacyTypes, LegacyShape
<1>3. proc' = Frozen([proc EXCEPT !.job = "capture"])
  BY <1>2 DEF Commit
<1> QED  BY <1>1, <1>3, FreezeKeeps

LEMMA WriteKeeps == LegacyInv /\ WriteSegment => LegacyInv'
<1> SUFFICES ASSUME LegacyInv, WriteSegment PROVE LegacyInv'
  OBVIOUS
<1> DEFINE role == Head(proc.todo)
           part == Part(role, proc.index, Content(role))
           parts == Placed(run.parts, {part})
           temps == run.temps \ {<<part.role, part.index>>}
           rest == Tail(proc.todo)
           wrote == proc.files \cup {part}
<1>1. /\ run' = [run EXCEPT !.parts = parts, !.temps = temps]
      /\ proc' = [proc EXCEPT !.todo = rest, !.files = wrote]
      /\ proc.at = "write" /\ proc.todo # <<>> /\ offered' = offered
  BY DEF WriteSegment, Known
<1>2. /\ LegacyTypes /\ LegacyShape /\ AtInv /\ run.state = "recording" /\ JournalInv /\ WritingGroup
      /\ ~proc.refused
  BY <1>1 DEF LegacyInv, LegacyTypes, AtInv
<1>3. part.role = role /\ part.index = proc.index
  BY DEF Part
<1> HIDE DEF part
<1>4. parts = {p \in run.parts : ~(p.role = role /\ p.index = proc.index)} \cup {part}
  BY <1>3 DEF Placed
<1>5. temps = run.temps \ {<<role, proc.index>>}
  BY <1>3
<1>6. /\ role \in Roles(run.backend) /\ rest \in Seq(Roles(run.backend)) /\ Injective(rest)
      /\ Range(proc.todo) = {role} \cup Range(rest) /\ role \notin Range(rest)
  <2>1. proc.todo \in Seq(Roles(run.backend)) /\ Injective(proc.todo)
    BY <1>2 DEF LegacyTypes, WritingGroup, Injective
  <2> QED  BY <1>1, <2>1, RestIs
<1> HIDE DEF role, parts, temps, rest
<1>7. run' = [state |-> run.state, backend |-> run.backend, parts |-> parts, temps |-> temps,
              orphans |-> run.orphans, journal |-> run.journal, torn |-> run.torn, groups |-> run.groups,
              database |-> run.database, segments |-> run.segments, manifest |-> run.manifest]
  BY <1>1, <1>2 DEF LegacyShape
<1>8. proc' = [at |-> proc.at, job |-> proc.job, buffer |-> proc.buffer, index |-> proc.index,
               todo |-> rest, files |-> wrote, committed |-> proc.committed, refused |-> proc.refused]
  BY <1>1, <1>2 DEF LegacyShape
<1> HIDE DEF wrote
<1>9. LegacyTypes'
  BY <1>1, <1>2, <1>6, <1>7, <1>8 DEF LegacyTypes, LegacyShape
<1>10. /\ Groups \in Nat /\ Journaled \subseteq run.parts /\ proc.index = Groups
       /\ \A f \in Journaled : f.index \in Nat /\ f.index < Groups
       /\ \A i \in 1 .. Groups : run.journal[i].files \subseteq Journaled
       /\ \A f : f \in Journaled <=> \E i \in 1 .. Groups : f \in run.journal[i].files
  BY <1>2, JournalIs DEF WritingGroup
<1>11. Journaled' = Journaled /\ Groups' = Groups /\ Journaled \subseteq parts /\ part \notin Journaled
  <2>1. Journaled' = Journaled /\ Groups' = Groups
    BY <1>7 DEF Journaled, Groups
  <2>2. \A f \in Journaled : f.index # proc.index
    BY <1>10
  <2> QED  BY <1>3, <1>4, <1>10, <2>1, <2>2
<1>12. JournalInv'
  <2>1. run'.journal \in Seq(Range(run'.journal)) /\ run'.journal = run.journal /\ run'.backend = run.backend
        /\ run'.torn = run.torn /\ run'.parts = parts /\ run'.temps = temps
    BY <1>2, <1>7 DEF JournalInv
  <2>2. \A i \in 1 .. Groups :
          /\ run.journal[i].index = i - 1 /\ run.journal[i].files # {}
          /\ run.journal[i].files \subseteq parts
          /\ \A f \in run.journal[i].files : f.index = i - 1
    BY <1>2, <1>10, <1>11 DEF JournalInv
  <2>3. \A f \in parts : f.role \in Roles(run.backend)
    BY <1>2, <1>3, <1>4, <1>6 DEF JournalInv
  <2>4. temps \subseteq Roles(run.backend) \X Nat
    BY <1>2, <1>5 DEF JournalInv
  <2>5. ASSUME run.backend = "sqlite"
        PROVE  /\ ~run.torn /\ (\A f \in parts : f.index = 0) /\ (\A t \in temps : t[2] = 0)
               /\ run.journal = <<>>
    <3>1. run.journal = <<>> /\ Groups = 0
      BY <1>2, <2>5, JournalIs DEF WritingGroup
    <3> QED  BY <1>2, <1>3, <1>4, <1>5, <1>10, <2>5, <3>1 DEF JournalInv
  <2> QED  BY <1>11, <2>1, <2>2, <2>3, <2>4, <2>5 DEF JournalInv
<1>13. WritingGroup'
  <2>1. proc.files \subseteq run.parts /\ \A f \in proc.files : f.index = proc.index /\ f.role \notin Range(proc.todo)
    BY <1>2 DEF WritingGroup
  <2>2. wrote \subseteq parts /\ wrote # {}
    BY <1>4, <1>6, <2>1 DEF wrote
  <2>3. \A f \in wrote : f.index = proc.index /\ f.role \notin Range(rest)
    BY <1>3, <1>6, <2>1 DEF wrote
  <2>4. ASSUME NEW f \in Unjournaled'
        PROVE  f.index = proc.index /\ (f \in wrote \/ f.role \in Range(rest))
    <3>1. f \in parts /\ f \notin Journaled
      BY <1>7, <1>11, <2>4 DEF Unjournaled
    <3>2. CASE f = part
      BY <1>3, <3>2 DEF wrote
    <3>3. CASE f # part
      <4>1. f \in Unjournaled /\ ~(f.role = role /\ f.index = proc.index)
        BY <1>4, <3>1, <3>3 DEF Unjournaled
      <4>2. f.index = proc.index /\ (f \in proc.files \/ f.role \in Range(proc.todo))
        BY <1>2, <4>1 DEF WritingGroup
      <4> QED  BY <1>6, <4>1, <4>2 DEF wrote
    <3> QED  BY <3>2, <3>3
  <2>5. ASSUME NEW t \in temps PROVE t[2] = proc.index /\ t[1] \in Range(rest)
    <3>1. t \in run.temps /\ t # <<role, proc.index>> /\ t \in Roles(run.backend) \X Nat
      BY <1>2, <1>5, <2>5 DEF JournalInv
    <3>2. t[2] = proc.index /\ t[1] \in Range(proc.todo)
      BY <1>2, <3>1 DEF WritingGroup
    <3>3. t = <<t[1], t[2]>>
      BY <3>1
    <3> QED  BY <1>6, <3>1, <3>2, <3>3
  <2>6. RolesIn(wrote) \cup Range(rest) = RolesIn(proc.files) \cup Range(proc.todo)
    BY <1>3, <1>6 DEF RolesIn, wrote
  <2>7. /\ proc'.index = proc.index /\ proc'.files = wrote /\ proc'.todo = rest /\ proc'.job = proc.job
        /\ proc'.committed = proc.committed /\ proc'.buffer = proc.buffer
        /\ run'.backend = run.backend /\ run'.torn = run.torn /\ run'.parts = parts /\ run'.temps = temps
        /\ run'.journal = run.journal /\ run'.database = run.database
    BY <1>7, <1>8
  <2>8. RolesIn(proc'.files) \cup Range(proc'.todo) = RolesIn(proc.files) \cup Range(proc.todo)
        /\ Filled(proc'.buffer) = Filled(proc.buffer) /\ RolesIn(Journaled)' = RolesIn(Journaled)
    BY <1>11, <2>6, <2>7 DEF RolesIn
  <2>9. \A i, j \in 1 .. Len(proc'.todo) : i # j => proc'.todo[i] # proc'.todo[j]
    BY <1>6, <2>7 DEF Injective
  <2>10. /\ run'.backend = "parquet" =>
             /\ proc'.job \in {"capture", "close"} /\ proc'.committed = RolesIn(Journaled)'
             /\ proc'.job = "capture" =>
                  RolesIn(proc'.files) \cup Range(proc'.todo) = Filled(proc'.buffer)
         /\ run'.backend = "sqlite" =>
             /\ proc'.job \in {"close", "recover"} /\ run'.journal = <<>> /\ run'.database = "sealed"
             /\ RolesIn(proc'.files) \cup Range(proc'.todo) = Range(Tables)
    BY <1>2, <2>7, <2>8 DEF WritingGroup
  <2>11. proc'.index = Groups' /\ ~run'.torn
    BY <1>2, <1>11, <2>7 DEF WritingGroup
  <2> QED  BY <2>2, <2>3, <2>4, <2>5, <2>7, <2>9, <2>10, <2>11 DEF WritingGroup
<1>14. AtInv'
  BY <1>1, <1>2, <1>8, <1>13 DEF AtInv
<1>15. run'.state = "recording"
  BY <1>2, <1>7
<1> QED  BY <1>9, <1>12, <1>14, <1>15 DEF LegacyInv
-----------------------------------------------------------------------------
(* A group is published. *)

LEMMA PublishKeeps == LegacyInv /\ Publish => LegacyInv'
<1> SUFFICES ASSUME LegacyInv, Publish PROVE LegacyInv'
  OBVIOUS
<1> DEFINE record == [index |-> proc.index, files |-> proc.files]
           journal == Append(run.journal, record)
<1>1. /\ LegacyTypes /\ LegacyShape /\ AtInv /\ run.state = "recording" /\ JournalInv /\ WritingGroup
      /\ ~proc.refused /\ proc.at = "write" /\ proc.todo = <<>>
      /\ proc' = [proc EXCEPT !.at = "published"] /\ offered' = offered
  BY DEF LegacyInv, LegacyTypes, AtInv, Publish, Known
<1>2. record.index = proc.index /\ record.files = proc.files
  OBVIOUS
<1>3. run' = [run EXCEPT !.journal = journal]
  <2>1. run.backend \in {"parquet", "sqlite"} /\ ~run.torn
    BY <1>1 DEF LegacyTypes, WritingGroup
  <2>2. run.backend = "sqlite" => journal = <<record>>
    <3>1. ASSUME NEW r PROVE Append(<<>>, r) = <<r>>
      OBVIOUS
    <3> HIDE DEF record
    <3> QED  BY <1>1, <3>1 DEF WritingGroup
  <2> QED  BY <2>1, <2>2 DEF Publish
<1>4. /\ Groups \in Nat /\ Journaled \subseteq run.parts /\ proc.index = Groups
      /\ \A f \in Journaled : f.index \in Nat /\ f.index < Groups
      /\ \A f : f \in Journaled <=> \E i \in 1 .. Groups : f \in run.journal[i].files
  BY <1>1, JournalIs DEF WritingGroup
<1> HIDE DEF record
<1>5. /\ journal \in Seq(Range(journal)) /\ Len(journal) = Groups + 1 /\ journal[Groups + 1] = record
      /\ \A i \in 1 .. Groups : journal[i] = run.journal[i]
  <2> DEFINE S == Range(run.journal) \cup {record}
  <2>1. run.journal \in Seq(S) /\ record \in S
    BY <1>1, SeqMonotonic DEF JournalInv
  <2> HIDE DEF S
  <2>2. journal \in Seq(S) /\ Len(journal) = Groups + 1 /\ journal[Groups + 1] = record
        /\ \A i \in 1 .. Groups : journal[i] = run.journal[i]
    BY <2>1, AppendProperties DEF Groups
  <2> HIDE DEF journal
  <2> QED  BY <2>2, SeqOfRange
<1> HIDE DEF journal
<1>6. run' = [state |-> run.state, backend |-> run.backend, parts |-> run.parts, temps |-> run.temps,
              orphans |-> run.orphans, journal |-> journal, torn |-> run.torn, groups |-> run.groups,
              database |-> run.database, segments |-> run.segments, manifest |-> run.manifest]
  BY <1>1, <1>3 DEF LegacyShape
<1>7. proc' = [at |-> "published", job |-> proc.job, buffer |-> proc.buffer, index |-> proc.index,
               todo |-> proc.todo, files |-> proc.files, committed |-> proc.committed,
               refused |-> proc.refused]
  BY <1>1 DEF LegacyShape
<1>8. LegacyTypes'
  BY <1>1, <1>6, <1>7 DEF LegacyTypes, LegacyShape
<1>9. Groups' = Groups + 1 /\ DOMAIN run'.journal = 1 .. Groups + 1 /\ run'.journal = journal
  <2>1. run'.journal = journal
    BY <1>6
  <2>2. DOMAIN journal = 1 .. Len(journal)
    BY <1>5, LenProperties
  <2> QED  BY <1>5, <2>1, <2>2 DEF Groups
<1>10. Journaled' = Journaled \cup proc.files
  <2>1. \A f : f \in Journaled' <=> \E i \in 1 .. Groups + 1 : f \in journal[i].files
    BY <1>9 DEF Journaled
  <2>2. \A i \in 1 .. Groups + 1 : i \in 1 .. Groups \/ i = Groups + 1
    BY <1>4
  <2>3. Groups + 1 \in 1 .. Groups + 1 /\ 1 .. Groups \subseteq 1 .. Groups + 1
    BY <1>4
  <2>4. \A f : f \in Journaled' <=> (\E i \in 1 .. Groups : f \in run.journal[i].files) \/ f \in proc.files
    BY <1>2, <1>5, <2>1, <2>2, <2>3
  <2> QED  BY <1>4, <2>4
<1>11. proc.files # {} /\ proc.files \subseteq run.parts /\ \A f \in proc.files : f.index = Groups
  BY <1>1, <1>4 DEF WritingGroup
<1>12. Unjournaled' = {} /\ run.temps = {}
  <2>1. \A f \in Unjournaled : f \in proc.files
    BY <1>1, EmptyRange DEF WritingGroup
  <2>2. \A t \in run.temps : FALSE
    BY <1>1, EmptyRange DEF WritingGroup
  <2>3. Unjournaled' = run.parts \ Journaled'
    BY <1>6 DEF Unjournaled
  <2> QED  BY <1>10, <2>1, <2>2, <2>3 DEF Unjournaled
<1>13. Tidy'
  BY <1>6, <1>12 DEF Tidy
<1>14. RolesIn(Journaled)' = RolesIn(Journaled) \cup RolesIn(proc.files)
  BY <1>10 DEF RolesIn
<1>15. JournalInv'
  <2>1. ASSUME NEW i \in 1 .. Groups + 1
        PROVE  /\ journal[i].index = i - 1 /\ journal[i].files # {}
               /\ journal[i].files \subseteq run.parts
               /\ \A f \in journal[i].files : f.index = i - 1
    <3>1. CASE i \in 1 .. Groups
      BY <1>1, <1>5, <3>1 DEF JournalInv
    <3>2. CASE i = Groups + 1
      <4>1. journal[i] = record /\ i - 1 = Groups
        BY <1>4, <1>5, <3>2
      <4> QED  BY <1>2, <1>4, <1>11, <4>1
    <3> QED  BY <1>4, <3>1, <3>2
  <2>2. run.backend = "sqlite" =>
          /\ ~run.torn /\ (\A f \in run.parts : f.index = 0) /\ (\A t \in run.temps : t[2] = 0)
          /\ Groups + 1 = 1 /\ Tidy' /\ RolesIn(Journaled)' = Range(Tables)
    <3> SUFFICES ASSUME run.backend = "sqlite"
                 PROVE  /\ ~run.torn /\ (\A f \in run.parts : f.index = 0) /\ (\A t \in run.temps : t[2] = 0)
                        /\ Groups + 1 = 1 /\ Tidy' /\ RolesIn(Journaled)' = Range(Tables)
      OBVIOUS
    <3>1. run.journal = <<>> /\ RolesIn(proc.files) \cup Range(proc.todo) = Range(Tables)
      BY <1>1 DEF WritingGroup
    <3>2. Groups = 0 /\ Journaled = {}
      <4>1. Groups = 0
        BY <1>1, <3>1, JournalIs
      <4> QED  BY <1>4, <4>1
    <3>3. RolesIn(Journaled)' = Range(Tables)
      BY <1>1, <1>14, <3>1, <3>2, EmptyRange DEF RolesIn
    <3> QED  BY <1>1, <1>13, <3>2, <3>3 DEF JournalInv
  <2>3. run'.journal \in Seq(Range(run'.journal))
    BY <1>5, <1>9
  <2>4. /\ run'.parts = run.parts /\ run'.temps = run.temps /\ run'.backend = run.backend
        /\ run'.torn = run.torn
    BY <1>6
  <2>5. (\A f \in run.parts : f.role \in Roles(run.backend)) /\ run.temps \subseteq Roles(run.backend) \X Nat
    BY <1>1 DEF JournalInv
  <2> QED  BY <1>9, <2>1, <2>2, <2>3, <2>4, <2>5 DEF JournalInv
<1>16. JustPublished'
  <2>1. run.backend = "parquet" => proc.job \in {"capture", "close"} /\ proc.committed = RolesIn(Journaled)
    BY <1>1 DEF WritingGroup
  <2>2. run.backend = "sqlite" => proc.job \in {"close", "recover"} /\ run.database = "sealed"
    BY <1>1 DEF WritingGroup
  <2>3. ~run.torn /\ run'.journal # <<>>
    <3>1. Len(journal) # 0
      BY <1>4, <1>5
    <3>2. journal # <<>>
      BY <3>1, EmptySeq
    <3> QED  BY <1>1, <1>9, <3>2 DEF WritingGroup
  <2>4. proc'.index + 1 = Groups' /\ proc'.job = proc.job /\ proc'.committed = proc.committed
        /\ RolesIn(proc'.files) = RolesIn(proc.files)
    BY <1>4, <1>7, <1>9 DEF RolesIn
  <2>5. run'.backend = run.backend /\ run'.torn = run.torn /\ run'.database = run.database
    BY <1>6
  <2> QED  BY <1>13, <1>14, <2>1, <2>2, <2>3, <2>4, <2>5 DEF JustPublished
<1>17. AtInv'
  BY <1>1, <1>7, <1>16 DEF AtInv
<1>18. run'.state = "recording"
  BY <1>1, <1>6
<1> QED  BY <1>8, <1>15, <1>17, <1>18 DEF LegacyInv

LEMMA TransactionKeeps == LegacyInv /\ Transaction => LegacyInv'
<1> SUFFICES ASSUME LegacyInv, Transaction PROVE LegacyInv'
  OBVIOUS
<1> DEFINE groups == Append(run.groups,
             {Part(role, Len(run.groups), proc.buffer[role]) : role \in Filled(proc.buffer)})
<1>1. /\ LegacyTypes /\ LegacyShape /\ AtInv /\ run.state = "recording" /\ JournalInv
      /\ ~proc.refused /\ run.backend = "sqlite" /\ BeforePromotion
      /\ run' = [run EXCEPT !.groups = groups]
      /\ proc' = [proc EXCEPT !.at = "published"] /\ offered' = offered
  BY DEF LegacyInv, LegacyTypes, AtInv, Transaction, Known
<1> HIDE DEF groups
<1>2. run' = [state |-> run.state, backend |-> run.backend, parts |-> run.parts, temps |-> run.temps,
              orphans |-> run.orphans, journal |-> run.journal, torn |-> run.torn, groups |-> groups,
              database |-> run.database, segments |-> run.segments, manifest |-> run.manifest]
  BY <1>1 DEF LegacyShape
<1>3. proc' = [at |-> "published", job |-> proc.job, buffer |-> proc.buffer, index |-> proc.index,
               todo |-> proc.todo, files |-> proc.files, committed |-> proc.committed,
               refused |-> proc.refused]
  BY <1>1 DEF LegacyShape
<1>4. LegacyTypes'
  BY <1>1, <1>2, <1>3 DEF LegacyTypes, LegacyShape
<1>5. KeepsFiles
  BY <1>2 DEF KeepsFiles
<1>6. BeforePromotion'
  BY <1>1, <1>2, <1>3, <1>5, FilesStay DEF BeforePromotion
<1>7. JustPublished'
  BY <1>1, <1>2, <1>6 DEF JustPublished
<1>8. AtInv'
  BY <1>1, <1>3, <1>7 DEF AtInv
<1>9. JournalInv' /\ run'.state = "recording"
  BY <1>1, <1>2, <1>5, FilesStay
<1> QED  BY <1>4, <1>8, <1>9 DEF LegacyInv

-----------------------------------------------------------------------------
(* A group counts, or failed. *)

ProcShape(p) ==
  p = [at |-> p.at, job |-> p.job, buffer |-> p.buffer, index |-> p.index, todo |-> p.todo,
       files |-> p.files, committed |-> p.committed, refused |-> p.refused]

\* Where a run that is being closed goes when nothing is half done.
LEMMA OnwardKeeps ==
  ASSUME LegacyInv, run' = run, offered' = offered, run.state = "recording", NEW p, ProcShape(p),
         p.job = "close", p.buffer \in Buffers, p.index = Groups, p.todo \in Seq(Roles(run.backend)),
         p.files = {}, p.committed = RolesIn(Journaled), ~p.refused, Tidy, ~run.torn,
         run.backend = "sqlite" => run.journal = <<>>, proc' = Onward(p)
  PROVE  LegacyInv'
<1>1. /\ LegacyTypes /\ LegacyShape /\ JournalInv /\ Groups \in Nat /\ run.backend \in {"parquet", "sqlite"}
      /\ Unjournaled = {} /\ run.temps = {} /\ Journaled \subseteq run.parts
  BY JournalIs DEF LegacyInv, LegacyTypes, Tidy
<1> DEFINE missing == Roles(run.backend) \ p.committed
           todo == IF run.backend = "sqlite" THEN p.todo
                   ELSE IF missing = {} THEN Append(Tables, Raw)
                   ELSE IF Raw \in missing THEN <<Raw>> ELSE WriteOrder(missing)
           at == IF run.backend = "sqlite" THEN "seal" ELSE IF missing # {} THEN "write" ELSE "segments"
<1>2. proc' = [at |-> at, job |-> "close", buffer |-> p.buffer, index |-> Groups, todo |-> todo,
               files |-> {}, committed |-> RolesIn(Journaled), refused |-> p.refused]
  <2>1. CASE run.backend = "sqlite"
    <3>1. proc' = [p EXCEPT !.at = "seal"]
      BY <2>1 DEF Onward
    <3> QED  BY <2>1, <3>1 DEF ProcShape
  <2>2. CASE run.backend = "parquet" /\ missing # {}
    <3>1. proc' = [p EXCEPT !.at = "write", !.todo = IF Raw \in missing THEN <<Raw>> ELSE WriteOrder(missing)]
      BY <2>2 DEF Onward
    <3> HIDE DEF missing
    <3> QED  BY <2>2, <3>1 DEF ProcShape
  <2>3. CASE run.backend = "parquet" /\ missing = {}
    <3>1. proc' = [p EXCEPT !.at = "segments", !.todo = Append(Tables, Raw)]
      BY <2>3 DEF Onward
    <3> HIDE DEF missing
    <3> QED  BY <2>3, <3>1 DEF ProcShape
  <2> QED  BY <1>1, <2>1, <2>2, <2>3
<1>3. missing = Roles(run.backend) \ RolesIn(Journaled) /\ RolesIn(Journaled) \subseteq Roles(run.backend)
  BY <1>1 DEF JournalInv, RolesIn
<1> HIDE DEF missing
<1>4. KeepsFiles
  BY DEF KeepsFiles
<1>5. run.backend = "parquet" /\ missing # {} =>
        todo \in Seq(Roles(run.backend)) /\ Injective(todo) /\ Range(todo) # {}
  <2> SUFFICES ASSUME run.backend = "parquet", missing # {}
               PROVE  todo \in Seq(Roles(run.backend)) /\ Injective(todo) /\ Range(todo) # {}
    OBVIOUS
  <2>1. CASE Raw \in missing
    BY <2>1, PlansAre
  <2>2. CASE Raw \notin missing
    <3>1. todo = WriteOrder(missing)
      BY <2>2
    <3>2. missing \subseteq Range(Tables)
      BY <1>3, <2>2, RolesAre DEF Raw
    <3>3. Range(Tables) \subseteq Roles(run.backend)
      BY RolesAre
    <3> QED  BY <3>1, <3>2, <3>3, WriteOrderIs, SeqMonotonic
  <2> QED  BY <2>1, <2>2
<1>6. run.backend = "parquet" /\ missing = {} =>
        todo \in Seq(Roles(run.backend)) /\ Range(todo) = Roles(run.backend)
  BY PlansAre
<1>7. todo \in Seq(Roles(run.backend))
  BY <1>1, <1>5, <1>6
<1> HIDE DEF todo
<1>8. LegacyTypes'
  BY <1>1, <1>2, <1>7 DEF LegacyTypes, LegacyShape
<1>9. /\ Journaled' = Journaled /\ Unjournaled' = {} /\ run'.temps = {} /\ Groups' = Groups
      /\ RolesIn(Journaled)' = RolesIn(Journaled)
  BY <1>1, <1>4, FilesStay DEF RolesIn
<1>10. CASE run.backend = "sqlite"
  <2>1. AtInv'
    BY <1>2, <1>10 DEF AtInv
  <2> QED  BY <1>8, <2>1, RunSame
<1>11. CASE run.backend = "parquet" /\ missing # {}
  <2>1. todo # <<>> /\ \A i, j \in 1 .. Len(todo) : i # j => todo[i] # todo[j]
    BY <1>5, <1>11, EmptyRange DEF Injective
  <2>2. WritingGroup'
    BY <1>2, <1>9, <1>11, <2>1 DEF WritingGroup
  <2>3. AtInv'
    BY <1>2, <1>11, <2>2 DEF AtInv
  <2> QED  BY <1>8, <2>3, RunSame
<1>12. CASE run.backend = "parquet" /\ missing = {}
  <2>1. RolesIn(Journaled) = Roles(run.backend)
    BY <1>3, <1>12
  <2>2. ClosingRun'
    BY <1>2, <1>9, <1>12, <2>1 DEF ClosingRun
  <2>3. proc'.todo = todo /\ Range(todo) = Roles(run.backend)
    BY <1>2, <1>6, <1>12
  <2>4. Written(Roles(run.backend) \ Range(proc.todo))'
    BY <2>3 DEF Written
  <2>5. AtInv'
    BY <1>2, <1>12, <2>2, <2>4 DEF AtInv
  <2> QED  BY <1>8, <2>5, RunSame
<1> QED  BY <1>1, <1>10, <1>11, <1>12

LEMMA ReturnsKeeps == LegacyInv /\ Returns => LegacyInv'
<1> SUFFICES ASSUME LegacyInv, Returns PROVE LegacyInv'
  OBVIOUS
<1> DEFINE index == IF run.backend = "parquet" THEN proc.index + 1 ELSE 0
           committed == proc.committed \cup {f.role : f \in proc.files}
           p == [proc EXCEPT !.buffer = NoRows, !.files = {}, !.index = index, !.committed = committed]
<1>1. /\ LegacyTypes /\ LegacyShape /\ AtInv /\ run.state = "recording" /\ JournalInv /\ JustPublished
      /\ ~proc.refused /\ proc.at = "published" /\ (run.backend = "parquet" \/ run.database = "recording")
      /\ run' = run /\ offered' = offered /\ run.backend \in {"parquet", "sqlite"}
  BY DEF LegacyInv, LegacyTypes, AtInv, Returns
<1>2. proc' = Onward(p)
  <2>1. p = [proc EXCEPT !.buffer = NoRows, !.files = {},
               !.index = IF run.backend = "parquet" THEN @ + 1 ELSE 0,
               !.committed = @ \cup {f.role : f \in proc.files}]
    OBVIOUS
  <2> HIDE DEF p
  <2> QED  BY <2>1 DEF Returns
<1>3. /\ ~run.torn /\ Tidy /\ index = Groups /\ committed = RolesIn(Journaled)
      /\ proc.job \in {"capture", "close"} /\ (run.backend = "sqlite" => run.journal = <<>> /\ run.database = "recording")
  <2>1. CASE run.backend = "parquet"
    <3>1. index = proc.index + 1
      BY <2>1
    <3> HIDE DEF index
    <3> QED  BY <1>1, <2>1, <3>1 DEF JustPublished, RolesIn
  <2>2. CASE run.backend = "sqlite"
    <3>1. BeforePromotion
      BY <1>1, <2>2 DEF JustPublished
    <3>2. Groups = 0 /\ Journaled = {}
      <4>1. Groups = 0
        BY <1>1, <3>1, JournalIs DEF BeforePromotion
      <4>2. \A f \in Journaled : \E i \in 1 .. Groups : TRUE
        BY <1>1, JournalIs
      <4> QED  BY <4>1, <4>2
    <3>3. RolesIn(Journaled) = {} /\ RolesIn(proc.files) = {}
      BY <3>1, <3>2 DEF RolesIn, BeforePromotion
    <3> QED  BY <1>1, <2>2, <3>1, <3>2, <3>3 DEF JournalInv, BeforePromotion
  <2> QED  BY <1>1, <2>1, <2>2
<1> HIDE DEF index, committed
<1>4. /\ ProcShape(p) /\ p.at = "published" /\ p.job = proc.job /\ p.buffer = NoRows /\ p.index = Groups
      /\ p.todo = proc.todo /\ p.files = {} /\ p.committed = RolesIn(Journaled) /\ ~p.refused
      /\ p.refused = proc.refused
  <2>1. p = [proc EXCEPT !.buffer = NoRows, !.files = {}, !.index = index, !.committed = committed]
    OBVIOUS
  <2> HIDE DEF p
  <2>2. p = [at |-> proc.at, job |-> proc.job, buffer |-> NoRows, index |-> index, todo |-> proc.todo,
             files |-> {}, committed |-> committed, refused |-> proc.refused]
    BY <1>1, <2>1 DEF LegacyShape
  <2> QED  BY <1>1, <1>3, <2>2 DEF ProcShape
<1> HIDE DEF p
<1>5. NoRows \in Buffers /\ proc.todo \in Seq(Roles(run.backend)) /\ Groups \in Nat
  BY <1>1, EmptyBuffer, JournalIs DEF LegacyTypes
<1>6. CASE proc.job = "close"
  BY <1>1, <1>2, <1>3, <1>4, <1>5, <1>6, OnwardKeeps
<1>7. CASE proc.job = "capture"
  <2>1. proc' = [p EXCEPT !.at = "ready"]
    BY <1>2, <1>4, <1>7 DEF Onward
  <2>2. proc' = [at |-> "ready", job |-> "capture", buffer |-> NoRows, index |-> Groups, todo |-> proc.todo,
                 files |-> {}, committed |-> RolesIn(Journaled), refused |-> proc.refused]
    BY <1>4, <1>7, <2>1 DEF ProcShape
  <2>3. LegacyTypes'
    BY <1>1, <1>5, <2>2 DEF LegacyTypes, LegacyShape
  <2>4. KeepsFiles
    BY <1>1 DEF KeepsFiles
  <2>5. /\ Journaled' = Journaled /\ Unjournaled' = {} /\ run'.temps = {} /\ Groups' = Groups /\ Tidy'
        /\ RolesIn(Journaled)' = RolesIn(Journaled)
    BY <1>3, <2>4, FilesStay DEF RolesIn, Tidy
  <2>6. BetweenGroups'
    <3>1. Owing({})'
      BY <2>5 DEF Owing
    <3>2. Filled(proc'.buffer) = {}
      BY <2>2, EmptyBuffer
    <3> QED  BY <1>1, <1>3, <2>2, <2>5, <3>1, <3>2 DEF BetweenGroups, Owing
  <2>7. run'.backend = "sqlite" => BeforePromotion'
    <3> SUFFICES ASSUME run.backend = "sqlite" PROVE BeforePromotion'
      BY <1>1
    <3>1. run.journal = <<>> /\ run.database = "recording" /\ Groups = 0
      BY <1>1, <1>3, JournalIs
    <3>2. Journaled = {}
      <4>1. \A f \in Journaled : \E i \in 1 .. Groups : TRUE
        BY <1>1, JournalIs
      <4> QED  BY <3>1, <4>1
    <3> QED  BY <1>1, <2>2, <2>5, <3>1, <3>2 DEF BeforePromotion, RolesIn
  <2>8. AtInv'
    BY <1>1, <2>2, <2>6, <2>7 DEF AtInv
  <2> QED  BY <1>1, <2>3, <2>8, RunSame
<1> QED  BY <1>3, <1>6, <1>7

LEMMA CloseKeeps == LegacyInv /\ Close => LegacyInv'
<1> SUFFICES ASSUME LegacyInv, Close PROVE LegacyInv'
  OBVIOUS
<1> DEFINE closing == [proc EXCEPT !.job = "close"]
<1>1. /\ LegacyTypes /\ LegacyShape /\ AtInv /\ run.state = "recording" /\ JournalInv
      /\ proc.at = "ready" /\ ~proc.refused /\ run' = run /\ offered' = offered
      /\ BetweenGroups /\ (run.backend = "sqlite" => BeforePromotion)
  BY DEF LegacyInv, LegacyTypes, AtInv, Close, Known
<1>2. CASE proc.buffer # NoRows
  <2>1. proc' = Frozen([proc EXCEPT !.job = "close"])
    BY <1>2 DEF Close
  <2> QED  BY <1>1, <1>2, <2>1, FreezeKeeps
<1>3. CASE proc.buffer = NoRows
  <2>1. proc' = Onward(closing)
    BY <1>3 DEF Close
  <2>2. closing = [at |-> proc.at, job |-> "close", buffer |-> proc.buffer, index |-> proc.index, todo |-> proc.todo,
                   files |-> proc.files, committed |-> proc.committed, refused |-> proc.refused]
    BY <1>1 DEF LegacyShape
  <2> HIDE DEF closing
  <2>3. /\ ProcShape(closing) /\ closing.job = "close" /\ closing.buffer = proc.buffer
        /\ closing.index = proc.index /\ closing.todo = proc.todo /\ closing.files = proc.files
        /\ closing.committed = proc.committed /\ closing.refused = proc.refused
    BY <2>2 DEF ProcShape
  <2>4. Tidy
    BY <1>1, <1>3, EmptyBuffer DEF BetweenGroups, Owing, Tidy
  <2>5. /\ proc.buffer \in Buffers /\ proc.index = Groups /\ proc.todo \in Seq(Roles(run.backend))
        /\ proc.files = {} /\ proc.committed = RolesIn(Journaled) /\ ~run.torn
        /\ (run.backend = "sqlite" => run.journal = <<>>)
    BY <1>1 DEF LegacyTypes, BetweenGroups, BeforePromotion
  <2> QED  BY <1>1, <2>1, <2>3, <2>4, <2>5, OnwardKeeps
<1> QED  BY <1>2, <1>3

\* An attempt that failed leaves what the next one writes over.
LEMMA RaisesKeeps == LegacyInv /\ Raises => LegacyInv'
<1> SUFFICES ASSUME LegacyInv, Raises PROVE LegacyInv'
  OBVIOUS
<1> DEFINE temps == run.temps \cup {<<Head(proc.todo), proc.index>>}
<1>1. /\ LegacyTypes /\ LegacyShape /\ AtInv /\ run.state = "recording" /\ JournalInv /\ ~proc.refused
      /\ proc.at \in {"write", "transaction"} /\ proc.job = "capture" /\ offered' = offered
      /\ proc' = [proc EXCEPT !.at = "raised", !.todo = <<>>, !.files = {}]
      /\ run.backend \in {"parquet", "sqlite"}
  BY DEF LegacyInv, LegacyTypes, AtInv, Raises, Known
<1>2. proc' = [at |-> "raised", job |-> "capture", buffer |-> proc.buffer, index |-> proc.index,
               todo |-> <<>>, files |-> {}, committed |-> proc.committed, refused |-> proc.refused]
  BY <1>1 DEF LegacyShape
<1>3. <<>> \in Seq(Roles(run.backend))
  BY EmptySeq
<1>4. CASE proc.at = "transaction"
  <2>1. run' = run /\ run.backend = "sqlite" /\ BeforePromotion
    BY <1>1, <1>4 DEF Raises, LeavesTemp, AtInv
  <2>2. LegacyTypes'
    BY <1>1, <1>2, <1>3, <2>1 DEF LegacyTypes, LegacyShape
  <2>3. KeepsFiles
    BY <2>1 DEF KeepsFiles
  <2>4. BeforePromotion'
    BY <1>1, <1>2, <2>1, <2>3, FilesStay DEF BeforePromotion
  <2>5. Groups = 0 /\ Journaled = {} /\ ~run.torn
    <3>1. Groups = 0 /\ ~run.torn
      BY <1>1, <2>1, JournalIs DEF BeforePromotion, JournalInv
    <3>2. \A f \in Journaled : \E i \in 1 .. Groups : TRUE
      BY <1>1, JournalIs
    <3> QED  BY <3>1, <3>2
  <2>6. Groups' = 0 /\ Journaled' = {} /\ RolesIn(Journaled)' = {}
    BY <2>3, <2>5, FilesStay DEF RolesIn
  <2>7. BetweenGroups'
    BY <1>2, <2>1, <2>4, <2>5, <2>6 DEF BetweenGroups, BeforePromotion, Owing, Tidy
  <2>8. AtInv'
    BY <1>1, <1>2, <2>4, <2>7 DEF AtInv
  <2> QED  BY <1>1, <2>1, <2>2, <2>8, RunSame
<1>5. CASE proc.at = "write"
  <2>1. WritingGroup /\ run.backend = "parquet"
    BY <1>1, <1>5 DEF AtInv, WritingGroup
  <2>2. /\ RolesIn(proc.files) \cup Range(proc.todo) = Filled(proc.buffer)
        /\ proc.index = Groups /\ ~run.torn /\ proc.committed = RolesIn(Journaled)
    BY <1>1, <2>1 DEF WritingGroup
  <2>3. Owing(Filled(proc.buffer))
    <3>1. \A f \in Unjournaled : f.index = proc.index /\ f.role \in Filled(proc.buffer)
      BY <2>1, <2>2 DEF WritingGroup, RolesIn
    <3>2. \A t \in run.temps : t[2] = proc.index /\ t[1] \in Filled(proc.buffer)
      BY <2>1, <2>2 DEF WritingGroup
    <3> QED  BY <3>1, <3>2 DEF Owing
  <2>4. CASE run' = run
    <3>1. LegacyTypes'
      BY <1>1, <1>2, <1>3, <2>4 DEF LegacyTypes, LegacyShape
    <3>2. KeepsFiles
      BY <2>4 DEF KeepsFiles
    <3>3. /\ Journaled' = Journaled /\ Unjournaled' = Unjournaled /\ Groups' = Groups
          /\ RolesIn(Journaled)' = RolesIn(Journaled) /\ Filled(proc'.buffer) = Filled(proc.buffer)
      BY <1>2, <3>2, FilesStay DEF RolesIn
    <3>4. Owing(Filled(proc.buffer))'
      BY <1>2, <2>3, <2>4, <3>3 DEF Owing
    <3>5. BetweenGroups'
      BY <1>2, <2>2, <2>4, <3>3, <3>4 DEF BetweenGroups
    <3>6. AtInv'
      BY <1>1, <1>2, <2>1, <2>4, <3>5 DEF AtInv
    <3> QED  BY <1>1, <2>4, <3>1, <3>6, RunSame
  <2>5. CASE LeavesTemp
    <3>1. proc.todo # <<>> /\ run' = [run EXCEPT !.temps = temps]
      BY <2>5 DEF LeavesTemp
    <3>2. Head(proc.todo) \in Range(proc.todo) /\ Head(proc.todo) \in Roles(run.backend)
      <4>1. proc.todo \in Seq(Roles(run.backend)) /\ Injective(proc.todo)
        BY <1>1, <2>1 DEF LegacyTypes, WritingGroup, Injective
      <4> QED  BY <3>1, <4>1, RestIs
    <3> DEFINE left == <<Head(proc.todo), proc.index>>
    <3>3. left \in Roles(run.backend) \X Nat /\ left[2] = proc.index /\ left[1] \in Filled(proc.buffer)
      BY <1>1, <2>2, <3>2 DEF LegacyTypes
    <3>4. temps = run.temps \cup {left}
      OBVIOUS
    <3> HIDE DEF left, temps
    <3>5. run' = [state |-> run.state, backend |-> run.backend, parts |-> run.parts, temps |-> temps,
                  orphans |-> run.orphans, journal |-> run.journal, torn |-> run.torn, groups |-> run.groups,
                  database |-> run.database, segments |-> run.segments, manifest |-> run.manifest]
      BY <1>1, <3>1 DEF LegacyShape
    <3>6. LegacyTypes'
      BY <1>1, <1>2, <1>3, <3>5 DEF LegacyTypes, LegacyShape
    <3>7. Journaled' = Journaled /\ Unjournaled' = Unjournaled /\ Groups' = Groups
          /\ RolesIn(Journaled)' = RolesIn(Journaled) /\ Filled(proc'.buffer) = Filled(proc.buffer)
      <4>1. Journaled' = Journaled /\ Groups' = Groups
        BY <3>5 DEF Journaled, Groups
      <4> QED  BY <1>2, <3>5, <4>1 DEF Unjournaled, RolesIn
    <3>8. JournalInv'
      BY <1>1, <2>1, <3>3, <3>4, <3>5, <3>7 DEF JournalInv
    <3>9. Owing(Filled(proc.buffer))'
      BY <1>2, <2>3, <3>3, <3>4, <3>5, <3>7 DEF Owing
    <3>10. BetweenGroups'
      BY <1>2, <2>2, <3>5, <3>7, <3>9 DEF BetweenGroups
    <3>11. AtInv'
      BY <1>1, <1>2, <2>1, <3>5, <3>10 DEF AtInv
    <3>12. run'.state = "recording"
      BY <1>1, <3>5
    <3> QED  BY <3>6, <3>8, <3>11, <3>12 DEF LegacyInv
  <2> QED  BY <2>4, <2>5 DEF Raises
<1> QED  BY <1>1, <1>4, <1>5

LEMMA RaisesLateKeeps == LegacyInv /\ RaisesLate => LegacyInv'
<1> SUFFICES ASSUME LegacyInv, RaisesLate PROVE LegacyInv'
  OBVIOUS
<1>1. /\ LegacyTypes /\ LegacyShape /\ AtInv /\ run.state = "recording" /\ JournalInv
      /\ proc.at \in {"write", "published"} /\ run.backend = "parquet" /\ offered' = offered
      /\ proc' = [proc EXCEPT !.at = "raised", !.refused = TRUE]
  BY DEF LegacyInv, LegacyTypes, AtInv, RaisesLate, Known
<1>2. proc' = [at |-> "raised", job |-> proc.job, buffer |-> proc.buffer, index |-> proc.index,
               todo |-> proc.todo, files |-> proc.files, committed |-> proc.committed, refused |-> TRUE]
  BY <1>1 DEF LegacyShape
<1>3. AtInv'
  BY <1>2 DEF AtInv
<1>4. CASE run' = run
  <2>1. LegacyTypes'
    BY <1>1, <1>2, <1>4 DEF LegacyTypes, LegacyShape
  <2> QED  BY <1>1, <1>3, <1>4, <2>1, RunSame
<1>5. CASE run' = [run EXCEPT !.torn = TRUE]
  <2>1. run' = [state |-> run.state, backend |-> run.backend, parts |-> run.parts, temps |-> run.temps,
                orphans |-> run.orphans, journal |-> run.journal, torn |-> TRUE, groups |-> run.groups,
                database |-> run.database, segments |-> run.segments, manifest |-> run.manifest]
    BY <1>1, <1>5 DEF LegacyShape
  <2>2. LegacyTypes'
    BY <1>1, <1>2, <2>1 DEF LegacyTypes, LegacyShape
  <2>3. Groups' = Groups
    BY <2>1 DEF Groups
  <2>4. JournalInv'
    BY <1>1, <2>1, <2>3 DEF JournalInv
  <2> QED  BY <1>1, <1>3, <2>1, <2>2, <2>4 DEF LegacyInv
<1> QED  BY <1>4, <1>5 DEF RaisesLate

LEMMA RetryKeeps == LegacyInv /\ Retry => LegacyInv'
<1> SUFFICES ASSUME LegacyInv, Retry PROVE LegacyInv'
  OBVIOUS
<1>1. /\ LegacyTypes /\ LegacyShape /\ AtInv /\ run.state = "recording"
      /\ proc.at = "raised" /\ ~proc.refused /\ run' = run /\ offered' = offered
      /\ BetweenGroups /\ (run.backend = "sqlite" => BeforePromotion)
      /\ proc' = [proc EXCEPT !.at = "ready"]
  BY DEF LegacyInv, LegacyTypes, AtInv, Retry, Known
<1>2. proc' = [at |-> "ready", job |-> proc.job, buffer |-> proc.buffer, index |-> proc.index,
               todo |-> proc.todo, files |-> proc.files, committed |-> proc.committed,
               refused |-> proc.refused]
  BY <1>1 DEF LegacyShape
<1>3. LegacyTypes'
  BY <1>1, <1>2 DEF LegacyTypes, LegacyShape
<1>4. KeepsFiles
  BY <1>1 DEF KeepsFiles
<1>5. /\ Journaled' = Journaled /\ Unjournaled' = Unjournaled /\ Groups' = Groups /\ Tidy' = Tidy
      /\ RolesIn(Journaled)' = RolesIn(Journaled) /\ Filled(proc'.buffer) = Filled(proc.buffer)
  BY <1>2, <1>4, FilesStay DEF RolesIn
<1>6. BetweenGroups'
  <2>1. Owing(Filled(proc.buffer))'
    BY <1>1, <1>2, <1>5 DEF BetweenGroups, Owing
  <2> QED  BY <1>1, <1>2, <1>5, <2>1 DEF BetweenGroups
<1>7. run'.backend = "sqlite" => BeforePromotion'
  BY <1>1, <1>2, <1>5 DEF BeforePromotion
<1>8. AtInv'
  BY <1>1, <1>2, <1>6, <1>7 DEF AtInv
<1> QED  BY <1>1, <1>3, <1>8, RunSame

-----------------------------------------------------------------------------
(* A database is promoted. *)

LEMMA SealKeeps == LegacyInv /\ Seal => LegacyInv'
<1> SUFFICES ASSUME LegacyInv, Seal PROVE LegacyInv'
  OBVIOUS
<1>1. /\ LegacyTypes /\ LegacyShape /\ AtInv /\ run.state = "recording" /\ JournalInv /\ ~proc.refused
      /\ run.backend = "sqlite" /\ run.journal = <<>> /\ proc.job \in {"close", "recover"}
      /\ run' = [run EXCEPT !.database = "sealed"] /\ offered' = offered
      /\ proc' = [proc EXCEPT !.at = "write", !.todo = Tables, !.files = {}, !.index = 0]
  BY DEF LegacyInv, LegacyTypes, AtInv, Seal, Known
<1>2. run' = [state |-> run.state, backend |-> run.backend, parts |-> run.parts, temps |-> run.temps,
              orphans |-> run.orphans, journal |-> run.journal, torn |-> run.torn, groups |-> run.groups,
              database |-> "sealed", segments |-> run.segments, manifest |-> run.manifest]
  BY <1>1 DEF LegacyShape
<1>3. proc' = [at |-> "write", job |-> proc.job, buffer |-> proc.buffer, index |-> 0,
               todo |-> Tables, files |-> {}, committed |-> proc.committed, refused |-> proc.refused]
  <2> DEFINE todo == Tables
  <2> HIDE DEF todo
  <2>1. proc' = [proc EXCEPT !.at = "write", !.todo = todo, !.files = {}, !.index = 0]
    BY <1>1 DEF todo
  <2>2. proc' = [at |-> "write", job |-> proc.job, buffer |-> proc.buffer, index |-> 0,
                 todo |-> todo, files |-> {}, committed |-> proc.committed, refused |-> proc.refused]
    BY <1>1, <2>1 DEF LegacyShape
  <2> QED  BY <2>2 DEF todo
<1>4. Roles(run.backend) = Range(Tables)
  BY <1>1, RolesAre
<1>5. LegacyTypes'
  <2>1. LegacyShape'
    BY <1>2, <1>3 DEF LegacyShape
  <2>2. /\ run'.state = run.state /\ run'.backend = run.backend /\ proc'.buffer = proc.buffer
        /\ proc'.index = 0 /\ proc'.todo = Tables /\ Tables \in Seq(Roles(run.backend))
    BY <1>2, <1>3, <1>4, PlansAre
  <2> QED  BY <1>1, <2>1, <2>2 DEF LegacyTypes
<1>6. KeepsFiles
  BY <1>2 DEF KeepsFiles
<1>7. Groups = 0 /\ Groups' = 0 /\ Unjournaled' = Unjournaled /\ JournalInv'
  BY <1>1, <1>6, JournalIs, FilesStay
<1>8. WritingGroup'
  <2>1. \A f \in Unjournaled : f.index = 0 /\ f.role \in Range(Tables)
    BY <1>1, <1>4 DEF JournalInv, Unjournaled
  <2>2. \A t \in run.temps : t[2] = 0 /\ t[1] \in Range(Tables)
    BY <1>1, <1>4 DEF JournalInv
  <2>3. Tables # <<>> /\ \A i, j \in 1 .. Len(Tables) : i # j => Tables[i] # Tables[j]
    BY PlansAre DEF Injective
  <2>4. RolesIn({}) \cup Range(Tables) = Range(Tables)
    BY DEF RolesIn
  <2>5. ~run.torn
    BY <1>1 DEF JournalInv
  <2>6. /\ proc'.index = 0 /\ proc'.files = {} /\ proc'.todo = Tables /\ proc'.job = proc.job
        /\ run'.torn = run.torn /\ run'.temps = run.temps /\ run'.backend = "sqlite"
        /\ run'.journal = <<>> /\ run'.database = "sealed" /\ run'.parts = run.parts
    BY <1>1, <1>2, <1>3
  <2> QED  BY <1>1, <1>7, <2>1, <2>2, <2>3, <2>4, <2>5, <2>6 DEF WritingGroup
<1>9. AtInv'
  BY <1>1, <1>3, <1>8 DEF AtInv
<1>10. run'.state = "recording"
  BY <1>1, <1>2
<1> QED  BY <1>5, <1>7, <1>9, <1>10 DEF LegacyInv

LEMMA PromotedKeeps == LegacyInv /\ Promoted => LegacyInv'
<1> SUFFICES ASSUME LegacyInv, Promoted PROVE LegacyInv'
  OBVIOUS
<1>1. /\ LegacyTypes /\ LegacyShape /\ AtInv /\ run.state = "recording" /\ JournalInv /\ ~proc.refused
      /\ run.backend = "sqlite" /\ run.journal # <<>> /\ proc.job \in {"close", "recover"}
      /\ run' = run /\ offered' = offered
      /\ proc' = [proc EXCEPT !.at = "segments", !.todo = Tables, !.committed = Range(Tables)]
  BY DEF LegacyInv, LegacyTypes, AtInv, JustPublished, BeforePromotion, Promoted, Known
<1>2. proc' = [at |-> "segments", job |-> proc.job, buffer |-> proc.buffer, index |-> proc.index,
               todo |-> Tables, files |-> proc.files, committed |-> Range(Tables),
               refused |-> proc.refused]
  <2> DEFINE todo == Tables
             all == Range(Tables)
  <2> HIDE DEF todo, all
  <2>1. proc' = [proc EXCEPT !.at = "segments", !.todo = todo, !.committed = all]
    BY <1>1 DEF todo, all
  <2>2. proc' = [at |-> "segments", job |-> proc.job, buffer |-> proc.buffer, index |-> proc.index,
                 todo |-> todo, files |-> proc.files, committed |-> all, refused |-> proc.refused]
    BY <1>1, <2>1 DEF LegacyShape
  <2> QED  BY <2>2 DEF todo, all
<1>3. Roles(run.backend) = Range(Tables)
  BY <1>1, RolesAre
<1>4. LegacyTypes'
  BY <1>1, <1>2, <1>3, PlansAre DEF LegacyTypes, LegacyShape
<1>5. KeepsFiles
  BY <1>1 DEF KeepsFiles
<1>6. ~run.torn /\ Tidy /\ RolesIn(Journaled) = Range(Tables)
  BY <1>1 DEF JournalInv
<1>7. Unjournaled' = {} /\ run'.temps = {} /\ RolesIn(Journaled)' = Range(Tables)
  BY <1>1, <1>5, <1>6, FilesStay DEF Tidy, RolesIn
<1>8. ClosingRun'
  BY <1>1, <1>2, <1>3, <1>6, <1>7 DEF ClosingRun
<1>9. Written(Roles(run.backend) \ Range(proc.todo))'
  BY <1>1, <1>2, <1>3 DEF Written
<1>10. AtInv'
  BY <1>1, <1>2, <1>8, <1>9 DEF AtInv
<1> QED  BY <1>1, <1>4, <1>10, RunSame

-----------------------------------------------------------------------------
(* The manifests. *)

LEMMA WriteManifestKeeps == LegacyInv /\ WriteManifest => LegacyInv'
<1> SUFFICES ASSUME LegacyInv, WriteManifest PROVE LegacyInv'
  OBVIOUS
<1> DEFINE role == Head(proc.todo)
           wrote == Of(role, Journaled)
           status == IF proc.job = "settle" /\ wrote = {} THEN "failed" ELSE "closed"
           segment == [files |-> wrote, status |-> status]
           segments == [r \in DOMAIN run.segments \cup {role} |-> IF r = role THEN segment ELSE run.segments[r]]
           rest == Tail(proc.todo)
<1>1. /\ LegacyTypes /\ LegacyShape /\ AtInv /\ run.state = "recording" /\ JournalInv /\ ~proc.refused
      /\ proc.at = "segments" /\ proc.todo # <<>> /\ ClosingRun /\ Written(Roles(run.backend) \ Range(proc.todo))
      /\ run' = [run EXCEPT !.segments = segments] /\ offered' = offered
      /\ proc' = [proc EXCEPT !.todo = rest] /\ proc.todo \in Seq(Roles(run.backend))
  BY DEF LegacyInv, LegacyTypes, AtInv, WriteManifest, Known
<1>2. role \in DOMAIN segments /\ segments[role].files = wrote /\ segments[role].status = status
  OBVIOUS
<1>3. \A r \in DOMAIN run.segments \ {role} : r \in DOMAIN segments /\ segments[r] = run.segments[r]
  OBVIOUS
<1> HIDE DEF segments
<1>4. status = "closed" <=> (proc.job = "settle" => wrote # {})
  OBVIOUS
<1> HIDE DEF status, segment, role, rest
<1>5. run' = [state |-> run.state, backend |-> run.backend, parts |-> run.parts, temps |-> run.temps,
              orphans |-> run.orphans, journal |-> run.journal, torn |-> run.torn, groups |-> run.groups,
              database |-> run.database, segments |-> segments, manifest |-> run.manifest]
  BY <1>1 DEF LegacyShape
<1>6. proc' = [at |-> "segments", job |-> proc.job, buffer |-> proc.buffer, index |-> proc.index,
               todo |-> rest, files |-> proc.files, committed |-> proc.committed, refused |-> proc.refused]
  BY <1>1 DEF LegacyShape
<1>7. rest \in Seq(Roles(run.backend)) /\ Range(proc.todo) \subseteq {role} \cup Range(rest)
  <2>1. ASSUME NEW S, NEW s \in Seq(S), s # <<>>
        PROVE  Tail(s) \in Seq(S) /\ Range(s) \subseteq {Head(s)} \cup Range(Tail(s))
    BY <2>1, FirstIs
  <2> QED  BY <1>1, <2>1 DEF role, rest
<1>8. LegacyTypes'
  BY <1>1, <1>5, <1>6, <1>7 DEF LegacyTypes, LegacyShape
<1>9. KeepsFiles
  BY <1>5 DEF KeepsFiles
<1>10. /\ Journaled' = Journaled /\ Unjournaled' = Unjournaled /\ Groups' = Groups
       /\ RolesIn(Journaled)' = RolesIn(Journaled) /\ JournalInv'
  BY <1>1, <1>9, FilesStay DEF RolesIn
<1>11. ClosingRun'
  BY <1>1, <1>5, <1>6, <1>10 DEF ClosingRun
<1>12. Written(Roles(run.backend) \ Range(proc.todo))'
  <2> SUFFICES ASSUME NEW r \in Roles(run.backend) \ Range(rest)
               PROVE  /\ r \in DOMAIN segments /\ segments[r].files = Of(r, Journaled)
                      /\ segments[r].status = "closed" <=> (proc.job = "settle" => Of(r, Journaled) # {})
    BY <1>5, <1>6, <1>10 DEF Written, Of
  <2>1. CASE r = role
    BY <1>2, <1>4, <2>1
  <2>2. CASE r # role
    <3>1. r \in Roles(run.backend) \ Range(proc.todo)
      BY <1>7, <2>2
    <3> QED  BY <1>1, <1>3, <2>2, <3>1 DEF Written
  <2> QED  BY <2>1, <2>2
<1>13. AtInv'
  BY <1>1, <1>6, <1>11, <1>12 DEF AtInv
<1>14. run'.state = "recording"
  BY <1>1, <1>5
<1> QED  BY <1>8, <1>10, <1>13, <1>14 DEF LegacyInv

\* What a closing run says of itself passes the validator when no temporary file is left.
LEMMA ClosingValidates ==
  ASSUME LegacyTypes, JournalInv, ClosingRun, proc.job # "recover", Written(Roles(run.backend)), run.temps = {}
  PROVE  Validates(Candidate)
<1> DEFINE m == Candidate
           closed == RolesIn(Journaled)
<1>1. /\ Groups \in Nat /\ (run.journal = <<>> <=> Groups = 0) /\ Journaled \subseteq run.parts
      /\ (\A f : f \in Journaled <=> \E i \in 1 .. Groups : f \in run.journal[i].files)
      /\ proc.job \in {"close", "settle"} /\ run.backend \in {"parquet", "sqlite"}
  BY JournalIs DEF ClosingRun, LegacyTypes
<1>2. closed \subseteq Roles(run.backend)
  BY <1>1 DEF JournalInv, RolesIn
<1>3. proc.job = "close" =>
        m = [closed |-> closed, verdict |-> "complete", groups |-> Groups] /\ closed = Roles(run.backend)
  <2> SUFFICES ASSUME proc.job = "close"
               PROVE  m = [closed |-> closed, verdict |-> "complete", groups |-> Groups]
                      /\ closed = Roles(run.backend)
    OBVIOUS
  <2>1. closed = Roles(run.backend) /\ proc.committed = closed
    BY DEF ClosingRun
  <2>2. (IF run.backend = "parquet" THEN proc.index ELSE 1) = Groups
    BY <1>1 DEF ClosingRun, JournalInv
  <2> QED  BY <2>1, <2>2 DEF Candidate
<1>4. proc.job = "settle" =>
        m = [closed |-> closed, groups |-> Groups, verdict |-> IF run.journal = <<>> THEN "failed" ELSE "partial"]
  BY DEF Candidate, RolesIn, Groups
<1> HIDE DEF m
<1>5. m.closed = closed /\ m.groups = Groups
  BY <1>1, <1>3, <1>4
<1>6. \A role : Of(role, run.parts) = Of(role, Journaled)
  BY <1>1 DEF ClosingRun, Unjournaled, Of
<1>7. \A role : role \in closed <=> Of(role, Journaled) # {}
  BY DEF RolesIn, Of
<1>8. SegmentsMatch(m)
  <2> SUFFICES ASSUME NEW role \in Roles(run.backend)
               PROVE  /\ role \in DOMAIN run.segments
                      /\ (run.segments[role].status = "closed") <=> (role \in m.closed)
                      /\ role \in m.closed => run.segments[role].files # {}
                      /\ run.segments[role].files = Of(role, run.parts)
                      /\ \A temp \in run.temps : temp[1] # role
    BY DEF SegmentsMatch
  <2>1. /\ role \in DOMAIN run.segments /\ run.segments[role].files = Of(role, Journaled)
        /\ (run.segments[role].status = "closed") <=> (proc.job = "settle" => Of(role, Journaled) # {})
    BY DEF Written
  <2>2. (proc.job = "settle" => Of(role, Journaled) # {}) <=> role \in closed
    BY <1>1, <1>3, <1>7
  <2> HIDE DEF closed
  <2> QED  BY <1>5, <1>6, <1>7, <2>1, <2>2
<1>9. JournalBinds(m)
  <2>1. ~Errors
    BY JournalValid DEF ClosingRun
  <2>2. GroupsCounted(m) /\ RolesJournaled(m)
    BY <1>5 DEF GroupsCounted, RolesJournaled, RolesIn, Groups
  <2>3. FilesJournaled
    BY DEF FilesJournaled, Written
  <2> QED  BY <2>1, <2>2, <2>3 DEF JournalBinds
<1>10. ProfileAgrees(m)
  <2>1. CASE proc.job = "close"
    <3>1. m.verdict = "complete" /\ Range(Tables) \subseteq closed
      BY <1>3, <2>1 DEF Roles
    <3> QED  BY <1>2, <1>5, <3>1 DEF ProfileAgrees, VerdictFollows
  <2>2. CASE proc.job = "settle" /\ run.journal = <<>>
    <3>1. m.verdict = "failed"
      BY <1>4, <2>2
    <3> QED  BY <1>2, <1>5, <3>1 DEF ProfileAgrees, VerdictFollows
  <2>3. CASE proc.job = "settle" /\ run.journal # <<>>
    <3>1. m.verdict = "partial"
      BY <1>4, <2>3
    <3>2. 1 \in 1 .. Groups
      BY <1>1, <2>3
    <3>3. run.journal[1].files # {}
      BY <3>2 DEF JournalInv
    <3>4. Journaled # {}
      BY <1>1, <3>2, <3>3
    <3>5. closed # {}
      BY <3>4 DEF RolesIn
    <3> QED  BY <1>2, <1>5, <3>1, <3>5 DEF ProfileAgrees, VerdictFollows
  <2> QED  BY <1>1, <2>1, <2>2, <2>3
<1> QED  BY <1>8, <1>9, <1>10 DEF Validates, m

\* The validator reads the directory and the manifests, nothing else.
LEMMA ValidStays ==
  ASSUME KeepsFiles, run'.segments = run.segments, NEW m, Validates(m), run'.manifest = m
  PROVE  Validates(run.manifest)'
<1>1. Journaled' = Journaled
  BY FilesStay
<1>2. Errors' = Errors
  BY DEF KeepsFiles, Errors, Accepted
<1>3. SegmentsMatch(run.manifest)'
  BY DEF KeepsFiles, Validates, SegmentsMatch, Of, Roles
<1>4. JournalBinds(run.manifest)'
  BY <1>1, <1>2 DEF KeepsFiles, Validates, JournalBinds, GroupsCounted, RolesJournaled, FilesJournaled, Of, Roles
<1>5. ProfileAgrees(run.manifest)'
  BY DEF KeepsFiles, Validates, ProfileAgrees, VerdictFollows, Roles
<1> QED  BY <1>3, <1>4, <1>5 DEF Validates

LEMMA SegmentsDoneKeeps == LegacyInv /\ SegmentsDone => LegacyInv'
<1> SUFFICES ASSUME LegacyInv, SegmentsDone PROVE LegacyInv'
  OBVIOUS
<1> DEFINE database == IF run.backend = "sqlite" /\ proc.job # "settle" THEN "promoted" ELSE run.database
           at == IF proc.job = "recover" THEN "examine" ELSE "manifest"
<1>1. /\ LegacyTypes /\ LegacyShape /\ AtInv /\ run.state = "recording" /\ JournalInv /\ ~proc.refused
      /\ proc.todo = <<>> /\ ClosingRun /\ Written(Roles(run.backend) \ Range(proc.todo))
      /\ run' = [run EXCEPT !.database = database] /\ offered' = offered /\ proc' = [proc EXCEPT !.at = at]
  BY DEF LegacyInv, LegacyTypes, AtInv, SegmentsDone, Known
<1>2. at \in {"examine", "manifest"} /\ (at = "examine" <=> proc.job = "recover")
  OBVIOUS
<1> HIDE DEF database, at
<1>3. run' = [state |-> run.state, backend |-> run.backend, parts |-> run.parts, temps |-> run.temps,
              orphans |-> run.orphans, journal |-> run.journal, torn |-> run.torn, groups |-> run.groups,
              database |-> database, segments |-> run.segments, manifest |-> run.manifest]
  BY <1>1 DEF LegacyShape
<1>4. proc' = [at |-> at, job |-> proc.job, buffer |-> proc.buffer, index |-> proc.index,
               todo |-> proc.todo, files |-> proc.files, committed |-> proc.committed,
               refused |-> proc.refused]
  BY <1>1 DEF LegacyShape
<1>5. LegacyTypes'
  BY <1>1, <1>3, <1>4 DEF LegacyTypes, LegacyShape
<1>6. KeepsFiles
  BY <1>3 DEF KeepsFiles
<1>7. /\ Journaled' = Journaled /\ Unjournaled' = Unjournaled /\ Groups' = Groups
      /\ RolesIn(Journaled)' = RolesIn(Journaled) /\ JournalInv'
  BY <1>1, <1>6, FilesStay DEF RolesIn
<1>8. ClosingRun'
  BY <1>1, <1>3, <1>4, <1>7 DEF ClosingRun
<1>9. Written(Roles(run.backend))'
  <2>1. Written(Roles(run.backend))
    BY <1>1, EmptyRange DEF Written
  <2> QED  BY <1>3, <1>4, <1>7, <2>1 DEF Written, Of, Roles
<1>10. AtInv'
  <2>1. proc.job = "recover" => run.backend = "sqlite" /\ run.journal # <<>>
    BY <1>1 DEF ClosingRun
  <2>2. proc'.at = at /\ proc'.job = proc.job /\ proc'.refused = proc.refused
        /\ run'.backend = run.backend /\ run'.journal = run.journal
    BY <1>3, <1>4
  <2> QED  BY <1>1, <1>2, <1>8, <1>9, <2>1, <2>2 DEF AtInv
<1>11. run'.state = "recording"
  BY <1>1, <1>3
<1> QED  BY <1>5, <1>7, <1>10, <1>11 DEF LegacyInv

LEMMA WriteRunManifestKeeps == LegacyInv /\ WriteRunManifest => LegacyInv'
<1> SUFFICES ASSUME LegacyInv, WriteRunManifest PROVE LegacyInv'
  OBVIOUS
<1>1. /\ LegacyTypes /\ LegacyShape /\ AtInv /\ run.state = "recording" /\ JournalInv /\ ~proc.refused
      /\ ClosingRun /\ proc.job # "recover" /\ Written(Roles(run.backend))
      /\ run' = [run EXCEPT !.manifest = Candidate] /\ offered' = offered
      /\ proc' = [proc EXCEPT !.at = "finalize"] /\ (proc.job = "settle" => Validates(Candidate))
  BY DEF LegacyInv, LegacyTypes, AtInv, WriteRunManifest, Known
<1>2. Validates(Candidate)
  <2>1. proc.job = "close" => run.temps = {}
    BY <1>1 DEF ClosingRun
  <2>2. proc.job \in {"close", "settle"}
    BY <1>1 DEF ClosingRun
  <2> QED  BY <1>1, <2>1, <2>2, ClosingValidates
<1>3. PICK m : m = Candidate
  OBVIOUS
<1>4. run' = [state |-> run.state, backend |-> run.backend, parts |-> run.parts, temps |-> run.temps,
              orphans |-> run.orphans, journal |-> run.journal, torn |-> run.torn, groups |-> run.groups,
              database |-> run.database, segments |-> run.segments, manifest |-> m]
  <2>1. run' = [run EXCEPT !.manifest = m]
    BY <1>1, <1>3
  <2> QED  BY <1>1, <2>1 DEF LegacyShape
<1>5. proc' = [at |-> "finalize", job |-> proc.job, buffer |-> proc.buffer, index |-> proc.index,
               todo |-> proc.todo, files |-> proc.files, committed |-> proc.committed,
               refused |-> proc.refused]
  BY <1>1 DEF LegacyShape
<1>6. LegacyTypes'
  BY <1>1, <1>4, <1>5 DEF LegacyTypes, LegacyShape
<1>7. KeepsFiles /\ run'.segments = run.segments /\ run'.manifest = m
  BY <1>4 DEF KeepsFiles
<1>8. Validates(m)
  BY <1>2, <1>3
<1>9. Validates(run.manifest)'
  BY <1>7, <1>8, ValidStays
<1>10. AtInv'
  BY <1>1, <1>5, <1>9 DEF AtInv
<1>11. JournalInv' /\ run'.state = "recording"
  BY <1>1, <1>4, <1>7, FilesStay
<1> QED  BY <1>6, <1>10, <1>11 DEF LegacyInv

RunShape ==
  run = [state |-> run.state, backend |-> run.backend, parts |-> run.parts, temps |-> run.temps,
         orphans |-> run.orphans, journal |-> run.journal, torn |-> run.torn, groups |-> run.groups,
         database |-> run.database, segments |-> run.segments, manifest |-> run.manifest]

\* A process ends.
LEMMA StopTypes ==
  ASSUME LegacyTypes, proc' = Idle, offered' = offered, RunShape', run'.backend = run.backend,
         run'.state \in {"recording", "finalized"}
  PROVE  LegacyTypes'
<1>1. proc' = [at |-> "none", job |-> "capture", buffer |-> NoRows, index |-> 0, todo |-> <<>>, files |-> {},
               committed |-> {}, refused |-> FALSE]
  BY DEF Idle
<1>2. LegacyShape'
  BY <1>1 DEF LegacyShape, RunShape
<1>3. proc'.buffer = NoRows /\ proc'.index = 0 /\ proc'.todo = <<>>
  BY <1>1
<1>4. proc'.buffer \in Buffers /\ proc'.todo \in Seq(Roles(run.backend))
  BY <1>3, EmptyBuffer, EmptySeq
<1> QED  BY <1>2, <1>3, <1>4 DEF LegacyTypes

LEMMA MarkFinalizedKeeps == LegacyInv /\ MarkFinalized => LegacyInv'
<1> SUFFICES ASSUME LegacyInv, MarkFinalized PROVE LegacyInv'
  OBVIOUS
<1>1. /\ LegacyTypes /\ LegacyShape /\ JournalInv /\ Validates(run.manifest)
      /\ run' = [run EXCEPT !.state = "finalized"] /\ proc' = Idle /\ offered' = offered
  BY DEF LegacyInv, LegacyTypes, AtInv, MarkFinalized, Known
<1>2. run' = [state |-> "finalized", backend |-> run.backend, parts |-> run.parts, temps |-> run.temps,
              orphans |-> run.orphans, journal |-> run.journal, torn |-> run.torn, groups |-> run.groups,
              database |-> run.database, segments |-> run.segments, manifest |-> run.manifest]
  BY <1>1 DEF LegacyShape
<1>3. proc'.at = "none"
  BY <1>1 DEF Idle
<1>4. LegacyTypes'
  <2>1. run'.state = "finalized" /\ run'.backend = run.backend
    BY <1>2
  <2>2. RunShape'
    BY <1>2 DEF RunShape
  <2> QED  BY <1>1, <2>1, <2>2, StopTypes
<1>5. PICK m : m = run.manifest
  OBVIOUS
<1>6. KeepsFiles /\ run'.segments = run.segments /\ run'.manifest = m /\ Validates(m)
  BY <1>1, <1>2, <1>5 DEF KeepsFiles
<1>7. Validates(run.manifest)'
  BY <1>6, ValidStays
<1>8. JournalInv' /\ run'.state = "finalized" /\ proc'.at = "none"
  BY <1>1, <1>2, <1>3, <1>6, FilesStay
<1> QED  BY <1>4, <1>7, <1>8 DEF LegacyInv

-----------------------------------------------------------------------------
(* Processes end, and recovery. *)

LEMMA Ends ==
  ASSUME LegacyInv, run' = run, offered' = offered, proc' = Idle, run.state = "recording"
  PROVE  LegacyInv'
<1>1. LegacyTypes /\ RunShape'
  BY DEF LegacyInv, LegacyTypes, LegacyShape, RunShape
<1>2. LegacyTypes'
  BY <1>1, StopTypes
<1>3. proc'.at = "none"
  BY DEF Idle
<1> QED  BY <1>2, <1>3, RunSame

LEMMA DiesKeeps == LegacyInv /\ Dies => LegacyInv'
<1> SUFFICES ASSUME LegacyInv, Dies PROVE LegacyInv'
  OBVIOUS
<1>1. /\ LegacyTypes /\ LegacyShape /\ AtInv /\ run.state = "recording" /\ JournalInv
      /\ proc' = Idle /\ offered' = offered
  BY DEF LegacyInv, LegacyTypes, Dies
<1>2. proc'.at = "none"
  BY <1>1 DEF Idle
<1>3. CASE run' = run
  BY <1>1, <1>3, Ends
<1>4. CASE LeavesTemp
  <2> DEFINE left == <<Head(proc.todo), proc.index>>
             temps == run.temps \cup {left}
  <2>1. proc.at = "write" /\ proc.todo # <<>> /\ run' = [run EXCEPT !.temps = temps]
    BY <1>4 DEF LeavesTemp
  <2>2. WritingGroup /\ proc.index \in Nat /\ Groups \in Nat /\ (run.backend = "sqlite" => Groups = 0)
    BY <1>1, <2>1, JournalIs DEF AtInv, WritingGroup, LegacyTypes
  <2>3. left \in Roles(run.backend) \X Nat /\ left[2] = Groups
    <3>1. Head(proc.todo) \in Roles(run.backend)
      <4>1. proc.todo \in Seq(Roles(run.backend))
        BY <1>1 DEF LegacyTypes
      <4> QED  BY <2>1, <4>1, FirstIs
    <3> QED  BY <2>2, <3>1 DEF WritingGroup
  <2> HIDE DEF left
  <2>4. temps = run.temps \cup {left}
    OBVIOUS
  <2> HIDE DEF temps
  <2>5. run' = [state |-> run.state, backend |-> run.backend, parts |-> run.parts, temps |-> temps,
                orphans |-> run.orphans, journal |-> run.journal, torn |-> run.torn, groups |-> run.groups,
                database |-> run.database, segments |-> run.segments, manifest |-> run.manifest]
    BY <1>1, <2>1 DEF LegacyShape
  <2>6. LegacyTypes'
    <3>1. RunShape' /\ run'.backend = run.backend /\ run'.state = "recording"
      BY <1>1, <2>5 DEF RunShape
    <3> QED  BY <1>1, <3>1, StopTypes
  <2>7. Groups' = Groups /\ (run.backend = "sqlite" => run.journal = <<>>)
    BY <2>2, <2>5 DEF Groups, WritingGroup
  <2>8. JournalInv'
    BY <1>1, <2>2, <2>3, <2>4, <2>5, <2>7 DEF JournalInv
  <2> QED  BY <1>1, <1>2, <2>5, <2>6, <2>8 DEF LegacyInv
<1>5. CASE run.backend = "parquet" /\ run' = [run EXCEPT !.torn = TRUE]
  <2>1. run' = [state |-> run.state, backend |-> run.backend, parts |-> run.parts, temps |-> run.temps,
                orphans |-> run.orphans, journal |-> run.journal, torn |-> TRUE, groups |-> run.groups,
                database |-> run.database, segments |-> run.segments, manifest |-> run.manifest]
    BY <1>1, <1>5 DEF LegacyShape
  <2>2. LegacyTypes'
    <3>1. RunShape' /\ run'.backend = run.backend /\ run'.state = "recording"
      BY <1>1, <2>1 DEF RunShape
    <3> QED  BY <1>1, <3>1, StopTypes
  <2>3. Groups' = Groups
    BY <2>1 DEF Groups
  <2>4. JournalInv'
    BY <1>1, <1>5, <2>1, <2>3 DEF JournalInv
  <2> QED  BY <1>1, <1>2, <2>1, <2>2, <2>4 DEF LegacyInv
<1> QED  BY <1>3, <1>4, <1>5 DEF Dies

LEMMA RefusalsKeep == LegacyInv /\ (Refuse \/ RefuseManifest) => LegacyInv'
<1> SUFFICES ASSUME LegacyInv, Refuse \/ RefuseManifest PROVE LegacyInv'
  OBVIOUS
<1>1. run' = run /\ offered' = offered /\ proc' = Idle /\ run.state = "recording"
  BY DEF Refuse, RefuseManifest, Known, LegacyInv
<1> QED  BY <1>1, Ends

LEMMA RecoverKeeps == LegacyInv /\ Recover => LegacyInv'
<1> SUFFICES ASSUME LegacyInv, Recover PROVE LegacyInv'
  OBVIOUS
<1> DEFINE p == [Idle EXCEPT !.job = "recover"]
<1>1. /\ LegacyTypes /\ LegacyShape /\ JournalInv /\ run.state = "recording" /\ run' = run /\ offered' = offered
      /\ run.backend \in {"parquet", "sqlite"}
  BY DEF LegacyInv, LegacyTypes, Recover, Known
<1>2. p = [at |-> "none", job |-> "recover", buffer |-> NoRows, index |-> 0, todo |-> <<>>, files |-> {},
           committed |-> {}, refused |-> FALSE]
  <2> DEFINE idle == Idle
  <2>1. idle = [at |-> "none", job |-> "capture", buffer |-> NoRows, index |-> 0, todo |-> <<>>, files |-> {},
                committed |-> {}, refused |-> FALSE]
    BY DEF Idle
  <2>2. p = [idle EXCEPT !.job = "recover"]
    OBVIOUS
  <2> HIDE DEF idle, p
  <2> QED  BY <2>1, <2>2
<1>3. NoRows \in Buffers /\ <<>> \in Seq(Roles(run.backend))
  BY EmptyBuffer, EmptySeq
<1>4. KeepsFiles
  BY <1>1 DEF KeepsFiles
<1>5. CASE run.backend = "sqlite" /\ run.journal # <<>> /\ ~(Range(Tables) \subseteq DOMAIN run.segments)
  <2>1. proc' = [p EXCEPT !.at = "segments", !.todo = Tables]
    BY <1>5 DEF Recover
  <2>2. proc' = [at |-> "segments", job |-> "recover", buffer |-> NoRows, index |-> 0, todo |-> Tables, files |-> {},
                 committed |-> {}, refused |-> FALSE]
    <3> DEFINE todo == Tables
    <3> HIDE DEF todo, p
    <3>1. proc' = [p EXCEPT !.at = "segments", !.todo = todo]
      BY <2>1 DEF todo
    <3>2. proc' = [at |-> "segments", job |-> "recover", buffer |-> NoRows, index |-> 0, todo |-> todo, files |-> {},
                   committed |-> {}, refused |-> FALSE]
      BY <1>2, <3>1
    <3> QED  BY <3>2 DEF todo
  <2>3. Roles(run.backend) = Range(Tables)
    BY <1>5, RolesAre
  <2>4. LegacyTypes'
    <3>1. LegacyShape'
      BY <1>1, <2>2 DEF LegacyShape
    <3>2. /\ proc'.buffer = NoRows /\ proc'.index = 0 /\ proc'.todo = Tables /\ Tables \in Seq(Roles(run.backend))
      BY <2>2, <2>3, PlansAre
    <3> QED  BY <1>1, <1>3, <3>1, <3>2 DEF LegacyTypes
  <2>5. ~run.torn /\ Unjournaled = {} /\ Unjournaled' = {}
    BY <1>1, <1>4, <1>5, FilesStay DEF JournalInv, Tidy
  <2>6. ClosingRun'
    BY <1>1, <1>5, <2>2, <2>5 DEF ClosingRun
  <2>7. Written(Roles(run.backend) \ Range(proc.todo))'
    BY <1>1, <2>2, <2>3 DEF Written
  <2>8. AtInv'
    BY <2>2, <2>6, <2>7 DEF AtInv
  <2> QED  BY <1>1, <2>4, <2>8, RunSame
<1>6. ASSUME NEW at \in {"seal", "examine"}, proc' = [p EXCEPT !.at = at],
             at = "seal" => run.backend = "sqlite" /\ run.journal = <<>>,
             at = "examine" => (run.backend = "sqlite" => run.journal # <<>>)
      PROVE  LegacyInv'
  <2>1. proc' = [at |-> at, job |-> "recover", buffer |-> NoRows, index |-> 0, todo |-> <<>>, files |-> {},
                 committed |-> {}, refused |-> FALSE]
    <3> HIDE DEF p
    <3> QED  BY <1>2, <1>6
  <2>2. LegacyTypes'
    <3>1. LegacyShape'
      BY <1>1, <2>1 DEF LegacyShape
    <3>2. proc'.buffer = NoRows /\ proc'.index = 0 /\ proc'.todo = <<>>
      BY <2>1
    <3> QED  BY <1>1, <1>3, <3>1, <3>2 DEF LegacyTypes
  <2>3. CASE at = "seal"
    <3>1. proc'.at = "seal" /\ proc'.job = "recover" /\ ~proc'.refused
      BY <2>1, <2>3
    <3> HIDE DEF p
    <3>2. run'.backend = "sqlite" /\ run'.journal = <<>>
      BY <1>1, <1>6, <2>3
    <3>3. AtInv'
      BY <3>1, <3>2 DEF AtInv
    <3> QED  BY <1>1, <2>2, <3>3, RunSame
  <2>4. CASE at = "examine"
    <3>1. proc'.at = "examine" /\ proc'.job = "recover" /\ ~proc'.refused
      BY <2>1, <2>4
    <3> HIDE DEF p
    <3>2. run'.backend = "sqlite" => run'.journal # <<>>
      BY <1>1, <1>6, <2>4
    <3>3. AtInv'
      BY <3>1, <3>2 DEF AtInv
    <3> QED  BY <1>1, <2>2, <3>3, RunSame
  <2> QED  BY <2>3, <2>4
<1>7. CASE run.backend = "sqlite" /\ run.journal = <<>>
  <2>1. proc' = [p EXCEPT !.at = "seal"]
    BY <1>7 DEF Recover
  <2> HIDE DEF p
  <2> QED  BY <1>6, <1>7, <2>1
<1>8. CASE /\ ~(run.backend = "sqlite" /\ run.journal = <<>>)
           /\ ~(run.backend = "sqlite" /\ run.journal # <<>> /\ ~(Range(Tables) \subseteq DOMAIN run.segments))
  <2>1. proc' = [p EXCEPT !.at = "examine"]
    BY <1>8 DEF Recover
  <2> HIDE DEF p
  <2> QED  BY <1>6, <1>8, <2>1
<1> QED  BY <1>5, <1>7, <1>8

LEMMA MoveOrphanKeeps == LegacyInv /\ MoveOrphan => LegacyInv'
<1> SUFFICES ASSUME LegacyInv, MoveOrphan PROVE LegacyInv'
  OBVIOUS
<1>1. /\ LegacyTypes /\ LegacyShape /\ AtInv /\ run.state = "recording" /\ JournalInv /\ ~proc.refused
      /\ proc.at = "examine" /\ proc.job = "recover" /\ (run.backend = "sqlite" => run.journal # <<>>)
      /\ proc' = proc /\ offered' = offered
  BY DEF LegacyInv, LegacyTypes, AtInv, MoveOrphan, Known
<1>2. PICK part \in Unjournaled : run' = [run EXCEPT !.parts = @ \ {part}, !.orphans = @ \cup {part}]
  BY DEF MoveOrphan
<1> DEFINE parts == run.parts \ {part}
           orphans == run.orphans \cup {part}
<1> HIDE DEF parts, orphans
<1>3. run' = [state |-> run.state, backend |-> run.backend, parts |-> parts, temps |-> run.temps,
              orphans |-> orphans, journal |-> run.journal, torn |-> run.torn, groups |-> run.groups,
              database |-> run.database, segments |-> run.segments, manifest |-> run.manifest]
  <2>1. run' = [run EXCEPT !.parts = parts, !.orphans = orphans]
    BY <1>2 DEF parts, orphans
  <2> QED  BY <1>1, <2>1 DEF LegacyShape
<1>4. LegacyTypes'
  BY <1>1, <1>3 DEF LegacyTypes, LegacyShape
<1>5. run.backend # "sqlite"
  BY <1>1, <1>2 DEF JournalInv, Tidy
<1>6. \A i \in 1 .. Groups : run.journal[i].files \subseteq Journaled
  BY <1>1, JournalIs
<1>7. part \notin Journaled /\ Groups' = Groups
  BY <1>2, <1>3 DEF Unjournaled, Groups
<1>8. JournalInv'
  <2>1. \A i \in 1 .. Groups : run.journal[i].files \subseteq parts
    BY <1>1, <1>6, <1>7 DEF JournalInv, parts
  <2>2. \A f \in parts : f.role \in Roles(run.backend)
    BY <1>1 DEF JournalInv, parts
  <2> QED  BY <1>1, <1>3, <1>5, <1>7, <2>1, <2>2 DEF JournalInv
<1>9. AtInv'
  BY <1>1, <1>3 DEF AtInv
<1>10. run'.state = "recording"
  BY <1>1, <1>3
<1> QED  BY <1>4, <1>8, <1>9, <1>10 DEF LegacyInv

LEMMA OrphansMovedKeeps == LegacyInv /\ OrphansMoved => LegacyInv'
<1> SUFFICES ASSUME LegacyInv, OrphansMoved PROVE LegacyInv'
  OBVIOUS
<1> DEFINE todo == IF run.backend = "sqlite" THEN Tables ELSE Append(Tables, Raw)
<1>1. /\ LegacyTypes /\ LegacyShape /\ AtInv /\ run.state = "recording" /\ JournalInv /\ ~proc.refused
      /\ (run.backend = "sqlite" => run.journal # <<>>) /\ ~run.torn /\ Unjournaled = {}
      /\ run.backend \in {"parquet", "sqlite"} /\ run' = run /\ offered' = offered
      /\ proc' = [proc EXCEPT !.at = "segments", !.job = "settle", !.todo = todo]
  BY DEF LegacyInv, LegacyTypes, AtInv, OrphansMoved, Known, Errors
<1>2. todo \in Seq(Roles(run.backend)) /\ Range(todo) = Roles(run.backend)
  <2>1. CASE run.backend = "sqlite"
    BY <2>1, PlansAre, RolesAre
  <2>2. CASE run.backend = "parquet"
    BY <2>2, PlansAre
  <2> QED  BY <1>1, <2>1, <2>2
<1> HIDE DEF todo
<1>3. proc' = [at |-> "segments", job |-> "settle", buffer |-> proc.buffer, index |-> proc.index,
               todo |-> todo, files |-> proc.files, committed |-> proc.committed,
               refused |-> proc.refused]
  BY <1>1 DEF LegacyShape
<1>4. LegacyTypes'
  BY <1>1, <1>2, <1>3 DEF LegacyTypes, LegacyShape
<1>5. KeepsFiles
  BY <1>1 DEF KeepsFiles
<1>6. Unjournaled' = {}
  BY <1>1, <1>5, FilesStay
<1>7. ClosingRun'
  BY <1>1, <1>3, <1>6 DEF ClosingRun
<1>8. Written(Roles(run.backend) \ Range(proc.todo))'
  BY <1>1, <1>2, <1>3 DEF Written
<1>9. AtInv'
  BY <1>1, <1>3, <1>7, <1>8 DEF AtInv
<1> QED  BY <1>1, <1>4, <1>9, RunSame

-----------------------------------------------------------------------------
(* The theorem. *)

LEMMA LegacySteps == LegacyInv /\ [LegacyNext]_legacyVars => LegacyInv'
<1> SUFFICES ASSUME LegacyInv, [LegacyNext]_legacyVars PROVE LegacyInv'
  OBVIOUS
<1>1. CASE UNCHANGED legacyVars
  <2>1. run' = run /\ proc' = proc /\ offered' = offered
    BY <1>1 DEF legacyVars
  <2>2. KeepsFiles
    BY <2>1 DEF KeepsFiles
  <2>3. /\ Journaled' = Journaled /\ Unjournaled' = Unjournaled /\ Groups' = Groups /\ Tidy' = Tidy /\ JournalInv'
    BY <2>2, FilesStay DEF LegacyInv
  <2>4. LegacyTypes'
    BY <2>1 DEF LegacyInv, LegacyTypes, LegacyShape
  <2>5. PICK m : m = run.manifest
    OBVIOUS
  <2>6. Validates(run.manifest) => Validates(run.manifest)'
    <3>1. run'.segments = run.segments /\ run'.manifest = m
      BY <2>1, <2>5
    <3> QED  BY <2>2, <2>5, <3>1, ValidStays
  <2>7. AtInv => AtInv'
    <3>1. BetweenGroups => BetweenGroups'
      BY <2>1, <2>3 DEF BetweenGroups, Owing, RolesIn
    <3>2. BeforePromotion => BeforePromotion'
      BY <2>1, <2>3 DEF BeforePromotion
    <3>3. WritingGroup => WritingGroup'
      BY <2>1, <2>3 DEF WritingGroup, RolesIn
    <3>4. JustPublished => JustPublished'
      BY <2>1, <2>3, <3>2 DEF JustPublished, RolesIn
    <3>5. ClosingRun => ClosingRun'
      BY <2>1, <2>3 DEF ClosingRun, RolesIn
    <3>6. /\ Written(Roles(run.backend) \ Range(proc.todo)) => Written(Roles(run.backend) \ Range(proc.todo))'
          /\ Written(Roles(run.backend)) => Written(Roles(run.backend))'
      BY <2>1, <2>3 DEF Written, Of
    <3> QED  BY <2>1, <2>6, <3>1, <3>2, <3>3, <3>4, <3>5, <3>6 DEF AtInv
  <2> QED  BY <2>1, <2>3, <2>4, <2>6, <2>7 DEF LegacyInv
<1>2. CASE LegacyNext
  <2>1. ASSUME NEW backend \in {"parquet", "sqlite"}, Open(backend) PROVE LegacyInv'
    BY <2>1, OpenKeeps
  <2>2. ASSUME NEW role \in Range(Tables), Add(role) PROVE LegacyInv'
    BY <2>2, AddKeeps
  <2>3. CASE Commit \/ WriteSegment \/ Publish \/ Transaction \/ Returns
    BY <2>3, CommitKeeps, WriteKeeps, PublishKeeps, TransactionKeeps, ReturnsKeeps
  <2>4. CASE Raises \/ RaisesLate \/ Retry \/ Close \/ Seal \/ Promoted
    BY <2>4, RaisesKeeps, RaisesLateKeeps, RetryKeeps, CloseKeeps, SealKeeps, PromotedKeeps
  <2>5. CASE WriteManifest \/ SegmentsDone \/ WriteRunManifest \/ RefuseManifest \/ MarkFinalized
    BY <2>5, WriteManifestKeeps, SegmentsDoneKeeps, WriteRunManifestKeeps, RefusalsKeep, MarkFinalizedKeeps
  <2>6. CASE Dies \/ Recover \/ Refuse \/ MoveOrphan \/ OrphansMoved
    BY <2>6, DiesKeeps, RecoverKeeps, RefusalsKeep, MoveOrphanKeeps, OrphansMovedKeeps
  <2> QED  BY <1>2, <2>1, <2>2, <2>3, <2>4, <2>5, <2>6 DEF LegacyNext
<1> QED  BY <1>1, <1>2

LEMMA LegacyTold == LegacyInv => FinalizedIsWhole
<1> SUFFICES ASSUME LegacyInv PROVE FinalizedIsWhole
  OBVIOUS
<1>1. run.state = "finalized" => Validates(run.manifest)
  BY DEF LegacyInv
<1>2. ASSUME proc.at = "manifest" PROVE Validates(Candidate) \/ (run.backend = "parquet" /\ run.temps # {})
  <2>1. /\ LegacyTypes /\ JournalInv /\ ClosingRun /\ proc.job # "recover" /\ Written(Roles(run.backend))
        /\ run.backend \in {"parquet", "sqlite"}
    BY <1>2 DEF LegacyInv, AtInv, LegacyTypes
  <2>2. run.backend = "sqlite" => run.temps = {}
    BY <2>1 DEF ClosingRun, JournalInv, Tidy
  <2>3. CASE run.temps = {}
    BY <2>1, <2>3, ClosingValidates
  <2> QED  BY <2>1, <2>2, <2>3
<1> QED  BY <1>1, <1>2 DEF FinalizedIsWhole

LEMMA LegacyBegins == Init => LegacyInit
  BY DEF Init

LEMMA LegacyGoes == [Next]_commandVars => [LegacyNext]_legacyVars
  BY DEF commandVars, Next, Capture, RunJobs, ResolveMarkets, SuperviseShard,
    ReadVenue, ReplayTape, UseRun, IngestMarkets, PollVenue, OpenCatalog,
    ObserveShard, EmitQuotes, StreamDatasets, ResolveBatch, PlanFeed, ReadSocket,
    legacyVars

(***************************************************************************)
(* A run whose state says finalized passes the validator its readers and   *)
(* its archiver apply, whichever process closed it and after however many  *)
(* failed commits, deaths and recoveries; and a run that is about to write *)
(* its manifest would pass, or a Parquet segment was being written when    *)
(* the capture died and its temporary file is still there; for any number  *)
(* of rows and deaths (durability.py, sqlite_durability.py, recovery.py).  *)
(***************************************************************************)
THEOREM FinalizedRunsAreWhole == Spec => []FinalizedIsWhole
<1>1. Init => LegacyInv
  BY LegacyBegins, LegacyStarts
<1>2. LegacyInv /\ [Next]_commandVars => LegacyInv'
  BY LegacyGoes, LegacySteps
<1> QED  BY <1>1, <1>2, LegacyTold, PTL DEF Spec

-----------------------------------------------------------------------------
(* Sequences of sequences, joined.  FlattenSeq is a recursive function:     *)
(* what it computes is shown by the least length at which it would be       *)
(* false.                                                                   *)

LEMMA Least == ASSUME NEW T, T \subseteq Nat, T # {} PROVE \E n \in T : \A m \in T : n <= m
<1> DEFINE R == OpToRel(<, Nat)
<1>1. \A x, y \in Nat : y < x => <<y, x>> \in R
  BY DEF OpToRel
<1>2. IsWellFoundedOn(R, Nat)
  BY NatLessThanWellFounded
<1> HIDE DEF R
<1>3. PICK x \in T : \A y \in T : <<y, x>> \notin R
  BY <1>2, WFMin
<1>4. ASSUME NEW y \in T PROVE x <= y
  <2>1. x \in Nat /\ y \in Nat /\ ~(y < x)
    BY <1>1, <1>3
  <2> QED  BY <2>1
<1> QED  BY <1>4

\* What holds of 0 and passes from each number to the next one holds of all.
LEMMA Upward == ASSUME NEW T, 0 \in T, \A n \in Nat : n \in T => n + 1 \in T PROVE Nat \subseteq T
<1> DEFINE Out == Nat \ T
<1> SUFFICES ASSUME Out # {} PROVE FALSE
  OBVIOUS
<1>1. PICK n \in Out : \A m \in Out : n <= m
  BY Least
<1>2. n # 0 /\ n \in Nat
  BY <1>1
<1>3. n - 1 \in Nat /\ n - 1 \notin Out
  BY <1>1, <1>2
<1>4. (n - 1) + 1 \in T
  BY <1>3
<1> QED  BY <1>1, <1>2, <1>4

\* The pieces of a sequence of sequences joined up to each of them, as FlattenSeq computes them.
Joins(s, f) == f = [i \in 1 .. Len(s) |-> IF i = 1 THEN s[i] ELSE f[i - 1] \o s[i]]

LEMMA JoinsExists == ASSUME NEW S, NEW s \in Seq(Seq(S)) PROVE \E f : Joins(s, f)
<1> DEFINE Upto(f, n) == f = [i \in 1 .. n |-> IF i = 1 THEN s[i] ELSE f[i - 1] \o s[i]]
           T == {n \in Nat : \E f : Upto(f, n)}
<1>1. 0 \in T
  <2>1. PICK f : f = [i \in 1 .. 0 |-> 0]
    OBVIOUS
  <2>2. Upto(f, 0)
    BY <2>1
  <2> QED  BY <2>2
<1>2. ASSUME NEW n \in Nat, n \in T PROVE n + 1 \in T
  <2>1. PICK f : Upto(f, n)
    BY <1>2
  <2> DEFINE g == [i \in 1 .. n + 1 |-> IF i <= n THEN f[i] ELSE IF i = 1 THEN s[i] ELSE f[i - 1] \o s[i]]
  <2>2. \A i \in 1 .. n + 1 : g[i] = IF i = 1 THEN s[i] ELSE g[i - 1] \o s[i]
    <3> SUFFICES ASSUME NEW i \in 1 .. n + 1 PROVE g[i] = IF i = 1 THEN s[i] ELSE g[i - 1] \o s[i]
      OBVIOUS
    <3>1. i # 1 => i - 1 \in 1 .. n /\ g[i - 1] = f[i - 1]
      OBVIOUS
    <3>2. i <= n => g[i] = f[i] /\ f[i] = IF i = 1 THEN s[i] ELSE f[i - 1] \o s[i]
      <4>1. PICK h : h = f
        OBVIOUS
      <4>2. f = [j \in 1 .. n |-> IF j = 1 THEN s[j] ELSE h[j - 1] \o s[j]]
        BY <2>1, <4>1
      <4>3. i <= n => i \in 1 .. n
        OBVIOUS
      <4>4. i <= n => f[i] = IF i = 1 THEN s[i] ELSE h[i - 1] \o s[i]
        <5> HIDE DEF g, Upto, T
        <5> QED  BY <4>2, <4>3
      <4> QED  BY <4>1, <4>4
    <3> QED  BY <3>1, <3>2
  <2>3. Upto(g, n + 1)
    <3>1. DOMAIN g = 1 .. n + 1 /\ g = [i \in DOMAIN g |-> g[i]]
      OBVIOUS
    <3> HIDE DEF g
    <3> DEFINE h == [i \in 1 .. n + 1 |-> IF i = 1 THEN s[i] ELSE g[i - 1] \o s[i]]
    <3>2. h = g
      <4>1. \A i \in 1 .. n + 1 : h[i] = g[i]
        BY <2>2
      <4>2. DOMAIN h = 1 .. n + 1 /\ h = [i \in 1 .. n + 1 |-> h[i]]
        OBVIOUS
      <4> HIDE DEF h
      <4> QED  BY <3>1, <4>1, <4>2
    <3>3. g = [i \in 1 .. n + 1 |-> IF i = 1 THEN s[i] ELSE g[i - 1] \o s[i]]
      BY <3>2
    <3> HIDE DEF h
    <3> QED  BY <3>3
  <2> HIDE DEF g, Upto
  <2> QED  BY <2>3
<1>3. Len(s) \in T
  <2>1. Nat \subseteq T
    <3> HIDE DEF T
    <3> QED  BY <1>1, <1>2, Upward
  <2> QED  BY <2>1, LenProperties
<1> QED  BY <1>3 DEF Joins

LEMMA FlattenIs == ASSUME NEW S, NEW s \in Seq(Seq(S)), Len(s) # 0
                   PROVE \E f : Joins(s, f) /\ FlattenSeq(s) = f[Len(s)]
<1> DEFINE g == CHOOSE f : Joins(s, f)
<1>1. Joins(s, g)
  BY JoinsExists
<1>2. FlattenSeq(s) = g[Len(s)]
  BY DEF FlattenSeq, Joins
<1> QED  BY <1>1, <1>2

LEMMA JoinsStep ==
  ASSUME NEW s, NEW f, Joins(s, f), NEW i \in 1 .. Len(s)
  PROVE  f[i] = IF i = 1 THEN s[i] ELSE f[i - 1] \o s[i]
<1>1. PICK h : h = f
  OBVIOUS
<1>2. f = [j \in 1 .. Len(s) |-> IF j = 1 THEN s[j] ELSE h[j - 1] \o s[j]]
  BY <1>1 DEF Joins
<1> QED  BY <1>1, <1>2

JoinBegins(s, t) ==
  Len(s) \in Nat /\ Len(t) \in Nat /\ Len(s) <= Len(t) /\ \A i \in 1 .. Len(s) : s[i] = t[i]

\* Two sequences that agree up to a position have the same pieces joined there.
LEMMA JoinsAgree ==
  ASSUME NEW s, NEW f, NEW t, NEW g, Joins(s, f), Joins(t, g), JoinBegins(s, t)
  PROVE  \A i \in 1 .. Len(s) : f[i] = g[i]
<1>0. Len(s) \in Nat /\ Len(t) \in Nat /\ Len(s) <= Len(t) /\ \A i \in 1 .. Len(s) : s[i] = t[i]
  BY DEF JoinBegins
<1> DEFINE T == {i \in Nat : i \in 1 .. Len(s) => f[i] = g[i]}
<1>1. 0 \in T
  OBVIOUS
<1>2. ASSUME NEW i \in Nat, i \in T PROVE i + 1 \in T
  <2> SUFFICES ASSUME i + 1 \in 1 .. Len(s) PROVE f[i + 1] = g[i + 1]
    OBVIOUS
  <2>1. i # 0 => f[i] = g[i]
    BY <1>2
  <2>2. i + 1 \in 1 .. Len(s) /\ i + 1 \in 1 .. Len(t) /\ s[i + 1] = t[i + 1]
    BY <1>0
  <2>3. f[i + 1] = IF i + 1 = 1 THEN s[i + 1] ELSE f[(i + 1) - 1] \o s[i + 1]
    BY <2>2, JoinsStep
  <2>4. g[i + 1] = IF i + 1 = 1 THEN t[i + 1] ELSE g[(i + 1) - 1] \o t[i + 1]
    BY <2>2, JoinsStep
  <2>5. (i + 1) - 1 = i /\ (i + 1 = 1 <=> i = 0)
    OBVIOUS
  <2> HIDE DEF T
  <2> QED  BY <2>1, <2>2, <2>3, <2>4, <2>5
<1>3. Nat \subseteq T
  <2> HIDE DEF T
  <2> QED  BY <1>1, <1>2, Upward
<1> QED  BY <1>0, <1>3

LEMMA JoinsTyped ==
  ASSUME NEW S, NEW s \in Seq(Seq(S)), NEW f, Joins(s, f)
  PROVE  \A i \in 1 .. Len(s) : f[i] \in Seq(S)
<1> DEFINE T == {i \in Nat : i \in 1 .. Len(s) => f[i] \in Seq(S)}
<1>0. Len(s) \in Nat /\ \A i \in 1 .. Len(s) : s[i] \in Seq(S)
  BY LenProperties
<1>1. 0 \in T
  OBVIOUS
<1>2. ASSUME NEW i \in Nat, i \in T PROVE i + 1 \in T
  <2> SUFFICES ASSUME i + 1 \in 1 .. Len(s) PROVE f[i + 1] \in Seq(S)
    OBVIOUS
  <2>1. i # 0 => f[i] \in Seq(S)
    BY <1>0, <1>2
  <2>2. s[i + 1] \in Seq(S)
    BY <1>0
  <2>3. f[i + 1] = IF i + 1 = 1 THEN s[i + 1] ELSE f[(i + 1) - 1] \o s[i + 1]
    BY JoinsStep
  <2>4. (i + 1) - 1 = i /\ (i + 1 = 1 <=> i = 0)
    OBVIOUS
  <2>5. i # 0 => f[i] \o s[i + 1] \in Seq(S)
    BY <2>1, <2>2, ConcatProperties
  <2> HIDE DEF T
  <2> QED  BY <2>2, <2>3, <2>4, <2>5
<1>3. Nat \subseteq T
  <2> HIDE DEF T
  <2> QED  BY <1>1, <1>2, Upward
<1> QED  BY <1>0, <1>3

LEMMA FlattenTyped == ASSUME NEW S, NEW s \in Seq(Seq(S)) PROVE FlattenSeq(s) \in Seq(S)
<1>1. CASE Len(s) = 0
  <2>1. s = <<>> /\ FlattenSeq(s) = s
    BY <1>1, EmptySeq DEF FlattenSeq
  <2> QED  BY <2>1, EmptySeq
<1>2. CASE Len(s) # 0
  <2>1. PICK f : Joins(s, f) /\ FlattenSeq(s) = f[Len(s)]
    BY <1>2, FlattenIs
  <2>2. Len(s) \in 1 .. Len(s)
    BY <1>2, LenProperties
  <2> QED  BY <2>1, <2>2, JoinsTyped
<1> QED  BY <1>1, <1>2

LEMMA FlattenNothing == FlattenSeq(<<>>) = <<>>
<1>1. Len(<<>>) = 0
  OBVIOUS
<1> QED  BY <1>1 DEF FlattenSeq

OneMore(s, x, t) == Len(t) = Len(s) + 1 /\ t[Len(s) + 1] = x /\ \A i \in 1 .. Len(s) : t[i] = s[i]

\* One more piece is joined to what there was.
LEMMA FlattenMore ==
  ASSUME NEW S, NEW s \in Seq(Seq(S)), NEW x \in Seq(S), NEW t \in Seq(Seq(S)), OneMore(s, x, t)
  PROVE  FlattenSeq(t) = FlattenSeq(s) \o x
<1>0. Len(t) = Len(s) + 1 /\ t[Len(s) + 1] = x /\ \A i \in 1 .. Len(s) : t[i] = s[i]
  BY DEF OneMore
<1>1. Len(s) \in Nat /\ Len(t) # 0 /\ Len(t) - 1 = Len(s) /\ Len(t) \in 1 .. Len(t)
  BY <1>0, LenProperties
<1>2. PICK g : Joins(t, g) /\ FlattenSeq(t) = g[Len(t)]
  BY <1>1, FlattenIs
<1>3. g[Len(t)] = IF Len(t) = 1 THEN t[Len(t)] ELSE g[Len(t) - 1] \o t[Len(t)]
  BY <1>1, <1>2, JoinsStep
<1>4. CASE Len(s) = 0
  <2>1. s = <<>> /\ Len(t) = 1
    BY <1>0, <1>4, EmptySeq
  <2>2. FlattenSeq(t) = x
    BY <1>0, <1>2, <1>3, <1>4, <2>1
  <2>3. <<>> \o x = x
    BY ConcatEmptySeq
  <2> QED  BY <2>1, <2>2, <2>3, FlattenNothing
<1>5. CASE Len(s) # 0
  <2>1. PICK f : Joins(s, f) /\ FlattenSeq(s) = f[Len(s)]
    BY <1>5, FlattenIs
  <2>2. Len(s) <= Len(t) /\ Len(t) \in Nat /\ Len(s) \in 1 .. Len(s)
    BY <1>0, <1>1, <1>5
  <2>3. \A i \in 1 .. Len(s) : f[i] = g[i]
    <3>1. JoinBegins(s, t)
      BY <1>0, <1>1, <2>2 DEF JoinBegins
    <3> QED  BY <1>2, <2>1, <3>1, JoinsAgree
  <2>4. Len(t) # 1 /\ g[Len(t) - 1] = f[Len(s)]
    BY <1>0, <1>1, <1>5, <2>2, <2>3
  <2>5. t[Len(t)] = x
    BY <1>0, <1>1
  <2> QED  BY <1>2, <1>3, <2>1, <2>4, <2>5
<1> QED  BY <1>4, <1>5

-----------------------------------------------------------------------------
(* What is durable.  A row is on disk once a record of the journal, or a group of the database,    *)
(* lists a file that holds it.                                                                     *)

FilesOf == [role : Range(Tables) \cup {Raw}, index : Nat, rows : Seq(Nat)]
InGroups(role) == FlattenSeq([i \in DOMAIN run.groups |-> RowsIn(run.groups[i], role)])
InJournal(role) == FlattenSeq([i \in DOMAIN run.journal |-> RowsIn(run.journal[i].files, role)])
Durable(role) == IF run.backend = "sqlite" THEN InGroups(role) ELSE InJournal(role)
OneFileEach(among) == \A f, g \in among : f.role = g.role => f = g

\* The rows a capture still answers for.
RowsHeld ==
  proc.job \in {"capture", "close"} /\ proc.at \in {"ready", "raised", "transaction", "write", "published", "seal"}
HandInv(role) ==
  /\ offered[role] = told[role] \o proc.buffer[role]
  /\ proc.at # "published" /\ ~proc.refused => Durable(role) = told[role]
  /\ proc.at = "published" /\ (run.backend = "parquet" \/ run.database = "recording") =>
       Durable(role) = told[role] \o proc.buffer[role]

\* The files of the group that is being written hold its rows, and none is left out.
FilesInv ==
  /\ OneFileEach(proc.files)
  /\ run.backend = "parquet" =>
       /\ \A f \in proc.files : f.role \in Range(Tables) => f.rows = proc.buffer[f.role]
       /\ Filled(proc.buffer) \subseteq RolesIn(proc.files) \cup Range(proc.todo)
  /\ run.backend = "sqlite" => \A f \in proc.files : f.rows = InGroups(f.role)

RowsInv ==
  /\ told \in Buffers /\ run.parts \subseteq FilesOf /\ run.groups \in Seq(SUBSET FilesOf)
  /\ run.state = "absent" => offered = NoRows /\ told = NoRows
  /\ \A role \in Range(Tables) :
       /\ IsPrefix(told[role], Durable(role)) /\ IsPrefix(Durable(role), offered[role])
       /\ run.backend = "sqlite" /\ run.journal # <<>> => InJournal(role) = InGroups(role)
       /\ RowsHeld => HandInv(role)
  /\ run.backend = "sqlite" /\ (run.state = "finalized" \/ proc.at = "finalize") => run.journal # <<>>
  /\ proc.at = "write" => FilesInv

LEMMA PrefixOfItself == ASSUME NEW S, NEW s \in Seq(S) PROVE IsPrefix(s, s)
<1>1. Len(s) \in Nat
  BY LenProperties
<1> QED  BY <1>1 DEF IsPrefix

LEMMA PrefixOfLonger == ASSUME NEW S, NEW s \in Seq(S), NEW u \in Seq(S) PROVE IsPrefix(s, s \o u)
<1>1. Len(s) \in Nat /\ Len(u) \in Nat /\ Len(s \o u) = Len(s) + Len(u)
  BY ConcatProperties, LenProperties
<1>2. CASE Len(s) = 0
  <2>1. s = <<>> /\ SubSeq(s, 1, 0) = <<>>
    BY <1>2, EmptySeq, SubSeqEmpty
  <2>2. s \o u \in Seq(S)
    BY ConcatProperties
  <2>3. SubSeq(s \o u, 1, 0) = <<>>
    BY <2>2, SubSeqEmpty
  <2> QED  BY <1>1, <1>2, <2>1, <2>3 DEF IsPrefix
<1>3. CASE Len(s) # 0
  <2>1. SubSeq(s \o u, 1, Len(s)) = SubSeq(s, 1, Len(s))
    BY <1>1, <1>3, SubSeqOfConcat1
  <2> QED  BY <1>1, <2>1 DEF IsPrefix
<1> QED  BY <1>2, <1>3

\* One file of each role: its rows.
LEMMA RowsInIs ==
  ASSUME NEW among, OneFileEach(among), NEW f \in among PROVE RowsIn(among, f.role) = f.rows
<1>1. (CHOOSE g \in among : g.role = f.role) = f
  BY DEF OneFileEach
<1> QED  BY <1>1 DEF RowsIn
LEMMA RowsInTyped == ASSUME NEW among \in SUBSET FilesOf, NEW role PROVE RowsIn(among, role) \in Seq(Nat)
<1>1. CASE \E f \in among : f.role = role
  <2>1. (CHOOSE f \in among : f.role = role) \in among
    BY <1>1
  <2> QED  BY <1>1, <2>1 DEF RowsIn, FilesOf
<1>2. CASE ~\E f \in among : f.role = role
  BY <1>2, EmptySeq DEF RowsIn
<1> QED  BY <1>1, <1>2

\* A list with one more piece, its pieces joined.
LEMMA PiecesMore ==
  ASSUME NEW n \in Nat, NEW a \in [1 .. n -> Seq(Nat)], NEW b \in [1 .. n + 1 -> Seq(Nat)],
         \A i \in 1 .. n : b[i] = a[i]
  PROVE  FlattenSeq(b) = FlattenSeq(a) \o b[n + 1]
<1>1. a \in Seq(Seq(Nat)) /\ b \in Seq(Seq(Nat))
  BY SeqDef
<1>2. Len(a) = n /\ Len(b) = n + 1
  OBVIOUS
<1>3. b[n + 1] \in Seq(Nat)
  OBVIOUS
<1>4. PICK x \in Seq(Nat) : x = b[n + 1]
  BY <1>3
<1>5. OneMore(a, x, b)
  BY <1>2, <1>4 DEF OneMore
<1> QED  BY <1>1, <1>4, <1>5, FlattenMore
LEMMA OnePiece == ASSUME NEW b \in [1 .. 1 -> Seq(Nat)] PROVE FlattenSeq(b) = b[1]
<1>1. ASSUME NEW n \in Nat, NEW c \in [1 .. n -> Seq(Nat)] PROVE c \in Seq(Seq(Nat)) /\ Len(c) = n
  <2>1. c \in Seq(Seq(Nat))
    BY SeqDef
  <2> QED  BY <2>1
<1>2. 1 \in Nat
  OBVIOUS
<1>3. b \in Seq(Seq(Nat)) /\ Len(b) = 1
  BY ONLY <1>1, <1>2, b \in [1 .. 1 -> Seq(Nat)]
<1>4. Len(b) # 0
  BY <1>3
<1>5. PICK f : Joins(b, f) /\ FlattenSeq(b) = f[Len(b)]
  BY <1>3, <1>4, FlattenIs
<1>6. 1 \in 1 .. Len(b)
  BY <1>3
<1>7. f[1] = b[1]
  BY <1>5, <1>6, JoinsStep
<1> QED  BY <1>3, <1>5, <1>7
LEMMA PiecesTyped == ASSUME NEW n \in Nat, NEW a \in [1 .. n -> Seq(Nat)] PROVE FlattenSeq(a) \in Seq(Nat)
<1>1. a \in Seq(Seq(Nat))
  BY SeqDef
<1> QED  BY <1>1, FlattenTyped

-----------------------------------------------------------------------------
(* What recovery reports is what is durable. *)

LEMMA DurableTyped ==
  ASSUME JournalInv, run.parts \subseteq FilesOf, run.groups \in Seq(SUBSET FilesOf), NEW role
  PROVE  /\ InGroups(role) \in Seq(Nat) /\ InJournal(role) \in Seq(Nat)
         /\ \A i \in DOMAIN run.groups : RowsIn(run.groups[i], role) \in Seq(Nat)
         /\ \A i \in 1 .. Groups : RowsIn(run.journal[i].files, role) \in Seq(Nat)
         /\ DOMAIN run.groups = 1 .. Len(run.groups) /\ Len(run.groups) \in Nat
<1>1. DOMAIN run.groups = 1 .. Len(run.groups) /\ Len(run.groups) \in Nat
      /\ \A i \in DOMAIN run.groups : run.groups[i] \in SUBSET FilesOf
  BY LenProperties, ElementOfSeq
<1>2. \A i \in DOMAIN run.groups : RowsIn(run.groups[i], role) \in Seq(Nat)
  BY <1>1, RowsInTyped
<1>3. Groups \in Nat /\ DOMAIN run.journal = 1 .. Groups
  BY JournalIs
<1>4. ASSUME NEW i \in 1 .. Groups PROVE RowsIn(run.journal[i].files, role) \in Seq(Nat)
  <2>1. run.journal[i].files \in SUBSET FilesOf
    BY DEF JournalInv
  <2> QED  BY <2>1, RowsInTyped
<1>5. InGroups(role) \in Seq(Nat)
  <2>1. [i \in DOMAIN run.groups |-> RowsIn(run.groups[i], role)] \in [1 .. Len(run.groups) -> Seq(Nat)]
    BY <1>1, <1>2
  <2> QED  BY <1>1, <2>1, PiecesTyped DEF InGroups
<1>6. InJournal(role) \in Seq(Nat)
  <2>1. [i \in DOMAIN run.journal |-> RowsIn(run.journal[i].files, role)] \in [1 .. Groups -> Seq(Nat)]
    BY <1>3, <1>4
  <2> QED  BY <1>3, <2>1, PiecesTyped DEF InJournal
<1> QED  BY <1>1, <1>2, <1>4, <1>5, <1>6

LEMMA RecordsAreValid == ASSUME JournalInv PROVE ValidRecords = run.journal
<1>1. /\ Groups \in Nat /\ DOMAIN run.journal = 1 .. Groups /\ Groups = Len(run.journal)
      /\ \A i \in 1 .. Groups : Accepted(i)
  BY JournalIs, AllAccepted DEF Groups
<1> DEFINE Stops(n) == (\A i \in 1 .. n : Accepted(i)) /\ (n + 1 \in DOMAIN run.journal => ~Accepted(n + 1))
           valid == CHOOSE n \in 0 .. Len(run.journal) : Stops(n)
<1>2. Groups \in 0 .. Len(run.journal) /\ Stops(Groups)
  BY <1>1
<1>3. \A n \in 0 .. Len(run.journal) : Stops(n) => n = Groups
  <2> SUFFICES ASSUME NEW n \in 0 .. Groups, n + 1 \in 1 .. Groups => ~Accepted(n + 1) PROVE n = Groups
    BY <1>1
  <2>1. n # Groups => n + 1 \in 1 .. Groups
    BY <1>1
  <2> QED  BY <1>1, <2>1
<1>4. valid = Groups
  <2> HIDE DEF Stops
  <2> QED  BY <1>2, <1>3
<1>5. ValidRecords = SubSeq(run.journal, 1, valid)
  BY DEF ValidRecords
<1>6. SubSeq(run.journal, 1, Len(run.journal)) = run.journal
  BY SubSeqFull DEF JournalInv
<1> HIDE DEF valid
<1> QED  BY <1>1, <1>4, <1>5, <1>6

LEMMA ReportIsDurable == ASSUME LegacyInv, RowsInv, NEW role \in Range(Tables) PROVE Authority(role) = Durable(role)
<1>1. ValidRecords = run.journal /\ run.backend \in {"parquet", "sqlite"}
  BY RecordsAreValid DEF LegacyInv, LegacyTypes
<1>2. CASE run.backend = "sqlite" /\ run.state # "finalized"
  BY <1>2 DEF Authority, Durable, InGroups
<1>3. CASE ~(run.backend = "sqlite" /\ run.state # "finalized")
  <2>1. Authority(role) = InJournal(role)
    BY <1>1, <1>3 DEF Authority, InJournal
  <2>2. run.backend = "sqlite" => InJournal(role) = InGroups(role)
    BY <1>3 DEF RowsInv
  <2> QED  BY <2>1, <2>2 DEF Durable
<1> QED  BY <1>2, <1>3

LEMMA RowsTold == LegacyInv /\ RowsInv => CommittedIsRecovered
  BY ReportIsDurable DEF RowsInv, CommittedIsRecovered

-----------------------------------------------------------------------------
(* The steps that leave what is durable as it is. *)

KeepsRows == run'.journal = run.journal /\ run'.groups = run.groups /\ run'.backend = run.backend

LEMMA RowsStay ==
  ASSUME KeepsRows, NEW role
  PROVE  InGroups(role)' = InGroups(role) /\ InJournal(role)' = InJournal(role) /\ Durable(role)' = Durable(role)
<1>1. InGroups(role)' = InGroups(role)
  BY DEF KeepsRows, InGroups
<1>2. InJournal(role)' = InJournal(role)
  BY DEF KeepsRows, InJournal
<1> QED  BY <1>1, <1>2 DEF KeepsRows, Durable

\* What such a step has to show: what it makes of the rows in hand and of the files of a group.
LEMMA Quiet ==
  ASSUME RowsInv, KeepsRows, told' = told, offered' = offered, run'.parts \subseteq FilesOf,
         run'.state # "absent",
         RowsHeld' => \A role \in Range(Tables) : HandInv(role)',
         run'.backend = "sqlite" /\ (run'.state = "finalized" \/ proc'.at = "finalize") => run'.journal # <<>>,
         proc'.at = "write" => FilesInv'
  PROVE  RowsInv'
<1>1. told' \in Buffers /\ run'.parts \subseteq FilesOf /\ run'.groups \in Seq(SUBSET FilesOf)
  BY DEF RowsInv, KeepsRows
<1>2. ASSUME NEW role \in Range(Tables)
      PROVE  /\ IsPrefix(told'[role], Durable(role)') /\ IsPrefix(Durable(role)', offered'[role])
             /\ run'.backend = "sqlite" /\ run'.journal # <<>> => InJournal(role)' = InGroups(role)'
             /\ RowsHeld' => HandInv(role)'
  <2>1. /\ IsPrefix(told[role], Durable(role)) /\ IsPrefix(Durable(role), offered[role])
        /\ run.backend = "sqlite" /\ run.journal # <<>> => InJournal(role) = InGroups(role)
    BY DEF RowsInv
  <2>2. InGroups(role)' = InGroups(role) /\ InJournal(role)' = InJournal(role) /\ Durable(role)' = Durable(role)
    BY RowsStay
  <2> QED  BY <2>1, <2>2 DEF KeepsRows
<1> QED  BY <1>1, <1>2 DEF RowsInv

\* A step of a capture that writes or promises nothing.
LEMMA HandStays ==
  ASSUME RowsInv, KeepsRows, told' = told, offered' = offered, proc'.buffer = proc.buffer, RowsHeld,
         proc.at # "published", ~proc.refused, proc'.at # "published", NEW role \in Range(Tables)
  PROVE  HandInv(role)'
<1>1. HandInv(role)
  BY DEF RowsInv
<1>2. Durable(role)' = Durable(role)
  BY RowsStay
<1> QED  BY <1>1, <1>2 DEF HandInv

LEMMA RowsStart == LegacyInit => RowsInv
<1> SUFFICES ASSUME LegacyInit PROVE RowsInv
  OBVIOUS
<1>1. /\ told = NoRows /\ offered = NoRows /\ proc = Idle /\ run.parts = {} /\ run.groups = <<>> /\ run.journal = <<>>
      /\ run.backend = "parquet" /\ proc.at = "none"
  BY DEF LegacyInit, EmptyRun, Idle
<1>2. ASSUME NEW role \in Range(Tables)
      PROVE  IsPrefix(told[role], Durable(role)) /\ IsPrefix(Durable(role), offered[role])
  <2>1. [i \in DOMAIN run.journal |-> RowsIn(run.journal[i].files, role)] = <<>>
    BY <1>1
  <2>2. Durable(role) = <<>>
    BY <1>1, <2>1, FlattenNothing DEF Durable, InJournal
  <2>3. NoRows[role] = <<>> /\ <<>> \in Seq(Nat)
    BY EmptySeq DEF NoRows
  <2> QED  BY <1>1, <2>2, <2>3, PrefixOfItself
<1>3. ~RowsHeld /\ proc.at # "write" /\ proc.at # "finalize" /\ told \in Buffers /\ <<>> \in Seq(SUBSET FilesOf)
  BY <1>1, EmptyBuffer, EmptySeq DEF RowsHeld
<1> QED  BY <1>1, <1>2, <1>3 DEF RowsInv

LEMMA OpenRows == ASSUME LegacyInv, RowsInv, NEW backend \in {"parquet", "sqlite"}, Open(backend) PROVE RowsInv'
<1> DEFINE database == IF backend = "sqlite" THEN "recording" ELSE "absent"
<1>1. /\ run = EmptyRun /\ offered = NoRows /\ told = NoRows /\ offered' = offered /\ told' = told
      /\ run' = [run EXCEPT !.state = "recording", !.backend = backend, !.database = database]
      /\ proc' = [Idle EXCEPT !.at = "ready"]
  BY DEF Open, LegacyInv, RowsInv, Known
<1>2. /\ run'.state = "recording" /\ run'.parts = {} /\ run'.groups = <<>> /\ run'.journal = <<>>
      /\ proc'.at = "ready" /\ proc'.buffer = NoRows
  <2> HIDE DEF database
  <2> QED  BY <1>1 DEF EmptyRun, Idle
<1>3. ASSUME NEW role \in Range(Tables)
      PROVE  Durable(role)' = <<>> /\ NoRows[role] = <<>>
  <2>1. [i \in DOMAIN run'.journal |-> RowsIn(run'.journal[i].files, role)] = <<>>
    BY <1>2
  <2>2. [i \in DOMAIN run'.groups |-> RowsIn(run'.groups[i], role)] = <<>>
    BY <1>2
  <2>3. InJournal(role)' = FlattenSeq([i \in DOMAIN run'.journal |-> RowsIn(run'.journal[i].files, role)])
    BY DEF InJournal
  <2>4. InGroups(role)' = FlattenSeq([i \in DOMAIN run'.groups |-> RowsIn(run'.groups[i], role)])
    BY DEF InGroups
  <2>5. InJournal(role)' = <<>> /\ InGroups(role)' = <<>>
    BY <2>1, <2>2, <2>3, <2>4, FlattenNothing
  <2> QED  BY <2>5 DEF Durable, NoRows
<1>4. <<>> \in Seq(Nat) /\ <<>> \o <<>> = <<>> /\ IsPrefix(<<>>, <<>>)
  <2>1. <<>> \in Seq(Nat)
    BY EmptySeq
  <2> QED  BY <2>1, ConcatEmptySeq, PrefixOfItself
<1>5. ASSUME NEW role \in Range(Tables)
      PROVE  IsPrefix(told'[role], Durable(role)') /\ IsPrefix(Durable(role)', offered'[role]) /\ HandInv(role)'
  BY <1>1, <1>2, <1>3, <1>4 DEF HandInv
<1>6. told' \in Buffers /\ <<>> \in Seq(SUBSET FilesOf)
  BY <1>1, EmptyBuffer, EmptySeq
<1> QED  BY <1>2, <1>5, <1>6 DEF RowsInv

\* Steps that end a process, or are no longer about rows.
LEMMA LaterRows ==
  ASSUME LegacyInv, RowsInv, KeepsRows, told' = told, offered' = offered, run'.parts \subseteq run.parts,
         run.state # "absent", run'.state # "absent", ~RowsHeld', proc'.at # "write",
         run'.backend = "sqlite" /\ (run'.state = "finalized" \/ proc'.at = "finalize") => run'.journal # <<>>
  PROVE  RowsInv'
<1>1. run'.parts \subseteq FilesOf
  BY DEF RowsInv
<1> QED  BY <1>1, Quiet

LEMMA EndRows == LegacyInv /\ RowsInv /\ (Refuse \/ RefuseManifest \/ MarkFinalized \/ Dies \/ Recover) => RowsInv'
<1> SUFFICES ASSUME LegacyInv, RowsInv, Refuse \/ RefuseManifest \/ MarkFinalized \/ Dies \/ Recover PROVE RowsInv'
  OBVIOUS
<1>1. told' = told /\ offered' = offered /\ run.state = "recording" /\ LegacyShape
  BY DEF RefuseManifest, MarkFinalized, Dies, Recover, Refuse, Known, LegacyInv, LegacyTypes
<1>2. KeepsRows /\ run'.parts = run.parts /\ run'.state \in {"recording", "finalized"}
  <2>1. CASE run' = run
    BY <1>1, <2>1 DEF KeepsRows
  <2>2. ASSUME NEW temps, run' = [run EXCEPT !.temps = temps]
        PROVE  KeepsRows /\ run'.parts = run.parts /\ run'.state \in {"recording", "finalized"}
    BY <1>1, <2>2 DEF KeepsRows, LegacyShape
  <2>3. ASSUME run' = [run EXCEPT !.torn = TRUE]
        PROVE  KeepsRows /\ run'.parts = run.parts /\ run'.state \in {"recording", "finalized"}
    BY <1>1, <2>3 DEF KeepsRows, LegacyShape
  <2>4. ASSUME run' = [run EXCEPT !.state = "finalized"]
        PROVE  KeepsRows /\ run'.parts = run.parts /\ run'.state \in {"recording", "finalized"}
    BY <1>1, <2>4 DEF KeepsRows, LegacyShape
  <2>5. CASE LeavesTemp
    BY <2>2, <2>5 DEF LeavesTemp
  <2> QED  BY <2>1, <2>3, <2>4, <2>5 DEF RefuseManifest, MarkFinalized, Dies, Recover, Refuse
<1>3. ~RowsHeld' /\ proc'.at \notin {"write", "finalize"}
  <2>1. CASE Recover
    <3> DEFINE p == [Idle EXCEPT !.job = "recover"]
    <3>1. /\ p = [at |-> "none", job |-> "recover", buffer |-> NoRows, index |-> 0, todo |-> <<>>, files |-> {},
                  committed |-> {}, refused |-> FALSE]
      <4> DEFINE idle == Idle
      <4>1. idle = [at |-> "none", job |-> "capture", buffer |-> NoRows, index |-> 0, todo |-> <<>>, files |-> {},
                    committed |-> {}, refused |-> FALSE]
        BY DEF Idle
      <4>2. p = [idle EXCEPT !.job = "recover"]
        OBVIOUS
      <4> HIDE DEF idle, p
      <4> QED  BY <4>1, <4>2
    <3>2. \/ proc' = [p EXCEPT !.at = "seal"]
          \/ proc' = [p EXCEPT !.at = "segments", !.todo = Tables]
          \/ proc' = [p EXCEPT !.at = "examine"]
      BY <2>1 DEF Recover
    <3> HIDE DEF p
    <3>3. proc'.job = "recover" /\ proc'.at \in {"seal", "segments", "examine"}
      BY <3>1, <3>2
    <3> QED  BY <3>3 DEF RowsHeld
  <2>2. CASE proc' = Idle
    BY <2>2 DEF Idle, RowsHeld
  <2> QED  BY <2>1, <2>2 DEF RefuseManifest, MarkFinalized, Dies, Refuse
<1>4. run'.backend = "sqlite" /\ run'.state = "finalized" => run'.journal # <<>>
  <2>1. CASE MarkFinalized
    BY <1>2, <2>1 DEF MarkFinalized, RowsInv, KeepsRows
  <2>2. run'.state = "finalized" => MarkFinalized
    <3>1. LeavesTemp => run'.state = run.state
      BY <1>1 DEF LeavesTemp, LegacyShape
    <3>2. run' = [run EXCEPT !.torn = TRUE] => run'.state = run.state
      BY <1>1 DEF LegacyShape
    <3> QED  BY <1>1, <3>1, <3>2 DEF RefuseManifest, Dies, Recover, Refuse
  <2> QED  BY <2>1, <2>2
<1>5. run.state # "absent" /\ run'.state # "absent" /\ run'.parts \subseteq run.parts
  BY <1>1, <1>2
<1> QED  BY <1>1, <1>2, <1>3, <1>4, <1>5, LaterRows

LEMMA CloseRows ==
  LegacyInv /\ RowsInv /\ (WriteManifest \/ SegmentsDone \/ WriteRunManifest \/ MoveOrphan \/ OrphansMoved \/ Promoted)
    => RowsInv'
<1> SUFFICES ASSUME LegacyInv, RowsInv,
                    WriteManifest \/ SegmentsDone \/ WriteRunManifest \/ MoveOrphan \/ OrphansMoved \/ Promoted
             PROVE  RowsInv'
  OBVIOUS
<1>1. told' = told /\ offered' = offered /\ run.state = "recording" /\ LegacyShape /\ AtInv /\ proc.at # "none"
  BY DEF WriteManifest, SegmentsDone, WriteRunManifest, MoveOrphan, OrphansMoved, Promoted, Known, LegacyInv, LegacyTypes
<1>2. KeepsRows /\ run'.parts \subseteq run.parts /\ run'.state = "recording"
  <2>1. CASE run' = run
    BY <1>1, <2>1 DEF KeepsRows
  <2>2. ASSUME NEW x, run' = [run EXCEPT !.segments = x]
        PROVE  KeepsRows /\ run'.parts \subseteq run.parts /\ run'.state = "recording"
    BY <1>1, <2>2 DEF KeepsRows, LegacyShape
  <2>3. ASSUME NEW x, run' = [run EXCEPT !.database = x]
        PROVE  KeepsRows /\ run'.parts \subseteq run.parts /\ run'.state = "recording"
    BY <1>1, <2>3 DEF KeepsRows, LegacyShape
  <2>4. ASSUME NEW x, run' = [run EXCEPT !.manifest = x]
        PROVE  KeepsRows /\ run'.parts \subseteq run.parts /\ run'.state = "recording"
    BY <1>1, <2>4 DEF KeepsRows, LegacyShape
  <2>5. ASSUME NEW x, NEW y, run' = [run EXCEPT !.parts = @ \ {x}, !.orphans = y]
        PROVE  KeepsRows /\ run'.parts \subseteq run.parts /\ run'.state = "recording"
    BY <1>1, <2>5 DEF KeepsRows, LegacyShape
  <2>6. CASE WriteManifest
    BY <2>2, <2>6 DEF WriteManifest
  <2>7. CASE SegmentsDone
    BY <2>3, <2>7 DEF SegmentsDone
  <2>8. CASE WriteRunManifest
    BY <2>4, <2>8 DEF WriteRunManifest
  <2>9. CASE MoveOrphan
    BY <2>5, <2>9 DEF MoveOrphan
  <2>10. CASE OrphansMoved \/ Promoted
    BY <2>1, <2>10 DEF OrphansMoved, Promoted
  <2> QED  BY <2>6, <2>7, <2>8, <2>9, <2>10
<1>3. proc'.at \in {"segments", "examine", "manifest", "finalize"}
  <2>1. CASE WriteManifest
    BY <1>1, <2>1 DEF WriteManifest, LegacyShape
  <2>2. CASE SegmentsDone
    BY <1>1, <2>2 DEF SegmentsDone, LegacyShape
  <2>3. CASE WriteRunManifest
    BY <1>1, <2>3 DEF WriteRunManifest, LegacyShape
  <2>4. CASE MoveOrphan
    BY <1>1, <2>4 DEF MoveOrphan
  <2>5. CASE OrphansMoved
    BY <1>1, <2>5 DEF OrphansMoved, LegacyShape
  <2>6. CASE Promoted
    BY <1>1, <2>6 DEF Promoted, LegacyShape
  <2> QED  BY <2>1, <2>2, <2>3, <2>4, <2>5, <2>6
<1>4. run'.backend = "sqlite" /\ proc'.at = "finalize" => run'.journal # <<>>
  <2>1. proc'.at = "finalize" => WriteRunManifest
    <3>1. WriteManifest => proc'.at = "segments"
      BY <1>1 DEF WriteManifest, LegacyShape
    <3>2. SegmentsDone => proc'.at \in {"examine", "manifest"}
      BY <1>1 DEF SegmentsDone, LegacyShape
    <3>3. OrphansMoved \/ Promoted => proc'.at = "segments"
      BY <1>1 DEF OrphansMoved, Promoted, LegacyShape
    <3>4. MoveOrphan => proc'.at = "examine"
      BY DEF MoveOrphan
    <3> QED  BY <3>1, <3>2, <3>3, <3>4
  <2>2. WriteRunManifest => ClosingRun
    BY <1>1 DEF WriteRunManifest, AtInv
  <2> QED  BY <1>2, <2>1, <2>2 DEF ClosingRun, KeepsRows
<1>5. ~RowsHeld' /\ proc'.at # "write" /\ run.state # "absent" /\ run'.state # "absent" /\ run'.state # "finalized"
  BY <1>1, <1>2, <1>3 DEF RowsHeld
<1> QED  BY <1>1, <1>2, <1>4, <1>5, LaterRows

-----------------------------------------------------------------------------
(* The steps of a capture. *)

LEMMA AddRows == ASSUME LegacyInv, RowsInv, NEW role \in Range(Tables), Add(role) PROVE RowsInv'
<1> DEFINE number == Len(offered["event"]) + Len(offered["control"])
<1>1. /\ run' = run /\ told' = told /\ proc.at = "ready" /\ proc.job = "capture" /\ ~proc.refused
      /\ offered' = [offered EXCEPT ![role] = Append(@, number)] /\ LegacyShape /\ run.state = "recording"
      /\ proc.buffer \in Buffers /\ offered \in [Range(Tables) -> Seq(Nat)] /\ JournalInv
  BY DEF Add, LegacyInv, LegacyTypes, AtInv
<1>2. number \in Nat
  <2>1. offered["event"] \in Seq(Nat) /\ offered["control"] \in Seq(Nat)
    BY <1>1, RolesAre
  <2>2. ASSUME NEW s \in Seq(Nat) PROVE Len(s) \in Nat
    BY LenProperties
  <2>3. Len(offered["event"]) \in Nat /\ Len(offered["control"]) \in Nat
    BY <2>1, <2>2
  <2>4. ASSUME NEW a \in Nat, NEW b \in Nat PROVE a + b \in Nat
    OBVIOUS
  <2> QED  BY ONLY <2>3, <2>4 DEF number
<1>3. proc' = [proc EXCEPT !.buffer = [proc.buffer EXCEPT ![role] = Append(@, number)]]
  BY DEF Add
<1> HIDE DEF number
<1> DEFINE more == [proc.buffer EXCEPT ![role] = Append(@, number)]
<1>4. /\ \A r \in Range(Tables) : more[r] = IF r = role THEN Append(proc.buffer[r], number) ELSE proc.buffer[r]
  BY <1>1 DEF Buffers
<1>5. proc' = [proc EXCEPT !.buffer = more]
  BY <1>3
<1> HIDE DEF more
<1>6. proc'.at = "ready" /\ proc'.job = "capture" /\ ~proc'.refused /\ proc'.buffer = more
  BY <1>1, <1>5 DEF LegacyShape
<1>7. RowsHeld /\ KeepsRows
  BY <1>1 DEF RowsHeld, KeepsRows
<1>8. ASSUME NEW r \in Range(Tables)
      PROVE  IsPrefix(told'[r], Durable(r)') /\ IsPrefix(Durable(r)', offered'[r]) /\ HandInv(r)'
  <2>1. told[r] \in Seq(Nat) /\ proc.buffer[r] \in Seq(Nat) /\ more[r] \in Seq(Nat)
    <3>1. told[r] \in Seq(Nat) /\ proc.buffer[r] \in Seq(Nat)
      BY <1>1 DEF RowsInv, Buffers
    <3>2. ASSUME NEW s \in Seq(Nat) PROVE Append(s, number) \in Seq(Nat)
      BY <1>2, AppendProperties
    <3> QED  BY <1>4, <3>1, <3>2
  <2>2. offered[r] = told[r] \o proc.buffer[r] /\ Durable(r) = told[r]
    BY <1>1, <1>7 DEF RowsInv, HandInv
  <2>3. offered'[r] = told[r] \o more[r]
    <3>1. ASSUME NEW s \in Seq(Nat), NEW u \in Seq(Nat) PROVE Append(s \o u, number) = s \o Append(u, number)
      <4>1. s \o u \in Seq(Nat) /\ <<number>> \in Seq(Nat)
        BY <1>2, ConcatProperties
      <4>2. Append(s \o u, number) = (s \o u) \o <<number>> /\ Append(u, number) = u \o <<number>>
        BY <1>2, <4>1, AppendIsConcat
      <4> QED  BY <4>1, <4>2, ConcatAssociative
    <3>2. CASE r = role
      <4>1. offered'[r] = Append(offered[r], number)
        BY <1>1, <3>2
      <4> QED  BY <1>4, <2>1, <2>2, <3>1, <3>2, <4>1
    <3>3. CASE r # role
      BY <1>1, <1>4, <2>2, <3>3
    <3> QED  BY <3>2, <3>3
  <2>4. Durable(r)' = told[r]
    BY <1>7, <2>2, RowsStay
  <2>5. IsPrefix(told[r], told[r]) /\ IsPrefix(told[r], told[r] \o more[r])
    BY <2>1, PrefixOfItself, PrefixOfLonger
  <2> QED  BY <1>1, <1>6, <2>3, <2>4, <2>5 DEF HandInv
<1>9. ASSUME NEW r \in Range(Tables)
      PROVE  run'.backend = "sqlite" /\ run'.journal # <<>> => InJournal(r)' = InGroups(r)'
  BY <1>7, RowsStay DEF RowsInv, KeepsRows
<1> QED  BY <1>1, <1>6, <1>8, <1>9 DEF RowsInv

\* A commit, or the last one of a run, sets out.
LEMMA FreezeRows ==
  ASSUME LegacyInv, RowsInv, proc.at = "ready", NEW aim \in {"capture", "close"},
         run' = run, offered' = offered, told' = told, proc' = Frozen([proc EXCEPT !.job = aim])
  PROVE  RowsInv'
<1> DEFINE todo == IF run.backend = "parquet" THEN WriteOrder(Filled(proc.buffer)) ELSE proc.todo
           at == IF run.backend = "parquet" THEN "write" ELSE "transaction"
<1>1. /\ LegacyShape /\ AtInv /\ run.state = "recording" /\ BetweenGroups /\ ~proc.refused /\ proc.files = {}
      /\ proc.job = "capture" /\ run.backend \in {"parquet", "sqlite"}
  BY DEF LegacyInv, LegacyTypes, AtInv, BetweenGroups
<1>2. proc' = [at |-> at, job |-> aim, buffer |-> proc.buffer, index |-> proc.index,
               todo |-> todo, files |-> proc.files, committed |-> proc.committed,
               refused |-> proc.refused]
  BY <1>1 DEF Frozen, LegacyShape
<1>3. proc'.at = at /\ proc'.buffer = proc.buffer /\ proc'.files = {} /\ proc'.todo = todo
  <2> HIDE DEF at, todo
  <2> QED  BY <1>1, <1>2
<1>4. at # "published" /\ at # "finalize" /\ (at = "write" => run.backend = "parquet")
  BY <1>1
<1>5. Range(WriteOrder(Filled(proc.buffer))) = Filled(proc.buffer)
  BY WriteOrderIs DEF Filled
<1>6. run.backend = "parquet" => Filled(proc.buffer) \subseteq Range(todo)
  BY <1>5
<1> HIDE DEF at, todo
<1>7. KeepsRows /\ RowsHeld /\ run'.parts \subseteq FilesOf
  BY <1>1 DEF KeepsRows, RowsHeld, RowsInv
<1>8. \A role \in Range(Tables) : HandInv(role)'
  BY <1>1, <1>3, <1>4, <1>7, HandStays
<1>9. proc'.at = "write" => FilesInv'
  BY <1>3, <1>4, <1>6 DEF FilesInv, OneFileEach
<1>10. run'.state # "absent" /\ run'.state # "finalized" /\ proc'.at # "finalize"
  BY <1>1, <1>3, <1>4
<1> QED  BY <1>7, <1>8, <1>9, <1>10, Quiet

LEMMA CommitRows == LegacyInv /\ RowsInv /\ Commit => RowsInv'
<1> SUFFICES ASSUME LegacyInv, RowsInv, Commit PROVE RowsInv'
  OBVIOUS
<1>1. proc.at = "ready" /\ run' = run /\ offered' = offered /\ told' = told
  BY DEF Commit, Known
<1>2. proc = [proc EXCEPT !.job = "capture"]
  BY DEF Commit, LegacyInv, LegacyTypes, LegacyShape
<1>3. proc' = Frozen([proc EXCEPT !.job = "capture"])
  BY <1>2 DEF Commit
<1> QED  BY <1>1, <1>3, FreezeRows

\* Where a run goes whose groups are all in the journal or the database.
LEMMA OnwardRows ==
  ASSUME LegacyInv, RowsInv, run.state = "recording", run' = run, offered' = offered, told' \in Buffers,
         NEW p, ProcShape(p), p.job \in {"capture", "close"}, p.buffer = NoRows, p.files = {}, ~p.refused,
         \A role \in Range(Tables) : told'[role] = offered[role] /\ Durable(role) = offered[role],
         proc' = Onward(p)
  PROVE  RowsInv'
<1> DEFINE missing == Roles(run.backend) \ p.committed
           write == IF Raw \in missing THEN <<Raw>> ELSE WriteOrder(missing)
           all == Append(Tables, Raw)
<1>1. /\ proc'.at \in {"ready", "seal", "write", "segments"} /\ proc'.buffer = NoRows /\ proc'.files = {}
      /\ (proc'.at = "write" => run.backend = "parquet")
  <2>1. run.backend \in {"parquet", "sqlite"}
    BY DEF LegacyInv, LegacyTypes
  <2>2. \/ proc' = [p EXCEPT !.at = "ready"]
        \/ proc' = [p EXCEPT !.at = "seal"]
        \/ run.backend = "parquet" /\ proc' = [p EXCEPT !.at = "write", !.todo = write]
        \/ proc' = [p EXCEPT !.at = "segments", !.todo = all]
    BY <2>1 DEF Onward
  <2> HIDE DEF write, all
  <2> QED  BY <2>2 DEF ProcShape
<1>2. \A role \in Range(Tables) : offered[role] \in Seq(Nat) /\ NoRows[role] = <<>>
  BY DEF LegacyInv, LegacyTypes, NoRows
<1>3. KeepsRows
  BY DEF KeepsRows
<1>4. ASSUME NEW role \in Range(Tables)
      PROVE  /\ IsPrefix(told'[role], Durable(role)') /\ IsPrefix(Durable(role)', offered'[role])
             /\ run'.backend = "sqlite" /\ run'.journal # <<>> => InJournal(role)' = InGroups(role)'
             /\ HandInv(role)'
  <2>1. Durable(role)' = offered[role] /\ told'[role] = offered[role] /\ offered[role] \in Seq(Nat)
    BY <1>2, <1>3, RowsStay
  <2>2. IsPrefix(offered[role], offered[role]) /\ offered[role] \o <<>> = offered[role]
    BY <2>1, PrefixOfItself, ConcatEmptySeq
  <2>3. run'.backend = "sqlite" /\ run'.journal # <<>> => InJournal(role)' = InGroups(role)'
    BY <1>3, RowsStay DEF RowsInv, KeepsRows
  <2>4. proc'.buffer[role] = <<>>
    BY <1>1, <1>2
  <2> QED  BY <2>1, <2>2, <2>3, <2>4 DEF HandInv
<1>5. proc'.at = "write" => FilesInv'
  <2>1. Filled(NoRows) = {}
    BY EmptyBuffer
  <2> QED  BY <1>1, <2>1 DEF FilesInv, OneFileEach
<1>6. run'.parts \subseteq FilesOf /\ run'.groups \in Seq(SUBSET FilesOf)
  BY DEF RowsInv
<1> QED  BY <1>1, <1>4, <1>5, <1>6 DEF RowsInv

LEMMA CloseRunRows == LegacyInv /\ RowsInv /\ Close => RowsInv'
<1> SUFFICES ASSUME LegacyInv, RowsInv, Close PROVE RowsInv'
  OBVIOUS
<1>1. /\ LegacyShape /\ AtInv /\ run.state = "recording" /\ proc.at = "ready" /\ ~proc.refused /\ proc.job = "capture"
      /\ run' = run /\ offered' = offered /\ told' = told /\ BetweenGroups
  BY DEF LegacyInv, LegacyTypes, AtInv, Close, Known
<1>2. CASE proc.buffer # NoRows
  <2>1. proc' = Frozen([proc EXCEPT !.job = "close"])
    BY <1>2 DEF Close
  <2> QED  BY <1>1, <2>1, FreezeRows
<1>3. CASE proc.buffer = NoRows
  <2> DEFINE closing == [proc EXCEPT !.job = "close"]
  <2>1. proc' = Onward(closing)
    BY <1>3 DEF Close
  <2>2. closing = [at |-> proc.at, job |-> "close", buffer |-> proc.buffer, index |-> proc.index, todo |-> proc.todo,
                   files |-> proc.files, committed |-> proc.committed, refused |-> proc.refused]
    BY <1>1 DEF LegacyShape
  <2> HIDE DEF closing
  <2>3. ProcShape(closing) /\ closing.job = "close" /\ closing.buffer = NoRows /\ closing.files = {} /\ ~closing.refused
    BY <1>1, <1>3, <2>2 DEF ProcShape, BetweenGroups
  <2>4. ASSUME NEW role \in Range(Tables) PROVE told[role] = offered[role] /\ Durable(role) = offered[role]
    <3>1. HandInv(role)
      BY <1>1 DEF RowsHeld, RowsInv
    <3>2. told[role] \in Seq(Nat) /\ proc.buffer[role] = <<>>
      BY <1>3 DEF RowsInv, Buffers, NoRows
    <3>3. told[role] \o <<>> = told[role]
      BY <3>2, ConcatEmptySeq
    <3> QED  BY <1>1, <3>1, <3>2, <3>3 DEF HandInv
  <2>5. told' \in Buffers
    BY <1>1 DEF RowsInv
  <2> QED  BY <1>1, <2>1, <2>3, <2>4, <2>5, OnwardRows
<1> QED  BY <1>2, <1>3

LEMMA ReturnsRows == LegacyInv /\ RowsInv /\ Returns => RowsInv'
<1> SUFFICES ASSUME LegacyInv, RowsInv, Returns PROVE RowsInv'
  OBVIOUS
<1> DEFINE index == IF run.backend = "parquet" THEN proc.index + 1 ELSE 0
           committed == proc.committed \cup {f.role : f \in proc.files}
           p == [proc EXCEPT !.buffer = NoRows, !.files = {}, !.index = index, !.committed = committed]
<1>1. /\ LegacyTypes /\ LegacyShape /\ AtInv /\ run.state = "recording" /\ JustPublished
      /\ ~proc.refused /\ proc.at = "published" /\ (run.backend = "parquet" \/ run.database = "recording")
      /\ run' = run /\ offered' = offered /\ run.backend \in {"parquet", "sqlite"} /\ proc.buffer \in Buffers
  BY DEF LegacyInv, LegacyTypes, AtInv, Returns
<1>2. told' = [role \in DOMAIN told |-> told[role] \o proc.buffer[role]]
  BY DEF Returns
<1>3. proc' = Onward(p)
  <2>1. p = [proc EXCEPT !.buffer = NoRows, !.files = {},
               !.index = IF run.backend = "parquet" THEN @ + 1 ELSE 0,
               !.committed = @ \cup {f.role : f \in proc.files}]
    OBVIOUS
  <2> HIDE DEF p
  <2> QED  BY <2>1 DEF Returns
<1> HIDE DEF index, committed
<1>4. ProcShape(p) /\ p.job = proc.job /\ p.buffer = NoRows /\ p.files = {} /\ ~p.refused
  <2>1. p = [proc EXCEPT !.buffer = NoRows, !.files = {}, !.index = index, !.committed = committed]
    OBVIOUS
  <2> HIDE DEF p
  <2>2. p = [at |-> proc.at, job |-> proc.job, buffer |-> NoRows, index |-> index, todo |-> proc.todo,
             files |-> {}, committed |-> committed, refused |-> proc.refused]
    BY <1>1, <2>1 DEF LegacyShape
  <2> QED  BY <1>1, <2>2 DEF ProcShape
<1> HIDE DEF p
<1>5. proc.job \in {"capture", "close"}
  BY <1>1 DEF JustPublished, BeforePromotion
<1>6. ASSUME NEW role \in Range(Tables)
      PROVE  /\ told'[role] = offered[role] /\ Durable(role) = offered[role] /\ offered[role] \in Seq(Nat)
  <2>1. HandInv(role)
    BY <1>1, <1>5 DEF RowsHeld, RowsInv
  <2>2. told'[role] = told[role] \o proc.buffer[role]
    BY <1>2 DEF RowsInv, Buffers
  <2> QED  BY <1>1, <2>1, <2>2 DEF HandInv, LegacyTypes
<1>7. told' \in Buffers
  <2>1. DOMAIN told = Range(Tables)
    BY DEF RowsInv, Buffers
  <2>2. told' = [role \in Range(Tables) |-> told'[role]]
    BY <1>2, <2>1
  <2> QED  BY <1>6, <2>2 DEF Buffers
<1> QED  BY <1>1, <1>3, <1>4, <1>5, <1>6, <1>7, OnwardRows

LEMMA RaisesRows == LegacyInv /\ RowsInv /\ (Raises \/ Retry \/ Seal) => RowsInv'
<1> SUFFICES ASSUME LegacyInv, RowsInv, Raises \/ Retry \/ Seal PROVE RowsInv'
  OBVIOUS
<1>1. /\ LegacyShape /\ AtInv /\ run.state = "recording" /\ told' = told /\ offered' = offered /\ ~proc.refused
      /\ proc.at \in {"write", "transaction", "raised", "seal"} /\ run.parts \subseteq FilesOf
  BY DEF LegacyInv, LegacyTypes, AtInv, Raises, Retry, Seal, Known, RowsInv
<1>2. KeepsRows /\ run'.parts = run.parts /\ run'.state = "recording"
  <2>1. CASE run' = run
    BY <1>1, <2>1 DEF KeepsRows
  <2>2. ASSUME NEW x, run' = [run EXCEPT !.temps = x] \/ run' = [run EXCEPT !.database = x]
        PROVE  KeepsRows /\ run'.parts = run.parts /\ run'.state = "recording"
    BY <1>1, <2>2 DEF KeepsRows, LegacyShape
  <2>3. CASE LeavesTemp
    BY <2>2, <2>3 DEF LeavesTemp
  <2>4. CASE Seal
    BY <2>2, <2>4 DEF Seal
  <2> QED  BY <2>1, <2>3, <2>4 DEF Raises, Retry
<1>3. /\ proc'.at \in {"raised", "ready", "write"} /\ proc'.buffer = proc.buffer /\ proc'.job = proc.job
      /\ (proc'.at = "write" => run.backend = "sqlite" /\ proc'.files = {})
  <2>1. CASE Raises
    <3>1. proc' = [proc EXCEPT !.at = "raised", !.todo = <<>>, !.files = {}]
      BY <2>1 DEF Raises
    <3> QED  BY <1>1, <3>1 DEF LegacyShape
  <2>2. CASE Retry
    BY <1>1, <2>2 DEF LegacyShape, Retry
  <2>3. CASE Seal
    <3> DEFINE todo == Tables
    <3> HIDE DEF todo
    <3>1. proc' = [proc EXCEPT !.at = "write", !.todo = todo, !.files = {}, !.index = 0]
      BY <2>3 DEF Seal, todo
    <3>2. run.backend = "sqlite"
      BY <1>1, <2>3 DEF AtInv, Seal
    <3> QED  BY <1>1, <3>1, <3>2 DEF LegacyShape
  <2> QED  BY <2>1, <2>2, <2>3
<1>4. RowsHeld' => RowsHeld
  BY <1>1, <1>3 DEF RowsHeld
<1>5. RowsHeld' => \A role \in Range(Tables) : HandInv(role)'
  BY <1>1, <1>2, <1>3, <1>4, HandStays
<1>6. proc'.at = "write" => FilesInv'
  BY <1>2, <1>3 DEF FilesInv, OneFileEach, KeepsRows
<1>7. run'.state # "absent" /\ run'.state # "finalized" /\ proc'.at # "finalize" /\ run'.parts \subseteq FilesOf
  BY <1>1, <1>2, <1>3
<1> QED  BY <1>1, <1>2, <1>5, <1>6, <1>7, Quiet

LEMMA RaisesLateRows == LegacyInv /\ RowsInv /\ RaisesLate => RowsInv'
<1> SUFFICES ASSUME LegacyInv, RowsInv, RaisesLate PROVE RowsInv'
  OBVIOUS
<1>1. /\ LegacyShape /\ run.state = "recording" /\ told' = told /\ offered' = offered
      /\ proc.at \in {"write", "published"} /\ proc.job = "capture" /\ run.parts \subseteq FilesOf
      /\ proc' = [proc EXCEPT !.at = "raised", !.refused = TRUE]
  BY DEF LegacyInv, LegacyTypes, RaisesLate, Known, RowsInv
<1>2. KeepsRows /\ run'.parts = run.parts /\ run'.state = "recording"
  <2>1. CASE run' = run
    BY <1>1, <2>1 DEF KeepsRows
  <2>2. CASE run' = [run EXCEPT !.torn = TRUE]
    BY <1>1, <2>2 DEF KeepsRows, LegacyShape
  <2> QED  BY <2>1, <2>2 DEF RaisesLate
<1>3. proc'.at = "raised" /\ proc'.refused = TRUE /\ proc'.buffer = proc.buffer
  BY <1>1 DEF LegacyShape
<1>4. ASSUME NEW role \in Range(Tables) PROVE HandInv(role)'
  <2>1. HandInv(role)
    BY <1>1 DEF RowsHeld, RowsInv
  <2> QED  BY <1>1, <1>3, <2>1 DEF HandInv
<1>5. run'.state # "absent" /\ run'.state # "finalized" /\ proc'.at # "finalize" /\ proc'.at # "write"
      /\ run'.parts \subseteq FilesOf
  BY <1>1, <1>2, <1>3
<1> QED  BY <1>1, <1>2, <1>4, <1>5, Quiet

LEMMA WriteRows == LegacyInv /\ RowsInv /\ WriteSegment => RowsInv'
<1> SUFFICES ASSUME LegacyInv, RowsInv, WriteSegment PROVE RowsInv'
  OBVIOUS
<1> DEFINE role == Head(proc.todo)
           part == Part(role, proc.index, Content(role))
           parts == Placed(run.parts, {part})
           temps == run.temps \ {<<part.role, part.index>>}
           rest == Tail(proc.todo)
           wrote == proc.files \cup {part}
<1>1. /\ run' = [run EXCEPT !.parts = parts, !.temps = temps]
      /\ proc' = [proc EXCEPT !.todo = rest, !.files = wrote]
      /\ proc.at = "write" /\ proc.todo # <<>> /\ offered' = offered /\ told' = told
  BY DEF WriteSegment, Known
<1>2. /\ LegacyTypes /\ LegacyShape /\ AtInv /\ run.state = "recording" /\ JournalInv /\ WritingGroup
      /\ ~proc.refused /\ FilesInv /\ run.parts \subseteq FilesOf /\ run.groups \in Seq(SUBSET FilesOf)
  BY <1>1 DEF LegacyInv, LegacyTypes, AtInv, RowsInv
<1>3. /\ role \in Roles(run.backend) /\ Range(proc.todo) = {role} \cup Range(rest) /\ role \notin Range(rest)
      /\ role \in Range(proc.todo)
  <2>1. proc.todo \in Seq(Roles(run.backend)) /\ Injective(proc.todo)
    BY <1>2 DEF LegacyTypes, WritingGroup, Injective
  <2> QED  BY <1>1, <2>1, RestIs
<1>4. part.role = role /\ part.index = proc.index /\ part.rows = Content(role)
  BY DEF Part
<1>5. /\ run.backend = "sqlite" => part.rows = InGroups(role) /\ role \in Range(Tables)
      /\ run.backend = "parquet" /\ role \in Range(Tables) => part.rows = proc.buffer[role]
      /\ run.backend = "parquet" /\ role \notin Range(Tables) => part.rows = <<>>
      /\ run.backend \in {"parquet", "sqlite"} /\ role \in Range(Tables) \cup {Raw}
  <2>1. run.backend = "sqlite" => Content(role) = InGroups(role)
    BY <1>2 DEF Content, Authority, InGroups
  <2>2. run.backend = "parquet" => Content(role) = IF role = Raw THEN <<>> ELSE proc.buffer[role]
    BY DEF Content
  <2>3. Raw \notin Range(Tables) /\ role \in Range(Tables) \cup {Raw} /\ (run.backend = "sqlite" => role \in Range(Tables))
    BY <1>3, RolesAre DEF Raw, Roles
  <2>4. run.backend \in {"parquet", "sqlite"}
    BY <1>2 DEF LegacyTypes
  <2> HIDE DEF role, part
  <2> QED  BY <1>4, <2>1, <2>2, <2>3, <2>4
<1>6. part \in FilesOf
  <2>1. part.rows \in Seq(Nat)
    <3>1. proc.buffer \in Buffers /\ InGroups(role) \in Seq(Nat) /\ <<>> \in Seq(Nat)
      BY <1>2, DurableTyped, EmptySeq DEF LegacyTypes
    <3>2. role \in Range(Tables) => proc.buffer[role] \in Seq(Nat)
      BY <3>1 DEF Buffers
    <3> QED  BY <1>5, <3>1, <3>2
  <2>2. proc.index \in Nat
    BY <1>2 DEF LegacyTypes
  <2>3. part = [role |-> role, index |-> proc.index, rows |-> Content(role)]
    BY DEF Part
  <2> QED  BY <1>4, <1>5, <2>1, <2>2, <2>3 DEF FilesOf
<1>7. parts \subseteq FilesOf
  BY <1>2, <1>6 DEF Placed
<1> HIDE DEF role, part, parts, temps, rest
<1>8. KeepsRows /\ run'.parts = parts /\ run'.state = "recording"
  BY <1>1, <1>2 DEF KeepsRows, LegacyShape
<1>9. /\ proc'.at = "write" /\ proc'.todo = rest /\ proc'.files = wrote /\ proc'.buffer = proc.buffer
      /\ proc'.job = proc.job
  <2> HIDE DEF wrote
  <2> QED  BY <1>1, <1>2 DEF LegacyShape
<1>10. RowsHeld' => \A r \in Range(Tables) : HandInv(r)'
  <2>1. RowsHeld' => RowsHeld
    BY <1>1, <1>9 DEF RowsHeld
  <2> QED  BY <1>1, <1>2, <1>8, <1>9, <2>1, HandStays
<1>11. FilesInv'
  <2>1. OneFileEach(wrote)
    <3>1. \A f \in proc.files : f.role # role
      BY <1>2, <1>3 DEF WritingGroup
    <3> QED  BY <1>2, <1>4, <3>1 DEF FilesInv, OneFileEach
  <2>2. run.backend = "parquet" => \A f \in wrote : f.role \in Range(Tables) => f.rows = proc.buffer[f.role]
    BY <1>2, <1>4, <1>5 DEF FilesInv
  <2>3. run.backend = "sqlite" => \A f \in wrote : f.rows = InGroups(f.role)
    BY <1>2, <1>4, <1>5 DEF FilesInv
  <2>4. RolesIn(wrote) \cup Range(rest) = RolesIn(proc.files) \cup Range(proc.todo)
    BY <1>3, <1>4 DEF RolesIn
  <2>5. \A r : InGroups(r)' = InGroups(r)
    BY <1>8, RowsStay
  <2> HIDE DEF wrote
  <2>6. RolesIn(proc'.files) = RolesIn(wrote)
    BY <1>9
  <2>7. run'.backend = "sqlite" => \A f \in proc'.files : f.rows = InGroups(f.role)'
    BY <1>8, <1>9, <2>3, <2>5 DEF KeepsRows
  <2> QED  BY <1>2, <1>8, <1>9, <2>1, <2>2, <2>4, <2>6, <2>7 DEF FilesInv, KeepsRows
<1> QED  BY <1>1, <1>7, <1>8, <1>9, <1>10, <1>11, Quiet

LEMMA TransactionRows == LegacyInv /\ RowsInv /\ Transaction => RowsInv'
<1> SUFFICES ASSUME LegacyInv, RowsInv, Transaction PROVE RowsInv'
  OBVIOUS
<1> DEFINE group == {Part(role, Len(run.groups), proc.buffer[role]) : role \in Filled(proc.buffer)}
           groups == Append(run.groups, group)
           n == Len(run.groups)
<1>1. /\ LegacyTypes /\ LegacyShape /\ AtInv /\ run.state = "recording" /\ JournalInv
      /\ ~proc.refused /\ run.backend = "sqlite" /\ BeforePromotion /\ proc.at = "transaction"
      /\ run' = [run EXCEPT !.groups = groups]
      /\ proc' = [proc EXCEPT !.at = "published"] /\ offered' = offered /\ told' = told
      /\ run.parts \subseteq FilesOf /\ run.groups \in Seq(SUBSET FilesOf) /\ told \in Buffers
      /\ proc.buffer \in Buffers
  BY DEF LegacyInv, LegacyTypes, AtInv, Transaction, Known, RowsInv
<1>2. n \in Nat /\ DOMAIN run.groups = 1 .. n
  BY <1>1, LenProperties
<1>3. \A f : f \in group <=> \E role \in Filled(proc.buffer) : f = [role |-> role, index |-> n, rows |-> proc.buffer[role]]
  BY DEF Part
<1>4. ASSUME NEW f \in group
      PROVE  f \in FilesOf /\ f.role \in Filled(proc.buffer) /\ f.rows = proc.buffer[f.role] /\ f.index = n
  <2>1. PICK role \in Filled(proc.buffer) : f = [role |-> role, index |-> n, rows |-> proc.buffer[role]]
    BY <1>3
  <2>2. role \in Range(Tables) /\ proc.buffer[role] \in Seq(Nat)
    BY <1>1 DEF Filled, Buffers
  <2> HIDE DEF n, group
  <2> QED  BY <1>2, <2>1, <2>2 DEF FilesOf
<1>5. ASSUME NEW role \in Filled(proc.buffer) PROVE \E f \in group : f.role = role
  <2>1. PICK f : f = [role |-> role, index |-> n, rows |-> proc.buffer[role]]
    OBVIOUS
  <2> HIDE DEF n, group
  <2> QED  BY <1>3, <2>1
<1> HIDE DEF group
<1>6. ASSUME NEW role \in Range(Tables) PROVE RowsIn(group, role) = proc.buffer[role]
  <2>1. CASE role \in Filled(proc.buffer)
    <3>1. (\E f \in group : f.role = role) /\ (CHOOSE f \in group : f.role = role).role = role
          /\ (CHOOSE f \in group : f.role = role) \in group
      BY <1>5, <2>1
    <3>2. (CHOOSE f \in group : f.role = role).rows = proc.buffer[role]
      BY <1>4, <3>1
    <3> QED  BY <3>1, <3>2 DEF RowsIn
  <2>2. CASE role \notin Filled(proc.buffer)
    <3>1. proc.buffer[role] = <<>>
      BY <2>2 DEF Filled
    <3>2. ~\E f \in group : f.role = role
      BY <1>4, <2>2
    <3> QED  BY <3>1, <3>2 DEF RowsIn
  <2> QED  BY <2>1, <2>2
<1>7. /\ groups \in Seq(SUBSET FilesOf) /\ DOMAIN groups = 1 .. n + 1 /\ groups[n + 1] = group
      /\ \A i \in 1 .. n : groups[i] = run.groups[i]
  <2>1. group \in SUBSET FilesOf
    BY <1>4
  <2>2. ASSUME NEW S, NEW s \in Seq(S), NEW e \in S
        PROVE  /\ Append(s, e) \in Seq(S) /\ DOMAIN Append(s, e) = 1 .. Len(s) + 1 /\ Append(s, e)[Len(s) + 1] = e
               /\ \A i \in 1 .. Len(s) : Append(s, e)[i] = s[i]
    BY AppendProperties, LenProperties
  <2> QED  BY <1>1, <2>1, <2>2
<1> HIDE DEF groups
<1>8. run'.groups = groups /\ run'.parts = run.parts /\ run'.journal = run.journal /\ run'.state = "recording"
      /\ run'.backend = "sqlite" /\ run'.database = run.database
  BY <1>1 DEF LegacyShape
<1>9. proc'.at = "published" /\ proc'.buffer = proc.buffer /\ proc'.job = proc.job
  BY <1>1 DEF LegacyShape
<1>10. ASSUME NEW role \in Range(Tables)
       PROVE  IsPrefix(told'[role], Durable(role)') /\ IsPrefix(Durable(role)', offered'[role]) /\ HandInv(role)'
  <2>1. offered[role] = told[role] \o proc.buffer[role] /\ InGroups(role) = told[role]
    <3>1. RowsHeld
      BY <1>1 DEF RowsHeld, BeforePromotion
    <3> QED  BY <1>1, <3>1 DEF RowsInv, HandInv, Durable
  <2> DEFINE a == [i \in DOMAIN run.groups |-> RowsIn(run.groups[i], role)]
             b == [i \in DOMAIN groups |-> RowsIn(groups[i], role)]
  <2>2. /\ a \in [1 .. n -> Seq(Nat)] /\ b \in [1 .. n + 1 -> Seq(Nat)] /\ b[n + 1] = proc.buffer[role]
        /\ \A i \in 1 .. n : b[i] = a[i]
    <3>1. \A i \in 1 .. n : RowsIn(run.groups[i], role) \in Seq(Nat)
      BY <1>1, <1>2, DurableTyped
    <3>2. RowsIn(groups[n + 1], role) = proc.buffer[role] /\ proc.buffer[role] \in Seq(Nat)
      BY <1>1, <1>6, <1>7 DEF Buffers
    <3>3. \A i \in 1 .. n + 1 : i \in 1 .. n \/ i = n + 1
      BY <1>2
    <3>4. n + 1 \in 1 .. n + 1 /\ 1 .. n \subseteq 1 .. n + 1
      BY <1>2
    <3> HIDE DEF n
    <3> QED  BY <1>2, <1>7, <3>1, <3>2, <3>3, <3>4
  <2>3. InGroups(role)' = FlattenSeq(b) /\ InGroups(role) = FlattenSeq(a)
    BY <1>8 DEF InGroups
  <2> HIDE DEF a, b, n
  <2>4. Durable(role)' = told[role] \o proc.buffer[role]
    BY <1>2, <1>8, <2>1, <2>2, <2>3, PiecesMore DEF Durable
  <2>5. told[role] \in Seq(Nat) /\ proc.buffer[role] \in Seq(Nat) /\ offered[role] \in Seq(Nat)
    BY <1>1 DEF Buffers, LegacyTypes
  <2>6. IsPrefix(told[role], told[role] \o proc.buffer[role]) /\ IsPrefix(offered[role], offered[role])
    BY <2>5, PrefixOfItself, PrefixOfLonger
  <2> QED  BY <1>1, <1>9, <2>1, <2>4, <2>6 DEF HandInv
<1>11. run'.journal = <<>>
  BY <1>1, <1>8 DEF BeforePromotion
<1> QED  BY <1>1, <1>7, <1>8, <1>9, <1>10, <1>11 DEF RowsInv

LEMMA PublishedRows == LegacyInv /\ RowsInv /\ Publish => RowsInv'
<1> SUFFICES ASSUME LegacyInv, RowsInv, Publish PROVE RowsInv'
  OBVIOUS
<1> DEFINE record == [index |-> proc.index, files |-> proc.files]
           journal == IF run.backend = "sqlite" THEN <<record>> ELSE Append(run.journal, record)
<1>1. /\ LegacyTypes /\ LegacyShape /\ AtInv /\ run.state = "recording" /\ JournalInv /\ WritingGroup
      /\ ~proc.refused /\ proc.at = "write" /\ proc.todo = <<>> /\ told \in Buffers /\ proc.buffer \in Buffers
      /\ proc' = [proc EXCEPT !.at = "published"] /\ offered' = offered /\ told' = told
      /\ run.parts \subseteq FilesOf /\ run.groups \in Seq(SUBSET FilesOf) /\ FilesInv
      /\ run.backend \in {"parquet", "sqlite"}
  BY DEF LegacyInv, LegacyTypes, AtInv, Publish, Known, RowsInv
<1>2. run' = [run EXCEPT !.journal = journal]
  BY <1>1 DEF Publish, WritingGroup
<1>3. record.files = proc.files /\ proc.files \in SUBSET FilesOf
  BY <1>1 DEF WritingGroup
<1> HIDE DEF record, journal
<1>4. run'.journal = journal /\ run'.groups = run.groups /\ run'.parts = run.parts /\ run'.state = "recording"
      /\ run'.backend = run.backend /\ run'.database = run.database
  BY <1>1, <1>2 DEF LegacyShape
<1>5. proc'.at = "published" /\ proc'.buffer = proc.buffer /\ proc'.job = proc.job
  BY <1>1 DEF LegacyShape
<1>6. ASSUME NEW role \in Range(Tables)
      PROVE  /\ RowsIn(proc.files, role) \in Seq(Nat)
             /\ run.backend = "parquet" => RowsIn(proc.files, role) = proc.buffer[role]
             /\ run.backend = "sqlite" => RowsIn(proc.files, role) = InGroups(role)
  <2>1. RowsIn(proc.files, role) \in Seq(Nat)
    BY <1>3, RowsInTyped
  <2>2. CASE \E f \in proc.files : f.role = role
    <3>1. PICK f \in proc.files : f.role = role
      BY <2>2
    <3>2. RowsIn(proc.files, role) = f.rows
      BY <1>1, <3>1, RowsInIs DEF FilesInv
    <3> QED  BY <1>1, <2>1, <3>1, <3>2 DEF FilesInv
  <2>3. CASE ~\E f \in proc.files : f.role = role
    <3>1. RowsIn(proc.files, role) = <<>> /\ role \notin RolesIn(proc.files) \cup Range(proc.todo)
      BY <1>1, <2>3, EmptyRange DEF RowsIn, RolesIn
    <3>2. run.backend = "sqlite" => role \in RolesIn(proc.files) \cup Range(proc.todo)
      BY <1>1 DEF WritingGroup
    <3>3. run.backend = "parquet" => role \notin Filled(proc.buffer)
      BY <1>1, <3>1 DEF FilesInv
    <3> QED  BY <2>1, <3>1, <3>2, <3>3 DEF Filled
  <2> QED  BY <2>2, <2>3
<1>7. CASE run.backend = "parquet"
  <2> DEFINE n == Len(run.journal)
  <2>1. n \in Nat /\ DOMAIN run.journal = 1 .. n
    BY <1>1, JournalIs DEF Groups
  <2>2. DOMAIN journal = 1 .. n + 1 /\ journal[n + 1] = record /\ \A i \in 1 .. n : journal[i] = run.journal[i]
    <3> DEFINE S == Range(run.journal) \cup {record}
    <3>1. run.journal \in Seq(S) /\ record \in S
      BY <1>1, SeqMonotonic DEF JournalInv
    <3>2. journal = Append(run.journal, record)
      BY <1>7 DEF journal
    <3>3. ASSUME NEW T, NEW s \in Seq(T), NEW e \in T
          PROVE  /\ DOMAIN Append(s, e) = 1 .. Len(s) + 1 /\ Append(s, e)[Len(s) + 1] = e
                 /\ \A i \in 1 .. Len(s) : Append(s, e)[i] = s[i]
      BY AppendProperties, LenProperties
    <3> HIDE DEF S
    <3> QED  BY <3>1, <3>2, <3>3
  <2>3. proc.job \in {"capture", "close"}
    BY <1>1, <1>7 DEF WritingGroup
  <2>4. ASSUME NEW role \in Range(Tables)
        PROVE  IsPrefix(told'[role], Durable(role)') /\ IsPrefix(Durable(role)', offered'[role]) /\ HandInv(role)'
    <3>1. offered[role] = told[role] \o proc.buffer[role] /\ InJournal(role) = told[role]
      BY <1>1, <1>7, <2>3 DEF RowsHeld, RowsInv, HandInv, Durable
    <3> DEFINE a == [i \in DOMAIN run.journal |-> RowsIn(run.journal[i].files, role)]
               b == [i \in DOMAIN journal |-> RowsIn(journal[i].files, role)]
    <3>2. /\ a \in [1 .. n -> Seq(Nat)] /\ b \in [1 .. n + 1 -> Seq(Nat)] /\ b[n + 1] = proc.buffer[role]
          /\ \A i \in 1 .. n : b[i] = a[i]
      <4>1. \A i \in 1 .. n : RowsIn(run.journal[i].files, role) \in Seq(Nat)
        BY <1>1, DurableTyped DEF Groups
      <4>2. RowsIn(journal[n + 1].files, role) = proc.buffer[role] /\ proc.buffer[role] \in Seq(Nat)
        BY <1>1, <1>3, <1>6, <1>7, <2>2 DEF Buffers
      <4>3. \A i \in 1 .. n + 1 : i \in 1 .. n \/ i = n + 1
        BY <2>1
      <4>4. n + 1 \in 1 .. n + 1 /\ 1 .. n \subseteq 1 .. n + 1
        BY <2>1
      <4> HIDE DEF n
      <4> QED  BY <2>1, <2>2, <4>1, <4>2, <4>3, <4>4
    <3>3. InJournal(role)' = FlattenSeq(b) /\ InJournal(role) = FlattenSeq(a)
      BY <1>4 DEF InJournal
    <3> HIDE DEF a, b, n
    <3>4. Durable(role)' = told[role] \o proc.buffer[role]
      BY <1>4, <1>7, <2>1, <3>1, <3>2, <3>3, PiecesMore DEF Durable
    <3>5. told[role] \in Seq(Nat) /\ proc.buffer[role] \in Seq(Nat) /\ offered[role] \in Seq(Nat)
      BY <1>1 DEF Buffers, LegacyTypes
    <3>6. IsPrefix(told[role], told[role] \o proc.buffer[role]) /\ IsPrefix(offered[role], offered[role])
      BY <3>5, PrefixOfItself, PrefixOfLonger
    <3> QED  BY <1>1, <1>5, <3>1, <3>4, <3>6 DEF HandInv
  <2> QED  BY <1>1, <1>4, <1>5, <1>7, <2>4 DEF RowsInv
<1>8. CASE run.backend = "sqlite"
  <2>1. run.journal = <<>> /\ run.database = "sealed" /\ DOMAIN journal = 1 .. 1 /\ journal[1] = record
    BY <1>1, <1>8 DEF WritingGroup, journal
  <2>2. ASSUME NEW role \in Range(Tables)
        PROVE  /\ Durable(role)' = Durable(role) /\ InGroups(role)' = InGroups(role)
               /\ InJournal(role)' = InGroups(role)
    <3> DEFINE b == [i \in DOMAIN journal |-> RowsIn(journal[i].files, role)]
    <3>1. b[1] = InGroups(role) /\ b \in [1 .. 1 -> Seq(Nat)]
      <4>1. RowsIn(journal[1].files, role) = InGroups(role) /\ InGroups(role) \in Seq(Nat)
        BY <1>3, <1>6, <1>8, <2>1
      <4>2. \A i \in 1 .. 1 : i = 1
        OBVIOUS
      <4> QED  BY <2>1, <4>1, <4>2
    <3>2. InJournal(role)' = FlattenSeq(b)
      BY <1>4 DEF InJournal
    <3> HIDE DEF b
    <3>3. FlattenSeq(b) = InGroups(role)
      BY <3>1, OnePiece
    <3>4. InGroups(role)' = InGroups(role)
      BY <1>4 DEF InGroups
    <3> QED  BY <1>4, <1>8, <3>2, <3>3, <3>4 DEF Durable
  <2>3. ASSUME NEW role \in Range(Tables)
        PROVE  /\ IsPrefix(told'[role], Durable(role)') /\ IsPrefix(Durable(role)', offered'[role])
               /\ RowsHeld' => HandInv(role)'
    <3>1. IsPrefix(told[role], Durable(role)) /\ IsPrefix(Durable(role), offered[role])
      BY DEF RowsInv
    <3>2. RowsHeld' => HandInv(role)
      BY <1>1, <1>5 DEF RowsHeld, RowsInv
    <3> QED  BY <1>1, <1>4, <1>5, <1>8, <2>1, <2>2, <3>1, <3>2 DEF HandInv
  <2> QED  BY <1>1, <1>4, <1>5, <2>2, <2>3 DEF RowsInv
<1> QED  BY <1>1, <1>7, <1>8

LEMMA RowsSame == RowsInv /\ UNCHANGED legacyVars => RowsInv'
<1> SUFFICES ASSUME RowsInv, UNCHANGED legacyVars PROVE RowsInv'
  OBVIOUS
<1>1. run' = run /\ proc' = proc /\ told' = told /\ offered' = offered
  BY DEF legacyVars
<1>2. KeepsRows
  BY <1>1 DEF KeepsRows
<1>3. \A role : InGroups(role)' = InGroups(role) /\ InJournal(role)' = InJournal(role) /\ Durable(role)' = Durable(role)
  BY <1>2, RowsStay
<1>4. \A role \in Range(Tables) : HandInv(role) => HandInv(role)'
  BY <1>1, <1>3 DEF HandInv
<1>5. FilesInv => FilesInv'
  BY <1>1, <1>3 DEF FilesInv, OneFileEach
<1>6. RowsHeld' = RowsHeld
  BY <1>1 DEF RowsHeld
<1> QED  BY <1>1, <1>3, <1>4, <1>5, <1>6 DEF RowsInv

LEMMA RowsSteps == LegacyInv /\ RowsInv /\ [LegacyNext]_legacyVars => RowsInv'
<1> SUFFICES ASSUME LegacyInv, RowsInv, [LegacyNext]_legacyVars PROVE RowsInv'
  OBVIOUS
<1>1. CASE UNCHANGED legacyVars
  BY <1>1, RowsSame
<1>2. CASE LegacyNext
  <2>1. ASSUME NEW backend \in {"parquet", "sqlite"}, Open(backend) PROVE RowsInv'
    BY <2>1, OpenRows
  <2>2. ASSUME NEW role \in Range(Tables), Add(role) PROVE RowsInv'
    BY <2>2, AddRows
  <2>3. CASE Commit \/ WriteSegment \/ Publish \/ Transaction \/ Returns
    BY <2>3, CommitRows, WriteRows, PublishedRows, TransactionRows, ReturnsRows
  <2>4. CASE Raises \/ RaisesLate \/ Retry \/ Close \/ Seal
    BY <2>4, RaisesRows, RaisesLateRows, CloseRunRows
  <2>5. CASE Promoted \/ WriteManifest \/ SegmentsDone \/ WriteRunManifest \/ MoveOrphan \/ OrphansMoved
    BY <2>5, CloseRows
  <2>6. CASE RefuseManifest \/ MarkFinalized \/ Dies \/ Recover \/ Refuse
    BY <2>6, EndRows
  <2> QED  BY <1>2, <2>1, <2>2, <2>3, <2>4, <2>5, <2>6 DEF LegacyNext
<1> QED  BY <1>1, <1>2

(***************************************************************************)
(* Every row a capture was told is on disk is a row the run recovers, in   *)
(* the order it was offered, for any number of rows of any streams,        *)
(* whichever backend writes them, and however many commits fail and        *)
(* processes die, at whatever step (durability.py, sqlite_durability.py,   *)
(* recovery.py).                                                           *)
(***************************************************************************)
THEOREM CommittedRowsAreRecovered == Spec => []CommittedIsRecovered
<1>1. Init => LegacyInv /\ RowsInv
  BY LegacyBegins, LegacyStarts, RowsStart
<1>2. LegacyInv /\ RowsInv /\ [Next]_commandVars => LegacyInv' /\ RowsInv'
  BY LegacyGoes, LegacySteps, RowsSteps
<1> QED  BY <1>1, <1>2, RowsTold, PTL DEF Spec
=============================================================================
