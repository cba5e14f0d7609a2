---------------------------- MODULE CatalogProofs ----------------------------
(***************************************************************************)
(* What the jobs of the market catalog publish and what a reader of it     *)
(* finds there; for any streams, overlap, markets, changes and releases,   *)
(* and any interleaving and deaths of the jobs.                            *)
(***************************************************************************)
EXTENDS MCCommands, FiniteSetTheorems, WellFoundedInduction, TLAPS

-----------------------------------------------------------------------------
(* Numbers and sequences.                                                   *)

\* A set of numbers has a least one.
LEMMA Least == ASSUME NEW T, T \subseteq Nat, T # {} PROVE \E n \in T : \A m \in T : n <= m
<1> DEFINE R == OpToRel(<, Nat)
<1>1. \A x, y \in Nat : y < x => <<y, x>> \in R
  BY DEF OpToRel
<1>2. IsWellFoundedOn(R, Nat)
  BY NatLessThanWellFounded
<1> HIDE DEF R
<1>3. PICK x \in T : \A y \in T : <<y, x>> \notin R
  BY <1>2, WFMin
<1>4. ASSUME NEW y \in T PROVE x <= y
  <2>1. x \in Nat /\ y \in Nat /\ ~(y < x)
    BY <1>1, <1>3
  <2> QED  BY <2>1
<1> QED  BY <1>4

\* And so has a bounded one a greatest.
LEMMA Greatest ==
  ASSUME NEW T, T \subseteq Nat, T # {}, NEW bound \in Nat, \A n \in T : n <= bound
  PROVE  \E n \in T : \A m \in T : m <= n
<1> DEFINE left == {bound - n : n \in T}
<1>1. \A n \in T : bound - n \in Nat
  OBVIOUS
<1>2. left \subseteq Nat /\ left # {}
  BY <1>1
<1>3. PICK l \in left : \A k \in left : l <= k
  BY <1>2, Least
<1>4. PICK n \in T : l = bound - n
  BY <1>3
<1>5. \A m \in T : bound - n <= bound - m
  BY <1>3, <1>4
<1>6. \A m \in T : m <= n
  BY <1>5
<1> QED  BY <1>6

\* What a sequence holds.
LEMMA RangeIs ==
  ASSUME NEW S, NEW t \in Seq(S)
  PROVE  /\ Len(t) \in Nat /\ Range(t) \subseteq S
         /\ \A r : r \in Range(t) <=> \E i \in 1 .. Len(t) : r = t[i]
<1>1. Len(t) \in Nat /\ DOMAIN t = 1 .. Len(t) /\ \A i \in 1 .. Len(t) : t[i] \in S
  OBVIOUS
<1>2. Range(t) = {t[i] : i \in 1 .. Len(t)}
  BY <1>1 DEF Range
<1> QED  BY <1>1, <1>2

\* The start of a sequence, and what comes after it.
LEMMA PrefixIs ==
  ASSUME NEW S, NEW s \in Seq(S), NEW t \in Seq(S)
  PROVE  IsPrefix(s, t) <=> Len(s) <= Len(t) /\ \A i \in 1 .. Len(s) : s[i] = t[i]
BY DEF IsPrefix

LEMMA EmptyPrefix == ASSUME NEW S, NEW t \in Seq(S) PROVE IsPrefix(<<>>, t)
BY DEF IsPrefix

LEMMA LongerPrefix ==
  ASSUME NEW S, NEW s \in Seq(S), NEW t \in Seq(S), NEW x \in S
  PROVE  /\ Append(t, x) \in Seq(S) /\ Len(Append(t, x)) = Len(t) + 1
         /\ \A i \in 1 .. Len(t) : Append(t, x)[i] = t[i]
         /\ Append(t, x)[Len(t) + 1] = x
         /\ IsPrefix(s, t) => IsPrefix(s, Append(t, x))
         /\ IsPrefix(t, t) /\ Range(Append(t, x)) = Range(t) \cup {x}
<1>1. /\ Append(t, x) \in Seq(S) /\ Len(Append(t, x)) = Len(t) + 1
      /\ \A i \in 1 .. Len(t) : Append(t, x)[i] = t[i]
      /\ Append(t, x)[Len(t) + 1] = x
  OBVIOUS
<1>2. (IsPrefix(s, t) => IsPrefix(s, Append(t, x))) /\ IsPrefix(t, t)
  <2>1. IsPrefix(s, t) => Len(s) <= Len(t) /\ \A i \in 1 .. Len(s) : s[i] = t[i]
    BY PrefixIs
  <2>2. IsPrefix(s, Append(t, x))
          <=> Len(s) <= Len(t) + 1 /\ \A i \in 1 .. Len(s) : s[i] = Append(t, x)[i]
    <3> DEFINE longer == Append(t, x)
    <3>1. longer \in Seq(S) /\ Len(longer) = Len(t) + 1
      BY <1>1
    <3> HIDE DEF longer
    <3>2. IsPrefix(s, longer) <=> Len(s) <= Len(longer) /\ \A i \in 1 .. Len(s) : s[i] = longer[i]
      BY <3>1, PrefixIs
    <3> QED  BY <3>1, <3>2 DEF longer
  <2>3. Len(s) \in Nat /\ Len(t) \in Nat
    OBVIOUS
  <2> QED  BY <1>1, <2>1, <2>2, <2>3, PrefixIs
<1>3. Range(Append(t, x)) = Range(t) \cup {x}
  <2>1. \A i \in DOMAIN Append(t, x) : i \in DOMAIN t \/ i = Len(t) + 1
    BY <1>1
  <2>2. \A i \in DOMAIN t : i \in DOMAIN Append(t, x)
    BY <1>1
  <2> QED  BY <1>1, <2>1, <2>2 DEF Range
<1> QED  BY <1>1, <1>2, <1>3

LEMMA AfterIs ==
  ASSUME NEW S, NEW s \in Seq(S), NEW t \in Seq(S), IsPrefix(s, t)
  PROVE  /\ \A i \in 1 .. Len(t) : t[i] \in After(t, s) \/ (i \in 1 .. Len(s) /\ s[i] = t[i])
         /\ \A r \in After(t, s) : \E i \in 1 .. Len(t) : r = t[i]
         /\ After(t, s) \subseteq S
         /\ Range(t) \subseteq Range(s) \cup After(t, s)
<1>1. Len(s) <= Len(t) /\ (\A i \in 1 .. Len(s) : s[i] = t[i]) /\ Len(s) \in Nat /\ Len(t) \in Nat
  BY PrefixIs
<1> DEFINE rest == SubSeq(t, Len(s) + 1, Len(t))
<1>2. /\ rest \in Seq(S) /\ Len(rest) = Len(t) - Len(s)
      /\ \A i \in 1 .. Len(rest) : rest[i] = t[Len(s) + i]
  BY <1>1
<1>3. After(t, s) = {rest[i] : i \in 1 .. Len(rest)}
  <2>1. DOMAIN rest = 1 .. Len(rest)
    BY <1>2
  <2>2. After(t, s) = Range(rest)
    BY DEF After
  <2> HIDE DEF rest
  <2> QED  BY <2>1, <2>2 DEF Range
<1> HIDE DEF rest
<1>4. ASSUME NEW i \in 1 .. Len(t), i \notin 1 .. Len(s) PROVE t[i] \in After(t, s)
  <2>1. i - Len(s) \in 1 .. Len(rest) /\ Len(s) + (i - Len(s)) = i
    BY <1>1, <1>2, <1>4
  <2>2. rest[i - Len(s)] = t[i]
    BY <1>2, <2>1
  <2> QED  BY <1>3, <2>1, <2>2
<1>5. ASSUME NEW r \in After(t, s) PROVE \E i \in 1 .. Len(t) : r = t[i]
  <2>1. PICK i \in 1 .. Len(rest) : r = rest[i]
    BY <1>3
  <2>2. Len(s) + i \in 1 .. Len(t) /\ r = t[Len(s) + i]
    BY <1>1, <1>2, <2>1
  <2> QED  BY <2>2
<1>6. Range(t) \subseteq Range(s) \cup After(t, s)
  BY <1>1, <1>4 DEF Range
<1>7. After(t, s) \subseteq S
  BY <1>5
<1> QED  BY <1>1, <1>4, <1>5, <1>6, <1>7

\* What is published, and what it stands for.
CatalogRow == [market : Markets, version : Nat]
DiscoveryManifest == [new : SUBSET CatalogRow, upserts : SUBSET CatalogRow, high : Nat]
CurrentManifest == [open : SUBSET Markets, new : {{}}, upserts : SUBSET CatalogRow]
HistoryContent ==
  [rows : SUBSET CatalogRow, promoted : [Streams -> Seq(DiscoveryManifest)],
   compacted : [Streams -> Seq(DiscoveryManifest)], lifecycle : Seq(CurrentManifest)]
PointerType ==
  [discovery : [Streams -> Seq(DiscoveryManifest)], current : Seq(CurrentManifest),
   history : HistoryContent, overtaken : BOOLEAN]

\* The conditions are about a state of the venues v, pointers p and jobs w, so that a step
\* can be followed from one state to the next.

\* Rows tell of markets as they are or were.
Past(v, rows) == \A r \in rows : r.version <= v[r.market]
Made(v, s) == {m \in Markets : m[1] = s /\ v[m] > 0}

\* What history can hold a market by: it was there from the start, a correction of the census
\* told of it, or a discovery announced it.
AnnouncedBy(chain, k, m) == \E i \in 1 .. k : m \in MarketsOf(chain[i].new)
Corrected(p, m) == \E i \in 1 .. Len(p.current) : m \in MarketsOf(p.current[i].upserts)
Lasting(p, m) == m \in First \/ Corrected(p, m)
Rooted(p, m) == Lasting(p, m) \/ AnnouncedBy(p.discovery[m[1]], Len(p.discovery[m[1]]), m)

\* A release of history: it holds what its watermarks stand for.
HoldsPromoted(h) ==
  \A s \in Streams : \A i \in 1 .. Len(h.promoted[s]) : MarketsOf(h.promoted[s][i].new) \subseteq MarketsOf(h.rows)
Holds(h, r) == \E q \in h.rows : q.market = r.market /\ q.version >= r.version
HoldsCompacted(h) ==
  \A r \in Entries(Range(h.lifecycle) \cup UNION {Range(h.compacted[s]) : s \in Streams}) : Holds(h, r)
GoodHistory(v, p, h) ==
  /\ h \in HistoryContent /\ Past(v, h.rows)
  /\ IsPrefix(h.lifecycle, p.current)
  /\ \A s \in Streams : /\ IsPrefix(h.promoted[s], p.discovery[s])
                        /\ IsPrefix(h.compacted[s], p.discovery[s])
  /\ HoldsPromoted(h) /\ HoldsCompacted(h)
  /\ First \subseteq MarketsOf(h.rows) /\ \A m \in MarketsOf(h.rows) : Rooted(p, m)

\* Markets no compaction at work will take out of history.
Secured(p, w, m) ==
  /\ m \in MarketsOf(p.history.rows)
  /\ w["compact"] # NoJob => m \in MarketsOf(w["compact"].release.rows)
\* A market no discovery announces again stays in history, or is among the corrections that the
\* next compaction reads.
Covered(p, w, s, k, m) ==
  \/ AnnouncedBy(p.discovery[s], k, m)
  \/ Lasting(p, m) /\ (p.overtaken \/ Secured(p, w, m))
AllCovered(p, w, m) == Covered(p, w, m[1], Len(p.discovery[m[1]]), m)

\* The discoveries of a stream leave no market behind.
GoodRelease(v, p, w, s, k) ==
  LET chain == p.discovery[s] IN
  /\ chain[k].high <= Cardinality(Made(v, s))
  /\ Past(v, chain[k].new) /\ Past(v, chain[k].upserts)
  /\ \A m \in MarketsOf(chain[k].new) : m[1] = s
  /\ \A m \in MarketsOf(chain[k].upserts) : AllCovered(p, w, m)
  /\ \A m \in Markets : m[1] = s /\ m[2] + Overlap < chain[k].high => Covered(p, w, s, k, m)
  /\ k > 1 => \A m \in Markets : m[1] = s /\ m[2] <= chain[k - 1].high => Covered(p, w, s, k, m)
GoodStream(v, p, w, s) ==
  /\ IsFiniteSet(Made(v, s))
  /\ \A m \in Markets : m[1] = s => (v[m] > 0 <=> m[2] <= Cardinality(Made(v, s)))
  /\ \A k \in 1 .. Len(p.discovery[s]) : GoodRelease(v, p, w, s, k)

CutoffAfter(chain) ==
  LET high == IF chain = <<>> THEN 1 ELSE Last(chain).high
  IN IF high > Overlap THEN high - Overlap ELSE 0
Discovering(v, p, j, s) ==
  /\ j \in [at : {"closed lane", "collected"}, predecessor : {p.discovery[s]},
            cutoff : {CutoffAfter(p.discovery[s])}, rows : SUBSET CatalogRow, listed : Nat, high : Nat]
  /\ Past(v, j.rows) /\ \A r \in j.rows : r.market[1] = s
  /\ j.listed <= Cardinality(Made(v, s)) /\ j.high <= Cardinality(Made(v, s))
  /\ j.high <= j.listed + Overlap + 1
  /\ j.at = "closed lane" => Cardinality(Made(v, s)) <= j.listed + Overlap + 1
  /\ \A k \in 1 .. Len(p.discovery[s]) : p.discovery[s][k].high <= j.listed
  /\ \A m \in Markets :
       m[1] = s /\ m[2] >= j.cutoff /\ m[2] <= j.listed =>
         m \in MarketsOf(j.rows) \/ (j.at = "closed lane" /\ v[m] > 0 /\ v[m] % 2 # 1)
Refreshing(p, j) ==
  j \in [at : {"census"}, predecessor : {p.current}, open : SUBSET Markets]
Promoting(v, p, j) ==
  \/ /\ j = [at |-> "watermarked", parent |-> j.parent, promoted |-> j.promoted]
     /\ GoodHistory(v, p, j.parent) /\ j.promoted \in [Streams -> Seq(DiscoveryManifest)]
     /\ \A s \in Streams : IsPrefix(j.promoted[s], p.discovery[s])
  \/ /\ j \in [at : {"staged", "checked"}, parent : {j.parent}, release : {j.release}]
     /\ GoodHistory(v, p, j.release)
     /\ MarketsOf(j.parent.rows) \subseteq MarketsOf(j.release.rows)
     /\ \A m \in MarketsOf(j.release.rows) :
          \/ m \in MarketsOf(j.parent.rows)
          \/ AnnouncedBy(p.discovery[m[1]], Len(p.discovery[m[1]]), m)
\* What was checked is still published, if no compaction came after.
StillParent(p, j) == j.at = "checked" => p.overtaken \/ p.history = j.parent
Compacting(v, p, j) ==
  j = [at |-> "staged", release |-> j.release] /\ GoodHistory(v, p, j.release)

CatalogOK(v, p, w) ==
  /\ v \in [Markets -> Nat] /\ p \in PointerType /\ w = [j \in Jobs |-> w[j]]
  /\ \A s \in Streams : GoodStream(v, p, w, s)
  /\ \A s \in Streams : w[s] = NoJob \/ Discovering(v, p, w[s], s)
  /\ p.current # <<>>
  /\ \A k \in 1 .. Len(p.current) : Past(v, p.current[k].upserts)
  /\ GoodHistory(v, p, p.history) /\ \A m \in MarketsOf(p.history.rows) : AllCovered(p, w, m)
  /\ w["refresh"] = NoJob \/ Refreshing(p, w["refresh"])
  /\ w["promote"] = NoJob \/ Promoting(v, p, w["promote"])
  /\ StillParent(p, w["promote"])
  /\ w["compact"] = NoJob \/ Compacting(v, p, w["compact"])
CatalogInv == CatalogOK(market, pointer, job)

\* From one state to the next.
Grown(v, p, w, v2, p2, w2) ==
  /\ v \in [Markets -> Nat] /\ v2 \in [Markets -> Nat] /\ \A m \in Markets : v[m] <= v2[m]
  /\ p \in PointerType /\ p2 \in PointerType
  /\ IsPrefix(p.current, p2.current)
  /\ \A s \in Streams : IsPrefix(p.discovery[s], p2.discovery[s])
  /\ p.overtaken => p2.overtaken
  /\ p2.overtaken \/ \A m \in Markets : Secured(p, w, m) => Secured(p2, w2, m)

LEMMA MarketHasStream == \A m \in Markets : m[1] \in Streams /\ m[2] \in Nat /\ m[2] \in 1 .. MaxMarkets
BY CatalogBounds DEF Markets

LEMMA RowsAreOfMarkets == \A rows \in SUBSET CatalogRow : MarketsOf(rows) \subseteq Markets
BY DEF MarketsOf, CatalogRow

LEMMA PastGrows ==
  ASSUME NEW v, NEW v2, v \in [Markets -> Nat], v2 \in [Markets -> Nat], \A m \in Markets : v[m] <= v2[m],
         NEW rows \in SUBSET CatalogRow, Past(v, rows)
  PROVE  Past(v2, rows)
<1> SUFFICES ASSUME NEW r \in rows PROVE r.version <= v2[r.market]
  BY DEF Past
<1>1. r.version \in Nat /\ r.market \in Markets
  BY DEF CatalogRow
<1>2. r.version <= v[r.market] /\ v[r.market] <= v2[r.market]
  BY <1>1 DEF Past
<1> QED  BY <1>1, <1>2

LEMMA PrefixOfPrefix ==
  ASSUME NEW S, NEW a \in Seq(S), NEW b \in Seq(S), NEW c \in Seq(S), IsPrefix(a, b), IsPrefix(b, c)
  PROVE  IsPrefix(a, c)
<1>1. /\ Len(a) <= Len(b) /\ \A i \in 1 .. Len(a) : a[i] = b[i]
      /\ Len(b) <= Len(c) /\ \A i \in 1 .. Len(b) : b[i] = c[i]
      /\ Len(a) \in Nat /\ Len(b) \in Nat /\ Len(c) \in Nat
  BY PrefixIs
<1>2. Len(a) <= Len(c) /\ \A i \in 1 .. Len(a) : a[i] = c[i]
  BY <1>1
<1> QED  BY <1>2, PrefixIs

LEMMA RootsStay ==
  ASSUME NEW v, NEW p, NEW w, NEW v2, NEW p2, NEW w2, Grown(v, p, w, v2, p2, w2)
  PROVE  /\ \A m : Lasting(p, m) => Lasting(p2, m)
         /\ \A s \in Streams : \A m :
              AnnouncedBy(p.discovery[s], Len(p.discovery[s]), m)
                => AnnouncedBy(p2.discovery[s], Len(p2.discovery[s]), m)
         /\ \A m \in Markets : Rooted(p, m) => Rooted(p2, m)
<1>1. /\ Len(p.current) <= Len(p2.current) /\ Len(p.current) \in Nat /\ Len(p2.current) \in Nat
      /\ \A i \in 1 .. Len(p.current) : p.current[i] = p2.current[i]
  BY PrefixIs DEF Grown, PointerType
<1>2. \A m : Lasting(p, m) => Lasting(p2, m)
  BY <1>1 DEF Lasting, Corrected
<1>3. ASSUME NEW s \in Streams, NEW m, AnnouncedBy(p.discovery[s], Len(p.discovery[s]), m)
      PROVE  AnnouncedBy(p2.discovery[s], Len(p2.discovery[s]), m)
  <2>1. /\ Len(p.discovery[s]) <= Len(p2.discovery[s])
        /\ Len(p.discovery[s]) \in Nat /\ Len(p2.discovery[s]) \in Nat
        /\ \A i \in 1 .. Len(p.discovery[s]) : p.discovery[s][i] = p2.discovery[s][i]
    BY PrefixIs DEF Grown, PointerType
  <2>2. PICK i \in 1 .. Len(p.discovery[s]) : m \in MarketsOf(p.discovery[s][i].new)
    BY <1>3 DEF AnnouncedBy
  <2>3. i \in 1 .. Len(p2.discovery[s]) /\ p2.discovery[s][i] = p.discovery[s][i]
    BY <2>1
  <2> QED  BY <2>2, <2>3 DEF AnnouncedBy
<1>4. \A m \in Markets : m[1] \in Streams
  BY MarketHasStream
<1> QED  BY <1>2, <1>3, <1>4 DEF Rooted

LEMMA HistoryGrows ==
  ASSUME NEW v, NEW p, NEW w, NEW v2, NEW p2, NEW w2, Grown(v, p, w, v2, p2, w2), NEW h, GoodHistory(v, p, h)
  PROVE  GoodHistory(v2, p2, h)
<1>1. Past(v2, h.rows)
  BY PastGrows DEF Grown, GoodHistory, HistoryContent
<1>2. IsPrefix(h.lifecycle, p2.current)
  BY PrefixOfPrefix DEF Grown, GoodHistory, HistoryContent, PointerType
<1>3. ASSUME NEW s \in Streams
      PROVE  IsPrefix(h.promoted[s], p2.discovery[s]) /\ IsPrefix(h.compacted[s], p2.discovery[s])
  BY PrefixOfPrefix DEF Grown, GoodHistory, HistoryContent, PointerType
<1>4. \A m \in MarketsOf(h.rows) : Rooted(p2, m)
  BY RootsStay, RowsAreOfMarkets DEF GoodHistory, HistoryContent
<1> QED  BY <1>1, <1>2, <1>3, <1>4 DEF GoodHistory

LEMMA CoverageGrows ==
  ASSUME NEW v, NEW p, NEW w, NEW v2, NEW p2, NEW w2, Grown(v, p, w, v2, p2, w2)
  PROVE  /\ \A s \in Streams : \A k \in 1 .. Len(p.discovery[s]) :
              /\ k \in 1 .. Len(p2.discovery[s]) /\ p2.discovery[s][k] = p.discovery[s][k]
              /\ \A m \in Markets : Covered(p, w, s, k, m) => Covered(p2, w2, s, k, m)
         /\ \A m \in Markets : AnnouncedBy(p.discovery[m[1]], Len(p.discovery[m[1]]), m)
                                 => AnnouncedBy(p2.discovery[m[1]], Len(p2.discovery[m[1]]), m)
         /\ \A m \in Markets : AllCovered(p, w, m) => AllCovered(p2, w2, m)
<1>1. ASSUME NEW s \in Streams
      PROVE  /\ Len(p.discovery[s]) <= Len(p2.discovery[s])
             /\ Len(p.discovery[s]) \in Nat /\ Len(p2.discovery[s]) \in Nat
             /\ \A i \in 1 .. Len(p.discovery[s]) : p2.discovery[s][i] = p.discovery[s][i]
  BY PrefixIs DEF Grown, PointerType
<1>2. ASSUME NEW s \in Streams, NEW k \in 1 .. Len(p.discovery[s])
      PROVE  /\ k \in 1 .. Len(p2.discovery[s]) /\ p2.discovery[s][k] = p.discovery[s][k]
             /\ \A m \in Markets : Covered(p, w, s, k, m) => Covered(p2, w2, s, k, m)
  <2>1. \A i \in 1 .. k : i \in 1 .. Len(p.discovery[s])
    BY <1>1
  <2>2. k \in 1 .. Len(p2.discovery[s]) /\ p2.discovery[s][k] = p.discovery[s][k]
    BY <1>1
  <2>3. ASSUME NEW m \in Markets, Covered(p, w, s, k, m) PROVE Covered(p2, w2, s, k, m)
    <3>1. CASE Lasting(p, m) /\ (p.overtaken \/ Secured(p, w, m))
      <4>1. Lasting(p2, m)
        BY <3>1, RootsStay
      <4>2. p2.overtaken \/ Secured(p2, w2, m)
        BY <3>1 DEF Grown
      <4> QED  BY <4>1, <4>2 DEF Covered
    <3>2. CASE AnnouncedBy(p.discovery[s], k, m)
      <4>1. PICK i \in 1 .. k : m \in MarketsOf(p.discovery[s][i].new)
        BY <3>2 DEF AnnouncedBy
      <4>2. p2.discovery[s][i] = p.discovery[s][i]
        BY <1>1, <2>1
      <4> QED  BY <4>1, <4>2 DEF Covered, AnnouncedBy
    <3> QED  BY <2>3, <3>1, <3>2 DEF Covered
  <2> QED  BY <2>2, <2>3
<1>3. \A m \in Markets : AnnouncedBy(p.discovery[m[1]], Len(p.discovery[m[1]]), m)
                           => AnnouncedBy(p2.discovery[m[1]], Len(p2.discovery[m[1]]), m)
  BY RootsStay, MarketHasStream
<1>4. ASSUME NEW m \in Markets, AllCovered(p, w, m) PROVE AllCovered(p2, w2, m)
  <2>1. CASE AnnouncedBy(p.discovery[m[1]], Len(p.discovery[m[1]]), m)
    BY <1>3, <2>1 DEF AllCovered, Covered
  <2>2. CASE Lasting(p, m) /\ (p.overtaken \/ Secured(p, w, m))
    <3>1. Lasting(p2, m)
      BY <2>2, RootsStay
    <3>2. p2.overtaken \/ Secured(p2, w2, m)
      BY <2>2 DEF Grown
    <3> QED  BY <3>1, <3>2 DEF AllCovered, Covered
  <2> QED  BY <1>4, <2>1, <2>2 DEF AllCovered, Covered
<1> QED  BY <1>2, <1>3, <1>4

\* Releases stay good while the venues go on and pointers are replaced.
LEMMA ReleasesStay ==
  ASSUME NEW v, NEW p, NEW w, NEW v2, NEW p2, NEW w2, Grown(v, p, w, v2, p2, w2),
         NEW s \in Streams, NEW k \in 1 .. Len(p.discovery[s]), GoodRelease(v, p, w, s, k),
         Cardinality(Made(v, s)) \in Nat, Cardinality(Made(v2, s)) \in Nat,
         Cardinality(Made(v, s)) <= Cardinality(Made(v2, s))
  PROVE  GoodRelease(v2, p2, w2, s, k)
<1> DEFINE r == p.discovery[s][k]
<1>1. k \in 1 .. Len(p2.discovery[s]) /\ p2.discovery[s][k] = r
  BY CoverageGrows
<1>2. k > 1 => k - 1 \in 1 .. Len(p.discovery[s]) /\ p2.discovery[s][k - 1] = p.discovery[s][k - 1]
  <2>1. Len(p.discovery[s]) \in Nat
    BY DEF Grown, PointerType
  <2>2. k > 1 => k - 1 \in 1 .. Len(p.discovery[s])
    BY <2>1
  <2> QED  BY <2>2, CoverageGrows
<1>3. r \in DiscoveryManifest
  BY DEF Grown, PointerType
<1>4. Past(v2, r.new) /\ Past(v2, r.upserts)
  BY <1>3, PastGrows DEF GoodRelease, Grown, DiscoveryManifest
<1>5. \A m \in MarketsOf(r.upserts) : AllCovered(p2, w2, m)
  BY <1>3, CoverageGrows, RowsAreOfMarkets DEF GoodRelease, DiscoveryManifest
<1>6. r.high <= Cardinality(Made(v2, s))
  BY <1>3 DEF GoodRelease, DiscoveryManifest
<1>7. \A m \in Markets : Covered(p, w, s, k, m) => Covered(p2, w2, s, k, m)
  BY CoverageGrows
<1> QED  BY <1>1, <1>2, <1>4, <1>5, <1>6, <1>7 DEF GoodRelease

\* The newest row of every market is among the rows.
LEMMA NewestIs ==
  ASSUME NEW v, v \in [Markets -> Nat], NEW rows \in SUBSET CatalogRow, Past(v, rows)
  PROVE  /\ Newest(rows) \subseteq rows /\ MarketsOf(Newest(rows)) = MarketsOf(rows)
         /\ \A r \in rows : \E q \in Newest(rows) : q.market = r.market /\ q.version >= r.version
<1>1. Newest(rows) \subseteq rows
  BY DEF Newest
<1>2. ASSUME NEW r \in rows PROVE \E q \in Newest(rows) : q.market = r.market /\ q.version >= r.version
  <2> DEFINE versions == {q.version : q \in {q \in rows : q.market = r.market}}
  <2>1. r.market \in Markets /\ v[r.market] \in Nat /\ r.version \in versions
    BY DEF CatalogRow
  <2>2. versions \subseteq Nat /\ \A n \in versions : n <= v[r.market]
    BY DEF Past, CatalogRow
  <2>3. PICK n \in versions : \A k \in versions : k <= n
    <3> HIDE DEF versions
    <3> QED  BY <2>1, <2>2, Greatest
  <2>4. PICK q \in rows : q.market = r.market /\ q.version = n
    BY <2>3
  <2>5. \A o \in rows : o.market = r.market => o.version <= q.version
    BY <2>3, <2>4
  <2>6. q \in Newest(rows)
    BY <2>4, <2>5 DEF Newest
  <2>7. r.version <= q.version /\ r.version \in Nat /\ q.version \in Nat
    BY <2>5 DEF CatalogRow
  <2> QED  BY <2>4, <2>6, <2>7
<1>3. MarketsOf(Newest(rows)) = MarketsOf(rows)
  BY <1>1, <1>2 DEF MarketsOf
<1> QED  BY <1>1, <1>2, <1>3

\* The highest number of some markets.
LEMMA HighIs ==
  ASSUME NEW low \in Nat, NEW ms \in SUBSET Markets
  PROVE  /\ High(low, ms) \in Nat /\ High(low, ms) >= low /\ \A m \in ms : m[2] <= High(low, ms)
         /\ High(low, ms) = low \/ \E m \in ms : High(low, ms) = m[2]
<1> DEFINE T == {low} \cup {m[2] : m \in ms}
<1>1. T \subseteq Nat /\ low \in T /\ MaxMarkets + low \in Nat
  BY MarketHasStream, CatalogBounds
<1>2. \A n \in T : n <= MaxMarkets + low
  BY MarketHasStream, CatalogBounds
<1>3. High(low, ms) = CHOOSE x \in T : \A y \in T : x >= y
  BY DEF High, Max
<1>4. (\A m \in ms : m[2] \in T) /\ \A n \in T : n = low \/ \E m \in ms : n = m[2]
  OBVIOUS
<1> HIDE DEF T
<1>5. PICK n \in T : \A m \in T : m <= n
  BY <1>1, <1>2, Greatest
<1>6. n \in T /\ \A y \in T : n >= y
  BY <1>1, <1>5
<1>7. High(low, ms) \in T /\ \A y \in T : High(low, ms) >= y
  BY <1>3, <1>6
<1>8. \A y \in T : y <= High(low, ms)
  BY <1>1, <1>7
<1> QED  BY <1>1, <1>4, <1>7, <1>8

\* What is announced by a discovery, or corrected by it, is of its stream and of the past.
LEMMA EntriesArePast ==
  ASSUME NEW v, NEW p, NEW w, CatalogOK(v, p, w), NEW s \in Streams,
         NEW S, S \subseteq Range(p.discovery[s])
  PROVE  /\ Entries(S) \in SUBSET CatalogRow /\ Past(v, Entries(S))
         /\ \A m \in MarketsOf(Entries(S)) : AllCovered(p, w, m)
<1>1. \A r \in S : \E k \in 1 .. Len(p.discovery[s]) : r = p.discovery[s][k]
  <2>1. p.discovery[s] \in Seq(DiscoveryManifest)
    BY DEF CatalogOK, PointerType
  <2> QED  BY <2>1, RangeIs
<1>2. ASSUME NEW e \in Entries(S)
      PROVE  e \in CatalogRow /\ e.version <= v[e.market] /\ AllCovered(p, w, e.market)
  <2>1. PICK r \in S : e \in r.new \cup r.upserts
    BY <1>2 DEF Entries
  <2>2. PICK k \in 1 .. Len(p.discovery[s]) : r = p.discovery[s][k]
    BY <1>1
  <2>3. p.discovery[s][k] \in DiscoveryManifest /\ GoodRelease(v, p, w, s, k) /\ Len(p.discovery[s]) \in Nat
    BY DEF CatalogOK, PointerType, GoodStream
  <2>4. e \in CatalogRow /\ e.version <= v[e.market]
    BY <2>1, <2>2, <2>3 DEF GoodRelease, Past, DiscoveryManifest
  <2>5. CASE e \in r.new
    <3>1. e.market \in MarketsOf(r.new)
      BY <2>5 DEF MarketsOf
    <3>2. e.market[1] = s
      BY <2>2, <2>3, <3>1 DEF GoodRelease
    <3>3. AnnouncedBy(p.discovery[e.market[1]], Len(p.discovery[e.market[1]]), e.market)
      BY <2>2, <3>1, <3>2 DEF AnnouncedBy
    <3> QED  BY <2>4, <3>3 DEF AllCovered, Covered
  <2>6. CASE e \in r.upserts
    <3>1. e.market \in MarketsOf(r.upserts)
      BY <2>6 DEF MarketsOf
    <3> QED  BY <2>2, <2>3, <2>4, <3>1 DEF GoodRelease
  <2> QED  BY <2>1, <2>4, <2>5, <2>6
<1>3. \A m \in MarketsOf(Entries(S)) : \E e \in Entries(S) : m = e.market
  BY DEF MarketsOf
<1> QED  BY <1>2, <1>3 DEF Past

\* Corrections of the census.
LEMMA CorrectionsArePast ==
  ASSUME NEW v, NEW p, NEW w, CatalogOK(v, p, w), NEW S, S \subseteq Range(p.current)
  PROVE  Entries(S) \in SUBSET CatalogRow /\ Past(v, Entries(S))
<1>1. ASSUME NEW e \in Entries(S) PROVE e \in CatalogRow /\ e.version <= v[e.market]
  <2>1. PICK r \in S : e \in r.new \cup r.upserts
    BY <1>1 DEF Entries
  <2>2. PICK k \in 1 .. Len(p.current) : r = p.current[k]
    <3>1. p.current \in Seq(CurrentManifest)
      BY DEF CatalogOK, PointerType
    <3> QED  BY <3>1, RangeIs
  <2>3. p.current[k] \in CurrentManifest
    BY DEF CatalogOK, PointerType
  <2> QED  BY <2>1, <2>2, <2>3 DEF CatalogOK, CurrentManifest, Past
<1> QED  BY <1>1 DEF Past

LEMMA CorrectionsAreRooted ==
  ASSUME NEW v, NEW p, NEW w, CatalogOK(v, p, w), NEW S, S \subseteq Range(p.current)
  PROVE  \A e \in Entries(S) : Rooted(p, e.market)
<1> SUFFICES ASSUME NEW e \in Entries(S) PROVE Corrected(p, e.market)
  BY DEF Rooted, Lasting
<1>1. PICK r \in S : e \in r.new \cup r.upserts
  BY DEF Entries
<1>2. PICK k \in 1 .. Len(p.current) : r = p.current[k]
  <2>1. p.current \in Seq(CurrentManifest)
    BY DEF CatalogOK, PointerType
  <2> QED  BY <2>1, RangeIs
<1>3. p.current[k] \in CurrentManifest
  BY DEF CatalogOK, PointerType
<1>4. e \in p.current[k].upserts
  BY <1>1, <1>2, <1>3 DEF CurrentManifest
<1> QED  BY <1>4 DEF Corrected, MarketsOf

\* The jobs go on while the venues and the pointers do.
LEMMA JobsStay ==
  ASSUME NEW v, NEW p, NEW w, NEW v2, NEW p2, NEW w2, Grown(v, p, w, v2, p2, w2), NEW j
  PROVE  /\ Promoting(v, p, j) => Promoting(v2, p2, j)
         /\ Compacting(v, p, j) => Compacting(v2, p2, j)
<1>1. ASSUME Compacting(v, p, j) PROVE Compacting(v2, p2, j)
  BY <1>1, HistoryGrows DEF Compacting
<1>2. ASSUME Promoting(v, p, j) PROVE Promoting(v2, p2, j)
  <2>1. CASE /\ j = [at |-> "watermarked", parent |-> j.parent, promoted |-> j.promoted]
             /\ GoodHistory(v, p, j.parent) /\ j.promoted \in [Streams -> Seq(DiscoveryManifest)]
             /\ \A s \in Streams : IsPrefix(j.promoted[s], p.discovery[s])
    <3>1. GoodHistory(v2, p2, j.parent)
      BY <2>1, HistoryGrows
    <3>2. \A s \in Streams : IsPrefix(j.promoted[s], p2.discovery[s])
      BY <2>1, PrefixOfPrefix DEF Grown, PointerType
    <3> QED  BY <2>1, <3>1, <3>2 DEF Promoting
  <2>2. CASE /\ j \in [at : {"staged", "checked"}, parent : {j.parent}, release : {j.release}]
             /\ GoodHistory(v, p, j.release)
             /\ MarketsOf(j.parent.rows) \subseteq MarketsOf(j.release.rows)
             /\ \A m \in MarketsOf(j.release.rows) :
                  \/ m \in MarketsOf(j.parent.rows)
                  \/ AnnouncedBy(p.discovery[m[1]], Len(p.discovery[m[1]]), m)
    <3>1. GoodHistory(v2, p2, j.release)
      BY <2>2, HistoryGrows
    <3>2. \A m \in MarketsOf(j.release.rows) : m \in Markets
      BY <2>2, RowsAreOfMarkets DEF GoodHistory, HistoryContent
    <3>3. \A m \in MarketsOf(j.release.rows) :
            \/ m \in MarketsOf(j.parent.rows)
            \/ AnnouncedBy(p2.discovery[m[1]], Len(p2.discovery[m[1]]), m)
      BY <2>2, <3>2, CoverageGrows
    <3> QED  BY <2>2, <3>1, <3>3 DEF Promoting
  <2> QED  BY <1>2, <2>1, <2>2 DEF Promoting
<1> QED  BY <1>1, <1>2

\* A job other than a compaction goes on, or ends.
LEMMA MemoryChanges ==
  ASSUME NEW v, NEW p, NEW w, CatalogOK(v, p, w), NEW j \in Jobs, NEW memory, NEW w2,
         w2 = [w EXCEPT ![j] = memory],
         j \in Streams => memory = NoJob \/ Discovering(v, p, memory, j),
         j = "refresh" => memory = NoJob \/ Refreshing(p, memory),
         j = "promote" => (memory = NoJob \/ Promoting(v, p, memory)) /\ StillParent(p, memory),
         j = "compact" => memory = NoJob \/
           (/\ w["compact"] = NoJob /\ Compacting(v, p, memory) /\ memory # NoJob
            /\ MarketsOf(p.history.rows) \subseteq MarketsOf(memory.release.rows))
  PROVE  CatalogOK(v, p, w2)
<1>1. /\ w2 = [k \in Jobs |-> w2[k]] /\ w2[j] = memory /\ \A k \in Jobs \ {j} : w2[k] = w[k]
      /\ \A s \in Streams : s \in Jobs /\ s \notin {"refresh", "promote", "compact"}
      /\ "refresh" \in Jobs /\ "promote" \in Jobs /\ "compact" \in Jobs
  <2>1. w = [k \in Jobs |-> w[k]]
    BY DEF CatalogOK
  <2>2. \A s \in Streams : s \notin {"refresh", "promote", "compact"}
    BY CatalogBounds
  <2>3. Streams \subseteq Jobs /\ "refresh" \in Jobs /\ "promote" \in Jobs /\ "compact" \in Jobs
    BY DEF Jobs, DiscoveryJobs
  <2> QED  BY <2>1, <2>2, <2>3
<1>2. \A m : Secured(p, w, m) => Secured(p, w2, m)
  <2>1. CASE j = "compact"
    BY <1>1, <2>1 DEF Secured
  <2>2. CASE j # "compact"
    BY <1>1, <2>2 DEF Secured
  <2> QED  BY <2>1, <2>2
<1>3. Grown(v, p, w, v, p, w2)
  <2>1. \A m \in Markets : v[m] <= v[m]
    BY DEF CatalogOK
  <2>2. \A S : \A c \in Seq(S) : IsPrefix(c, c)
    BY PrefixIs
  <2> QED  BY <1>2, <2>1, <2>2 DEF Grown, CatalogOK, PointerType
<1>4. \A s \in Streams : GoodStream(v, p, w2, s)
  <2> SUFFICES ASSUME NEW s \in Streams PROVE GoodStream(v, p, w2, s)
    OBVIOUS
  <2>1. GoodStream(v, p, w, s)
    BY DEF CatalogOK
  <2>2. Cardinality(Made(v, s)) \in Nat
    BY <2>1, FS_CardinalityType DEF GoodStream
  <2>3. \A k \in 1 .. Len(p.discovery[s]) : GoodRelease(v, p, w2, s, k)
    BY <1>3, <2>1, <2>2, ReleasesStay DEF GoodStream
  <2> QED  BY <2>1, <2>3 DEF GoodStream
<1>5. \A m \in MarketsOf(p.history.rows) : AllCovered(p, w2, m)
  BY <1>3, CoverageGrows, RowsAreOfMarkets DEF CatalogOK, GoodHistory, HistoryContent
<1>6. \A s \in Streams : w2[s] = NoJob \/ Discovering(v, p, w2[s], s)
  BY <1>1 DEF CatalogOK
<1>7. /\ w2["refresh"] = NoJob \/ Refreshing(p, w2["refresh"])
      /\ w2["promote"] = NoJob \/ Promoting(v, p, w2["promote"])
      /\ StillParent(p, w2["promote"])
      /\ w2["compact"] = NoJob \/ Compacting(v, p, w2["compact"])
  BY <1>1 DEF CatalogOK
<1> QED  BY <1>1, <1>4, <1>5, <1>6, <1>7 DEF CatalogOK

LEMMA JobFailsStep == ASSUME CatalogInv, NEW j \in Jobs, JobFails(j) PROVE CatalogInv'
<1>1. job' = [job EXCEPT ![j] = NoJob] /\ market' = market /\ pointer' = pointer
  BY DEF JobFails, Remember
<1>2. StillParent(pointer, NoJob)
  BY DEF StillParent, NoJob
<1>3. CatalogOK(market, pointer, job')
  BY <1>1, <1>2, MemoryChanges DEF CatalogInv
<1> QED  BY <1>1, <1>3 DEF CatalogInv

\* The venues go on.
LEMMA VenueGoesOn ==
  ASSUME NEW v, NEW p, NEW w, CatalogOK(v, p, w), NEW v2, v2 \in [Markets -> Nat],
         \A m \in Markets : v[m] <= v2[m],
         \A s \in Streams :
           /\ IsFiniteSet(Made(v2, s))
           /\ \A m \in Markets : m[1] = s => (v2[m] > 0 <=> m[2] <= Cardinality(Made(v2, s)))
           /\ Cardinality(Made(v, s)) <= Cardinality(Made(v2, s))
           /\ Discovering(v, p, w[s], s) => Discovering(v2, p, w[s], s)
  PROVE  CatalogOK(v2, p, w)
<1>1. Grown(v, p, w, v2, p, w)
  <2>1. \A S : \A c \in Seq(S) : IsPrefix(c, c)
    BY PrefixIs
  <2> QED  BY <2>1 DEF Grown, CatalogOK, PointerType
<1>2. \A s \in Streams : GoodStream(v2, p, w, s)
  <2> SUFFICES ASSUME NEW s \in Streams PROVE GoodStream(v2, p, w, s)
    OBVIOUS
  <2>1. GoodStream(v, p, w, s)
    BY DEF CatalogOK
  <2>2. Cardinality(Made(v, s)) \in Nat /\ Cardinality(Made(v2, s)) \in Nat
    BY <2>1, FS_CardinalityType DEF GoodStream
  <2>3. \A k \in 1 .. Len(p.discovery[s]) : GoodRelease(v2, p, w, s, k)
    BY <1>1, <2>1, <2>2, ReleasesStay DEF GoodStream
  <2> QED  BY <2>3 DEF GoodStream
<1>3. \A k \in 1 .. Len(p.current) : Past(v2, p.current[k].upserts)
  <2> SUFFICES ASSUME NEW k \in 1 .. Len(p.current) PROVE Past(v2, p.current[k].upserts)
    OBVIOUS
  <2>1. p.current[k].upserts \in SUBSET CatalogRow /\ Past(v, p.current[k].upserts)
    <3>1. p.current \in Seq(CurrentManifest) /\ Past(v, p.current[k].upserts)
      BY DEF CatalogOK, PointerType
    <3>2. p.current[k] \in CurrentManifest
      BY <3>1
    <3> QED  BY <3>1, <3>2 DEF CurrentManifest
  <2> QED  BY <2>1, PastGrows DEF CatalogOK
<1>4. GoodHistory(v2, p, p.history)
  BY <1>1, HistoryGrows DEF CatalogOK
<1>5. /\ w["promote"] = NoJob \/ Promoting(v2, p, w["promote"])
      /\ w["compact"] = NoJob \/ Compacting(v2, p, w["compact"])
  BY <1>1, JobsStay DEF CatalogOK
<1> QED  BY <1>2, <1>3, <1>4, <1>5 DEF CatalogOK

LEMMA StreamNow ==
  ASSUME CatalogInv, NEW s \in Streams
  PROVE  /\ Created(s) = Made(market, s) /\ Cutoff(s) = CutoffAfter(pointer.discovery[s])
         /\ IsFiniteSet(Made(market, s)) /\ Cardinality(Made(market, s)) \in Nat
         /\ pointer.discovery[s] \in Seq(DiscoveryManifest)
         /\ \A m \in Markets : m[1] = s => (market[m] > 0 <=> m[2] <= Cardinality(Made(market, s)))
         /\ job[s] = NoJob \/ Discovering(market, pointer, job[s], s)
         /\ s \in Jobs /\ s \notin {"refresh", "promote", "compact"}
<1>1. GoodStream(market, pointer, job, s) /\ (job[s] = NoJob \/ Discovering(market, pointer, job[s], s))
  BY DEF CatalogInv, CatalogOK
<1>2. Cardinality(Made(market, s)) \in Nat
  BY <1>1, FS_CardinalityType DEF GoodStream
<1>3. s \in Jobs /\ s \notin {"refresh", "promote", "compact"}
  BY CatalogBounds DEF Jobs, DiscoveryJobs
<1>4. pointer.discovery[s] \in Seq(DiscoveryManifest)
  BY DEF CatalogInv, CatalogOK, PointerType
<1> QED  BY <1>1, <1>2, <1>3, <1>4 DEF GoodStream, Created, Made, Exists, Cutoff, CutoffAfter

LEMMA VenueCreatesStep == ASSUME CatalogInv, NEW s \in Streams, VenueCreates(s) PROVE CatalogInv'
<1> DEFINE n == Cardinality(Made(market, s))
           next == <<s, n + 1>>
           v2 == [market EXCEPT ![next] = 1]
<1>1. /\ next \in Markets /\ market' = v2 /\ pointer' = pointer /\ job' = job
      /\ InLanes(s) => n + 1 <= job[s].listed + Overlap + 1
  BY StreamNow DEF VenueCreates
<1>2. n \in Nat /\ market \in [Markets -> Nat]
  BY StreamNow DEF CatalogInv, CatalogOK
<1>3. next[1] = s /\ next[2] = n + 1 /\ market[next] = 0
  <2>1. next[1] = s /\ next[2] = n + 1 /\ ~(n + 1 <= n)
    BY <1>2
  <2> HIDE DEF next
  <2>2. ~(market[next] > 0)
    BY <1>1, <2>1, StreamNow
  <2> QED  BY <1>1, <1>2, <2>1, <2>2
<1> HIDE DEF next
<1>4. /\ v2 \in [Markets -> Nat] /\ v2[next] = 1 /\ \A m \in Markets \ {next} : v2[m] = market[m]
      /\ \A m \in Markets : market[m] <= v2[m]
  BY <1>1, <1>2, <1>3
<1> HIDE DEF v2
<1>5. ASSUME NEW t \in Streams
      PROVE  /\ IsFiniteSet(Made(v2, t)) /\ Cardinality(Made(v2, t)) \in Nat
             /\ Cardinality(Made(v2, t)) = IF t = s THEN n + 1 ELSE Cardinality(Made(market, t))
  <2>1. CASE t = s
    <3>1. Made(v2, s) = Made(market, s) \cup {next} /\ next \notin Made(market, s)
      BY <1>1, <1>3, <1>4 DEF Made
    <3> QED  BY <1>2, <2>1, <3>1, StreamNow, FS_AddElement
  <2>2. CASE t # s
    <3>1. Made(v2, t) = Made(market, t)
      BY <1>3, <1>4, <2>2 DEF Made
    <3> QED  BY <2>2, <3>1, StreamNow
  <2> QED  BY <2>1, <2>2
<1>6. ASSUME NEW t \in Streams
      PROVE  \A m \in Markets : m[1] = t => (v2[m] > 0 <=> m[2] <= Cardinality(Made(v2, t)))
  <2> SUFFICES ASSUME NEW m \in Markets, m[1] = t PROVE v2[m] > 0 <=> m[2] <= Cardinality(Made(v2, t))
    OBVIOUS
  <2>1. (market[m] > 0 <=> m[2] <= Cardinality(Made(market, t))) /\ m[2] \in Nat
    BY StreamNow, MarketHasStream
  <2>2. CASE t # s
    BY <1>3, <1>4, <1>5, <2>1, <2>2
  <2>3. CASE t = s
    <3>1. m = next <=> m[2] = n + 1
      BY <2>3, <1>3 DEF Markets, next
    <3> QED  BY <1>2, <1>3, <1>4, <1>5, <2>1, <2>3, <3>1
  <2> QED  BY <2>2, <2>3
<1>7. ASSUME NEW t \in Streams, Discovering(market, pointer, job[t], t)
      PROVE  Discovering(v2, pointer, job[t], t)
  <2> DEFINE j == job[t]
  <2>1. Past(v2, j.rows)
    BY <1>2, <1>4, <1>7, PastGrows DEF Discovering
  <2>2. Cardinality(Made(market, t)) <= Cardinality(Made(v2, t)) /\ Cardinality(Made(market, t)) \in Nat
    BY <1>2, <1>5, StreamNow
  <2>3. j.listed \in Nat /\ j.high \in Nat /\ j.listed <= Cardinality(Made(v2, t)) /\ j.high <= Cardinality(Made(v2, t))
    <3>1. /\ j.listed \in Nat /\ j.high \in Nat
          /\ j.listed <= Cardinality(Made(market, t)) /\ j.high <= Cardinality(Made(market, t))
      BY <1>7 DEF Discovering
    <3>2. Cardinality(Made(v2, t)) \in Nat
      BY <1>5
    <3> QED  BY <2>2, <3>1, <3>2
  <2>4. j.at = "closed lane" => Cardinality(Made(v2, t)) <= j.listed + Overlap + 1
    BY <1>1, <1>5, <1>7 DEF Discovering, InLanes
  <2>5. \A m \in Markets : m[1] = t /\ m[2] <= j.listed => v2[m] = market[m]
    <3>1. j.listed <= Cardinality(Made(market, t))
      BY <1>7 DEF Discovering
    <3>2. \A m \in Markets : m[1] = t /\ m[2] <= j.listed => m # next
      BY <1>2, <1>3, <2>3, <3>1, MarketHasStream
    <3> QED  BY <1>4, <3>2
  <2> QED  BY <1>7, <2>1, <2>3, <2>4, <2>5 DEF Discovering
<1>8. CatalogOK(v2, pointer, job)
  <2>1. \A t \in Streams : Cardinality(Made(market, t)) <= Cardinality(Made(v2, t))
    BY <1>2, <1>5, StreamNow
  <2> QED  BY <1>4, <1>5, <1>6, <1>7, <2>1, VenueGoesOn DEF CatalogInv
<1> QED  BY <1>1, <1>8 DEF CatalogInv

LEMMA VenueChangesStep == ASSUME CatalogInv, NEW m \in Markets, VenueChanges(m) PROVE CatalogInv'
<1> DEFINE v2 == [market EXCEPT ![m] = @ + 1]
<1>1. /\ market[m] > 0 /\ market' = v2 /\ pointer' = pointer /\ job' = job
      /\ market[m] % 2 # 1 => job[m[1]].at # "closed lane"
  BY DEF VenueChanges, Exists, IsOpen, InLanes
<1>2. market \in [Markets -> Nat]
  BY DEF CatalogInv, CatalogOK
<1>3. /\ v2 \in [Markets -> Nat] /\ v2[m] = market[m] + 1 /\ \A n \in Markets \ {m} : v2[n] = market[n]
      /\ \A n \in Markets : market[n] <= v2[n] /\ (v2[n] > 0 <=> market[n] > 0)
  <2>1. market[m] \in Nat /\ market[m] + 1 \in Nat
    BY <1>2
  <2>2. v2 \in [Markets -> Nat] /\ v2[m] = market[m] + 1 /\ \A n \in Markets \ {m} : v2[n] = market[n]
    BY <1>2, <2>1
  <2> HIDE DEF v2
  <2>3. market[m] > 0
    BY <1>1
  <2>4. \A n \in Markets : market[n] \in Nat /\ v2[n] \in Nat
    BY <1>2, <2>2
  <2>5. \A n \in Markets : n = m \/ v2[n] = market[n]
    BY <2>2
  <2>6. \A n \in Markets : market[n] <= v2[n] /\ (v2[n] > 0 <=> market[n] > 0)
    BY <2>1, <2>2, <2>3, <2>4, <2>5
  <2> QED  BY <2>2, <2>6
<1> HIDE DEF v2
<1>4. \A t \in Streams : Made(v2, t) = Made(market, t)
  BY <1>3 DEF Made
<1>5. ASSUME NEW t \in Streams, Discovering(market, pointer, job[t], t)
      PROVE  Discovering(v2, pointer, job[t], t)
  <2>1. Past(v2, job[t].rows)
    BY <1>2, <1>3, <1>5, PastGrows DEF Discovering
  <2>2. \A n \in Markets : n[1] = t /\ job[t].at = "closed lane" /\ market[n] > 0 /\ market[n] % 2 # 1
                             => v2[n] = market[n]
    BY <1>1, <1>3
  <2> QED  BY <1>4, <1>5, <2>1, <2>2 DEF Discovering
<1>6. CatalogOK(v2, pointer, job)
  <2>1. \A t \in Streams : Cardinality(Made(market, t)) <= Cardinality(Made(v2, t))
    BY <1>4, StreamNow
  <2>2. \A t \in Streams : /\ IsFiniteSet(Made(v2, t))
          /\ \A n \in Markets : n[1] = t => (v2[n] > 0 <=> n[2] <= Cardinality(Made(v2, t)))
    BY <1>3, <1>4, StreamNow
  <2> QED  BY <1>3, <1>5, <2>1, <2>2, VenueGoesOn DEF CatalogInv
<1> QED  BY <1>1, <1>6 DEF CatalogInv

LEMMA CollectStep == ASSUME CatalogInv, NEW s \in Streams, Collect(s) PROVE CatalogInv'
<1> DEFINE chain == pointer.discovery[s]
           n == Cardinality(Made(market, s))
           cutoff == CutoffAfter(chain)
           lane == FirstLane(s, cutoff)
           rows == {Entry(m) : m \in lane}
           at == IF s \in TwoLanes THEN "closed lane" ELSE "collected"
           memory == [at |-> at, predecessor |-> chain, cutoff |-> cutoff, rows |-> rows,
                      listed |-> n, high |-> High(cutoff, lane)]
<1>1. job' = [job EXCEPT ![s] = memory] /\ market' = market /\ pointer' = pointer
  BY StreamNow DEF Collect, Remember
<1>2. n \in Nat /\ chain \in Seq(DiscoveryManifest) /\ market \in [Markets -> Nat] /\ Overlap \in Nat
  BY StreamNow, CatalogBounds DEF CatalogInv, CatalogOK
<1>3. \A k \in 1 .. Len(chain) : chain[k].high \in Nat /\ chain[k].high <= n
  <2> SUFFICES ASSUME NEW k \in 1 .. Len(chain) PROVE chain[k].high \in Nat /\ chain[k].high <= n
    OBVIOUS
  <2>1. GoodRelease(market, pointer, job, s, k)
    BY DEF CatalogInv, CatalogOK, GoodStream
  <2>2. chain[k] \in DiscoveryManifest
    BY <1>2
  <2> QED  BY <2>1, <2>2 DEF GoodRelease, DiscoveryManifest
<1>4. cutoff \in Nat /\ cutoff <= n
  <2>1. CASE chain = <<>>
    BY <1>2, <2>1, CatalogBounds DEF CutoffAfter
  <2>2. CASE chain # <<>>
    <3>1. Len(chain) \in 1 .. Len(chain) /\ Last(chain) = chain[Len(chain)]
      BY <1>2, <2>2 DEF Last
    <3>2. Last(chain).high \in Nat /\ Last(chain).high <= n
      BY <1>3, <3>1
    <3> HIDE DEF chain
    <3> QED  BY <1>2, <2>2, <3>2 DEF CutoffAfter
  <2> QED  BY <2>1, <2>2
<1> HIDE DEF cutoff
<1>5. /\ lane \in SUBSET Markets
      /\ \A m \in lane : m[1] = s /\ market[m] > 0 /\ m[2] <= n
      /\ \A m \in Markets : m[1] = s /\ m[2] >= cutoff /\ m[2] <= n =>
           m \in lane \/ (s \in TwoLanes /\ market[m] > 0 /\ market[m] % 2 # 1)
  <2>1. lane = {m \in Markets : /\ m[1] = s /\ market[m] > 0 /\ m[2] >= cutoff
                                /\ s \in TwoLanes => market[m] % 2 = 1}
    BY DEF FirstLane, Created, Exists, IsOpen
  <2> HIDE DEF lane
  <2> QED  BY <2>1, StreamNow
<1> HIDE DEF lane
<1>6. /\ rows \in SUBSET CatalogRow /\ MarketsOf(rows) = lane /\ Past(market, rows)
      /\ \A r \in rows : r.market[1] = s
  <2>1. \A m \in lane : /\ Entry(m) \in CatalogRow /\ Entry(m).market = m /\ Entry(m).version = market[m]
                        /\ market[m] \in Nat
    BY <1>2, <1>5 DEF Entry, CatalogRow
  <2>2. \A r \in rows : \E m \in lane : r = Entry(m)
    OBVIOUS
  <2>3. \A m \in lane : Entry(m) \in rows
    OBVIOUS
  <2> HIDE DEF rows
  <2> QED  BY <1>5, <2>1, <2>2, <2>3 DEF MarketsOf, Past
<1> HIDE DEF rows
<1>7. High(cutoff, lane) \in Nat /\ High(cutoff, lane) <= n
  BY <1>4, <1>5, HighIs
<1>8. Discovering(market, pointer, memory, s)
  <2> DEFINE high == High(cutoff, lane)
  <2> HIDE DEF high, n
  <2>1. /\ memory.at = at /\ memory.rows = rows /\ memory.cutoff = cutoff /\ memory.listed = n
        /\ memory.high = high
        /\ memory \in [at : {"closed lane", "collected"}, predecessor : {chain}, cutoff : {cutoff},
                       rows : SUBSET CatalogRow, listed : Nat, high : Nat]
    BY <1>2, <1>6, <1>7 DEF high
  <2>2. at = "closed lane" <=> s \in TwoLanes
    OBVIOUS
  <2> HIDE DEF memory, at, chain
  <2>3. high <= n /\ n <= n + Overlap + 1 /\ high <= n + Overlap + 1 /\ n <= n
    BY <1>2, <1>7 DEF high
  <2> QED  BY <1>3, <1>5, <1>6, <2>1, <2>2, <2>3 DEF Discovering, chain, cutoff, n
<1> HIDE DEF memory
<1>9. CatalogOK(market, pointer, job')
  BY <1>1, <1>8, MemoryChanges, StreamNow DEF CatalogInv
<1> QED  BY <1>1, <1>9 DEF CatalogInv

LEMMA AtWork == ASSUME NEW j, NEW at, j.at = at, at # "idle" PROVE j # NoJob
BY DEF NoJob

LEMMA ReadClosedLaneStep == ASSUME CatalogInv, NEW s \in Streams, ReadClosedLane(s) PROVE CatalogInv'
<1> DEFINE j == job[s]
           n == Cardinality(Made(market, s))
           lane == {m \in Created(s) : m[2] >= j.cutoff /\ ~IsOpen(m)}
           found == j.rows \cup {Entry(m) : m \in lane}
           rows == Newest(found)
           high == High(j.high, lane)
           memory == [j EXCEPT !.at = "collected", !.rows = rows, !.high = high]
<1>1. Discovering(market, pointer, j, s) /\ j.at = "closed lane"
  <2>1. j.at = "closed lane"
    BY DEF ReadClosedLane
  <2>2. j # NoJob
    BY <2>1, AtWork
  <2> QED  BY <2>1, <2>2, StreamNow
<1>2. job' = [job EXCEPT ![s] = memory] /\ market' = market /\ pointer' = pointer
  <2>1. memory = [j EXCEPT !.at = "collected", !.rows = Newest(@ \cup {Entry(m) : m \in lane}),
                    !.high = High(@, lane)]
    BY <1>1 DEF Discovering
  <2> HIDE DEF memory
  <2> QED  BY <2>1 DEF ReadClosedLane, Remember
<1>3. n \in Nat /\ market \in [Markets -> Nat] /\ Overlap \in Nat
  BY StreamNow, CatalogBounds DEF CatalogInv, CatalogOK
<1>4. /\ lane \in SUBSET Markets
      /\ \A m \in lane : m[1] = s /\ market[m] > 0 /\ m[2] <= n
      /\ \A m \in Markets : m[1] = s /\ m[2] >= j.cutoff /\ market[m] > 0 /\ market[m] % 2 # 1 => m \in lane
  <2>1. lane = {m \in Markets : m[1] = s /\ market[m] > 0 /\ m[2] >= j.cutoff /\ market[m] % 2 # 1}
    BY DEF Created, Exists, IsOpen
  <2> HIDE DEF lane
  <2> QED  BY <2>1, StreamNow
<1> HIDE DEF lane
<1>5. /\ found \in SUBSET CatalogRow /\ MarketsOf(found) = MarketsOf(j.rows) \cup lane /\ Past(market, found)
      /\ \A r \in found : r.market[1] = s
  <2>1. \A m \in lane : /\ Entry(m) \in CatalogRow /\ Entry(m).market = m /\ Entry(m).version = market[m]
                        /\ market[m] \in Nat
    BY <1>3, <1>4 DEF Entry, CatalogRow
  <2>2. \A r \in found : r \in j.rows \/ \E m \in lane : r = Entry(m)
    OBVIOUS
  <2>3. j.rows \subseteq found /\ \A m \in lane : Entry(m) \in found
    OBVIOUS
  <2>4. j.rows \in SUBSET CatalogRow /\ Past(market, j.rows) /\ \A r \in j.rows : r.market[1] = s
    BY <1>1 DEF Discovering
  <2> HIDE DEF found, j
  <2> QED  BY <1>4, <2>1, <2>2, <2>3, <2>4 DEF MarketsOf, Past
<1> HIDE DEF found
<1>6. rows \subseteq found /\ MarketsOf(rows) = MarketsOf(found)
  BY <1>3, <1>5, NewestIs
<1> HIDE DEF rows
<1>7. high \in Nat /\ high <= n
  <2>1. j.high \in Nat /\ j.high <= n
    BY <1>1 DEF Discovering
  <2> QED  BY <1>4, <2>1, HighIs
<1> HIDE DEF high
<1>8. Discovering(market, pointer, memory, s)
  <2>1. /\ j \in [at : {"closed lane", "collected"}, predecessor : {pointer.discovery[s]},
                  cutoff : {CutoffAfter(pointer.discovery[s])}, rows : SUBSET CatalogRow, listed : Nat, high : Nat]
        /\ j.listed <= n /\ n <= j.listed + Overlap + 1 /\ j.listed \in Nat
        /\ \A k \in 1 .. Len(pointer.discovery[s]) : pointer.discovery[s][k].high <= j.listed
        /\ \A m \in Markets : m[1] = s /\ m[2] >= j.cutoff /\ m[2] <= j.listed =>
             m \in MarketsOf(j.rows) \/ (market[m] > 0 /\ market[m] % 2 # 1)
    BY <1>1 DEF Discovering
  <2> HIDE DEF j
  <2>2. /\ memory.at = "collected" /\ memory.rows = rows /\ memory.cutoff = j.cutoff
        /\ memory.listed = j.listed /\ memory.high = high
        /\ memory \in [at : {"closed lane", "collected"}, predecessor : {pointer.discovery[s]},
                       cutoff : {CutoffAfter(pointer.discovery[s])}, rows : SUBSET CatalogRow, listed : Nat,
                       high : Nat]
    BY <1>5, <1>6, <1>7, <2>1
  <2>3. Past(market, rows) /\ \A r \in rows : r.market[1] = s
    BY <1>5, <1>6 DEF Past
  <2>4. high <= j.listed + Overlap + 1
    <3>1. n <= j.listed + Overlap + 1 /\ j.listed \in Nat
      BY <2>1
    <3> HIDE DEF n
    <3> QED  BY <1>3, <1>7, <3>1
  <2>5. \A m \in Markets : m[1] = s /\ m[2] >= j.cutoff /\ m[2] <= j.listed => m \in MarketsOf(rows)
    BY <1>4, <1>5, <1>6, <2>1
  <2> HIDE DEF memory
  <2> QED  BY <1>7, <2>1, <2>2, <2>3, <2>4, <2>5 DEF Discovering, n
<1> HIDE DEF memory
<1>9. CatalogOK(market, pointer, job')
  BY <1>2, <1>8, MemoryChanges, StreamNow DEF CatalogInv
<1> QED  BY <1>2, <1>9 DEF CatalogInv

\* A pointer is replaced by a job that ends.
LEMMA PointersReplaced ==
  ASSUME NEW v, NEW p, NEW w, CatalogOK(v, p, w), NEW j \in Jobs, NEW p2, NEW w2,
         w2 = [w EXCEPT ![j] = NoJob], Grown(v, p, w, v, p2, w2),
         \A s \in Streams : \A k \in 1 .. Len(p2.discovery[s]) :
           k \in 1 .. Len(p.discovery[s]) \/ GoodRelease(v, p2, w2, s, k),
         \A s \in Streams \ {j} : p2.discovery[s] = p.discovery[s],
         j # "refresh" => p2.current = p.current, p2.current # <<>>,
         \A k \in 1 .. Len(p2.current) : Past(v, p2.current[k].upserts),
         GoodHistory(v, p2, p2.history), \A m \in MarketsOf(p2.history.rows) : AllCovered(p2, w2, m),
         StillParent(p2, w2["promote"])
  PROVE  CatalogOK(v, p2, w2)
<1>1. /\ w2 = [k \in Jobs |-> w2[k]] /\ w2[j] = NoJob /\ \A k \in Jobs \ {j} : w2[k] = w[k]
      /\ \A s \in Streams : s \in Jobs /\ s \notin {"refresh", "promote", "compact"}
      /\ "refresh" \in Jobs /\ "promote" \in Jobs /\ "compact" \in Jobs
  <2>1. w = [k \in Jobs |-> w[k]]
    BY DEF CatalogOK
  <2>2. \A s \in Streams : s \notin {"refresh", "promote", "compact"}
    BY CatalogBounds
  <2>3. Streams \subseteq Jobs /\ "refresh" \in Jobs /\ "promote" \in Jobs /\ "compact" \in Jobs
    BY DEF Jobs, DiscoveryJobs
  <2> QED  BY <2>1, <2>2, <2>3
<1>2. \A s \in Streams : GoodStream(v, p2, w2, s)
  <2> SUFFICES ASSUME NEW s \in Streams PROVE GoodStream(v, p2, w2, s)
    OBVIOUS
  <2>1. GoodStream(v, p, w, s)
    BY DEF CatalogOK
  <2>2. Cardinality(Made(v, s)) \in Nat
    BY <2>1, FS_CardinalityType DEF GoodStream
  <2>3. \A k \in 1 .. Len(p.discovery[s]) : GoodRelease(v, p2, w2, s, k)
    BY <2>1, <2>2, ReleasesStay DEF GoodStream
  <2> QED  BY <2>1, <2>3 DEF GoodStream
<1>3. \A s \in Streams : w2[s] = NoJob \/ Discovering(v, p2, w2[s], s)
  <2> SUFFICES ASSUME NEW s \in Streams, s # j PROVE w2[s] = NoJob \/ Discovering(v, p2, w2[s], s)
    BY <1>1
  <2>1. w2[s] = w[s] /\ p2.discovery[s] = p.discovery[s] /\ (w[s] = NoJob \/ Discovering(v, p, w[s], s))
    BY <1>1 DEF CatalogOK
  <2> QED  BY <2>1 DEF Discovering
<1>4. w2["refresh"] = NoJob \/ Refreshing(p2, w2["refresh"])
  BY <1>1 DEF CatalogOK, Refreshing
<1>5. /\ w2["promote"] = NoJob \/ Promoting(v, p2, w2["promote"])
      /\ w2["compact"] = NoJob \/ Compacting(v, p2, w2["compact"])
  BY <1>1, JobsStay DEF CatalogOK
<1> QED  BY <1>1, <1>2, <1>3, <1>4, <1>5 DEF CatalogOK, Grown

\* What is known is what history holds and what the discoveries told of.
LEMMA KnownIsCovered ==
  ASSUME CatalogInv, NEW m \in MarketsOf(KnownRows) PROVE AllCovered(pointer, job, m)
<1>1. PICK r \in KnownRows : r.market = m
  BY DEF MarketsOf
<1>2. CASE r \in History.rows
  <2>1. m \in MarketsOf(pointer.history.rows)
    BY <1>1, <1>2 DEF MarketsOf, History
  <2> QED  BY <2>1 DEF CatalogInv, CatalogOK
<1>3. CASE r \notin History.rows
  <2>1. PICK s \in Streams : r \in Entries(Range(pointer.discovery[s]))
    BY <1>1, <1>3 DEF KnownRows, Newest
  <2>2. m \in MarketsOf(Entries(Range(pointer.discovery[s])))
    BY <1>1, <2>1 DEF MarketsOf
  <2> QED  BY <2>2, EntriesArePast DEF CatalogInv
<1> QED  BY <1>2, <1>3

LEMMA PublishDiscoveryStep == ASSUME CatalogInv, NEW s \in Streams, PublishDiscovery(s) PROVE CatalogInv'
<1> DEFINE j == job[s]
           chain == pointer.discovery[s]
           n == Cardinality(Made(market, s))
           r == DiscoveryRelease(s)
           longer == Append(chain, r)
           p2 == [pointer EXCEPT !.discovery[s] = longer]
           w2 == [job EXCEPT ![s] = NoJob]
           L == Len(chain)
<1>1. Discovering(market, pointer, j, s) /\ j.at = "collected"
  <2>1. j.at = "collected"
    BY DEF PublishDiscovery
  <2>2. j # NoJob
    BY <2>1, AtWork
  <2> QED  BY <2>1, <2>2, StreamNow
<1>2. market' = market /\ job' = w2 /\ pointer' = p2
  BY <1>1 DEF PublishDiscovery, Replace, Discovering
<1>3. /\ n \in Nat /\ market \in [Markets -> Nat] /\ Overlap \in Nat /\ L \in Nat
      /\ chain \in Seq(DiscoveryManifest) /\ pointer \in PointerType
      /\ job = [k \in Jobs |-> job[k]] /\ s \in Jobs /\ s \notin {"refresh", "promote", "compact"}
  <2>1. /\ n \in Nat /\ chain \in Seq(DiscoveryManifest) /\ s \in Jobs
        /\ s \notin {"refresh", "promote", "compact"}
    BY StreamNow
  <2>2. L \in Nat
    BY <2>1
  <2>3. market \in [Markets -> Nat] /\ pointer \in PointerType /\ job = [k \in Jobs |-> job[k]]
    BY DEF CatalogInv, CatalogOK
  <2> QED  BY <2>1, <2>2, <2>3, CatalogBounds
<1>4. /\ j.rows \in SUBSET CatalogRow /\ Past(market, j.rows) /\ (\A q \in j.rows : q.market[1] = s)
      /\ j.high \in Nat /\ j.high <= n /\ j.high <= j.listed + Overlap + 1 /\ j.listed \in Nat
      /\ j.cutoff = CutoffAfter(chain)
      /\ \A k \in 1 .. L : chain[k].high <= j.listed
      /\ \A m \in Markets : m[1] = s /\ m[2] >= j.cutoff /\ m[2] <= j.listed => m \in MarketsOf(j.rows)
  BY <1>1 DEF Discovering
<1>5. /\ r.new = NewIn(j.rows) /\ r.upserts = UpsertsIn(j.rows) /\ r.high = j.high
      /\ r.new \subseteq j.rows /\ r.upserts \subseteq j.rows
      /\ r \in DiscoveryManifest
  BY <1>4 DEF DiscoveryRelease, DiscoveryManifest, NewIn, UpsertsIn
<1> HIDE DEF r
<1>6. /\ longer \in Seq(DiscoveryManifest) /\ Len(longer) = L + 1
      /\ \A i \in 1 .. L : longer[i] = chain[i]
      /\ longer[L + 1] = r /\ IsPrefix(chain, longer)
  BY <1>3, <1>5, LongerPrefix
<1> HIDE DEF longer
<1>7. /\ p2 \in PointerType /\ p2.discovery[s] = longer /\ p2.current = pointer.current
      /\ p2.history = pointer.history /\ \A t \in Streams \ {s} : p2.discovery[t] = pointer.discovery[t]
      /\ p2.overtaken = pointer.overtaken
  <2> DEFINE discovery == [pointer.discovery EXCEPT ![s] = longer]
  <2>1. /\ discovery \in [Streams -> Seq(DiscoveryManifest)] /\ discovery[s] = longer
        /\ \A t \in Streams \ {s} : discovery[t] = pointer.discovery[t]
    BY <1>3, <1>6 DEF PointerType
  <2>2. p2 = [pointer EXCEPT !.discovery = discovery]
    BY <1>3 DEF PointerType
  <2> HIDE DEF discovery, p2
  <2> QED  BY <1>3, <2>1, <2>2 DEF PointerType
<1>8. w2["compact"] = job["compact"] /\ w2["promote"] = job["promote"]
  BY <1>3
<1> HIDE DEF p2, w2
<1>9. Grown(market, pointer, job, market, p2, w2)
  <2>1. \A t \in Streams : IsPrefix(pointer.discovery[t], p2.discovery[t])
    <3>1. \A S : \A c \in Seq(S) : IsPrefix(c, c)
      BY PrefixIs
    <3> QED  BY <1>3, <1>6, <1>7, <3>1 DEF PointerType
  <2>2. IsPrefix(pointer.current, p2.current)
    <3>1. \A S : \A c \in Seq(S) : IsPrefix(c, c)
      BY PrefixIs
    <3> QED  BY <1>3, <1>7, <3>1 DEF PointerType
  <2>3. \A m \in Markets : market[m] <= market[m]
    BY <1>3
  <2>4. \A m \in Markets : Secured(pointer, job, m) => Secured(p2, w2, m)
    BY <1>7, <1>8 DEF Secured
  <2> QED  BY <1>3, <1>7, <2>1, <2>2, <2>3, <2>4 DEF Grown
<1>10. ASSUME NEW m \in Markets, m[1] = s, m \in MarketsOf(j.rows)
       PROVE  Covered(p2, w2, s, L + 1, m)
  <2>1. PICK q \in j.rows : q.market = m
    BY <1>10 DEF MarketsOf
  <2>2. CASE q \in r.new
    <3>1. m \in MarketsOf(p2.discovery[s][L + 1].new)
      BY <1>6, <1>7, <2>1, <2>2 DEF MarketsOf
    <3>2. L + 1 \in 1 .. L + 1
      BY <1>3
    <3>3. AnnouncedBy(p2.discovery[s], L + 1, m)
      BY <3>1, <3>2, Zenon DEF AnnouncedBy
    <3> QED  BY <3>3, Zenon DEF Covered
  <2>3. CASE q \notin r.new
    <3>1. m \in MarketsOf(KnownRows)
      BY <1>5, <2>1, <2>3 DEF NewIn
    <3>2. AllCovered(p2, w2, m)
      BY <1>9, <3>1, KnownIsCovered, CoverageGrows
    <3> QED  BY <1>6, <1>7, <1>10, <3>2 DEF AllCovered
  <2> QED  BY <2>2, <2>3
<1>11. ASSUME NEW m \in Markets, m[1] = s, m[2] <= j.listed PROVE Covered(p2, w2, s, L + 1, m)
  <2>1. CASE m[2] >= j.cutoff
    BY <1>4, <1>10, <1>11, <2>1
  <2>2. CASE ~(m[2] >= j.cutoff)
    <3>1. chain # <<>> /\ m[2] + Overlap < chain[L].high /\ L \in 1 .. L
      <4>1. m[2] \in Nat /\ j.cutoff = CutoffAfter(chain)
        BY <1>4, MarketHasStream
      <4>2. chain # <<>>
        BY <2>2, <4>1, CatalogBounds DEF CutoffAfter
      <4>3. L \in 1 .. L /\ Last(chain) = chain[L]
        BY <1>3, <4>2 DEF Last
      <4>4. chain[L].high \in Nat
        <5>1. chain[L] \in DiscoveryManifest
          BY <1>3, <4>3
        <5> QED  BY <5>1 DEF DiscoveryManifest
      <4> HIDE DEF chain, L
      <4> QED  BY <1>3, <2>2, <4>1, <4>2, <4>3, <4>4 DEF CutoffAfter
    <3>2. GoodRelease(market, pointer, job, s, L)
      BY <3>1 DEF CatalogInv, CatalogOK, GoodStream
    <3>3. Covered(pointer, job, s, L, m)
      BY <1>11, <3>1, <3>2 DEF GoodRelease
    <3>4. Covered(p2, w2, s, L, m)
      BY <1>9, <3>1, <3>3, CoverageGrows
    <3>5. AnnouncedBy(p2.discovery[s], L, m) => AnnouncedBy(p2.discovery[s], L + 1, m)
      <4>1. \A i \in 1 .. L : i \in 1 .. L + 1
        BY <1>3
      <4> QED  BY <4>1, Zenon DEF AnnouncedBy
    <3> QED  BY <3>4, <3>5, Zenon DEF Covered
  <2> QED  BY <2>1, <2>2
<1>12. GoodRelease(market, p2, w2, s, L + 1)
  <2>1. p2.discovery[s][L + 1] = r /\ (L \in 1 .. L => p2.discovery[s][L] = chain[L])
    BY <1>6, <1>7
  <2>2. Past(market, r.new) /\ Past(market, r.upserts) /\ \A m \in MarketsOf(r.new) : m[1] = s
    BY <1>4, <1>5 DEF Past, MarketsOf
  <2>3. \A m \in MarketsOf(r.upserts) : AllCovered(p2, w2, m)
    <3> SUFFICES ASSUME NEW m \in MarketsOf(r.upserts) PROVE AllCovered(p2, w2, m)
      OBVIOUS
    <3>1. m \in Markets
      BY <1>5, RowsAreOfMarkets DEF DiscoveryManifest
    <3>2. m \in MarketsOf(KnownRows)
      BY <1>5 DEF UpsertsIn, MarketsOf
    <3> QED  BY <1>9, <3>1, <3>2, KnownIsCovered, CoverageGrows
  <2>4. \A m \in Markets : m[1] = s /\ m[2] + Overlap < r.high => Covered(p2, w2, s, L + 1, m)
    <3> SUFFICES ASSUME NEW m \in Markets, m[1] = s, m[2] + Overlap < r.high
                 PROVE  Covered(p2, w2, s, L + 1, m)
      OBVIOUS
    <3>1. m[2] \in Nat
      BY MarketHasStream
    <3>2. m[2] <= j.listed
      BY <1>3, <1>4, <1>5, <3>1
    <3> QED  BY <1>11, <3>2
  <2>5. L + 1 > 1 => \A m \in Markets : m[1] = s /\ m[2] <= p2.discovery[s][L].high
                                          => Covered(p2, w2, s, L + 1, m)
    <3> SUFFICES ASSUME L + 1 > 1, NEW m \in Markets, m[1] = s, m[2] <= p2.discovery[s][L].high
                 PROVE  Covered(p2, w2, s, L + 1, m)
      OBVIOUS
    <3>1. L \in 1 .. L /\ m[2] \in Nat
      BY <1>3, MarketHasStream
    <3>2. chain[L].high <= j.listed /\ chain[L].high \in Nat /\ m[2] <= chain[L].high
      <4>1. chain[L] \in DiscoveryManifest
        BY <1>3, <3>1
      <4>2. m[2] <= chain[L].high
        BY <2>1, <3>1
      <4>3. chain[L].high <= j.listed
        BY <1>4, <3>1
      <4> QED  BY <4>1, <4>2, <4>3 DEF DiscoveryManifest
    <3> HIDE DEF L, chain
    <3>3. m[2] <= j.listed
      BY <1>4, <3>1, <3>2
    <3> QED  BY <1>11, <3>3
  <2>6. L + 1 - 1 = L /\ r.high <= n
    BY <1>3, <1>4, <1>5
  <2> QED  BY <2>1, <2>2, <2>3, <2>4, <2>5, <2>6 DEF GoodRelease
<1>13. CatalogOK(market, p2, w2)
  <2>1. \A t \in Streams : \A k \in 1 .. Len(p2.discovery[t]) :
          k \in 1 .. Len(pointer.discovery[t]) \/ GoodRelease(market, p2, w2, t, k)
    <3> SUFFICES ASSUME NEW t \in Streams, NEW k \in 1 .. Len(p2.discovery[t]), k \notin 1 .. Len(pointer.discovery[t])
                 PROVE  GoodRelease(market, p2, w2, t, k)
      OBVIOUS
    <3>1. t = s /\ k = L + 1
      BY <1>3, <1>6, <1>7
    <3> QED  BY <1>12, <3>1
  <2>2. GoodHistory(market, p2, p2.history)
    BY <1>7, <1>9, HistoryGrows DEF CatalogInv, CatalogOK
  <2>3. \A m \in MarketsOf(p2.history.rows) : AllCovered(p2, w2, m)
    BY <1>7, <1>9, CoverageGrows, RowsAreOfMarkets DEF CatalogInv, CatalogOK, GoodHistory, HistoryContent
  <2>4. p2.current # <<>> /\ \A k \in 1 .. Len(p2.current) : Past(market, p2.current[k].upserts)
    BY <1>7 DEF CatalogInv, CatalogOK
  <2>5. StillParent(p2, w2["promote"])
    BY <1>7, <1>8 DEF CatalogInv, CatalogOK, StillParent
  <2> QED  BY <1>3, <1>7, <1>9, <2>1, <2>2, <2>3, <2>4, <2>5, PointersReplaced DEF CatalogInv, w2
<1> QED  BY <1>2, <1>13 DEF CatalogInv

LEMMA RefreshStep == ASSUME CatalogInv, Refresh PROVE CatalogInv'
<1> DEFINE memory == [at |-> "census", predecessor |-> pointer.current, open |-> Census]
<1>1. job' = [job EXCEPT !["refresh"] = memory] /\ market' = market /\ pointer' = pointer
  BY DEF Refresh, Remember
<1>2. Refreshing(pointer, memory)
  BY DEF Refreshing, Census
<1> HIDE DEF memory
<1>3. "refresh" \in Jobs /\ "refresh" \notin Streams
  BY CatalogBounds DEF Jobs
<1>4. CatalogOK(market, pointer, job')
  BY <1>1, <1>2, <1>3, MemoryChanges DEF CatalogInv
<1> QED  BY <1>1, <1>4 DEF CatalogInv

LEMMA ReconcileStep ==
  ASSUME CatalogInv, NEW unresolved \in SUBSET Markets, Reconcile(unresolved) PROVE CatalogInv'
<1> DEFINE j == job["refresh"]
           looked == Missing \ unresolved
           release == Reconciled(looked)
           chain == pointer.current
           longer == Append(chain, release)
           p2 == [pointer EXCEPT !.current = longer]
           w2 == [job EXCEPT !["refresh"] = NoJob]
<1>1. Refreshing(pointer, j)
  <2>1. j.at = "census"
    BY DEF Reconcile
  <2>2. j # NoJob
    BY <2>1, AtWork
  <2> QED  BY <2>2 DEF CatalogInv, CatalogOK
<1>2. market' = market /\ job' = w2 /\ pointer' = p2
  BY <1>1 DEF Reconcile, PublishCurrent, Replace, Refreshing
<1>3. /\ market \in [Markets -> Nat] /\ pointer \in PointerType /\ chain \in Seq(CurrentManifest)
      /\ chain # <<>> /\ job = [k \in Jobs |-> job[k]] /\ Len(chain) \in Nat
  <2>1. /\ market \in [Markets -> Nat] /\ pointer \in PointerType /\ chain # <<>>
        /\ job = [k \in Jobs |-> job[k]]
    BY DEF CatalogInv, CatalogOK
  <2>2. chain \in Seq(CurrentManifest)
    BY <2>1 DEF PointerType
  <2> QED  BY <2>1, <2>2
<1>4. looked \in SUBSET Markets
  <2>1. Len(chain) \in 1 .. Len(chain) /\ Last(chain) = chain[Len(chain)]
    BY <1>3 DEF Last
  <2>2. chain[Len(chain)] \in CurrentManifest
    BY <1>3, <2>1
  <2>3. Last(j.predecessor).open \in SUBSET Markets
    BY <1>1, <2>1, <2>2 DEF Refreshing, CurrentManifest
  <2> QED  BY <2>3 DEF Missing
<1> HIDE DEF looked
<1>5. release \in CurrentManifest /\ Past(market, release.upserts)
  <2> DEFINE open == j.open \cup {m \in looked : IsOpen(m)}
             over == {Entry(m) : m \in {m \in looked : ~IsOpen(m)}}
  <2>1. release = [open |-> open, new |-> {}, upserts |-> over]
    BY DEF Reconciled
  <2>2. open \in SUBSET Markets
    BY <1>1, <1>4 DEF Refreshing
  <2>3. \A m \in looked : Entry(m) \in CatalogRow /\ Entry(m).version <= market[Entry(m).market]
    BY <1>3, <1>4 DEF Entry, CatalogRow
  <2>4. \A r \in over : r \in CatalogRow /\ r.version <= market[r.market]
    BY <2>3
  <2> HIDE DEF open, over, release
  <2> QED  BY <2>1, <2>2, <2>4 DEF CurrentManifest, Past
<1> HIDE DEF release
<1>6. /\ longer \in Seq(CurrentManifest) /\ Len(longer) = Len(chain) + 1
      /\ \A i \in 1 .. Len(chain) : longer[i] = chain[i]
      /\ longer[Len(chain) + 1] = release /\ IsPrefix(chain, longer)
  BY <1>3, <1>5, LongerPrefix
<1> HIDE DEF longer
<1>7. /\ p2 \in PointerType /\ p2.current = longer /\ p2.history = pointer.history
      /\ p2.discovery = pointer.discovery /\ p2.overtaken = pointer.overtaken
  BY <1>3, <1>6 DEF PointerType
<1>8. w2["compact"] = job["compact"] /\ w2["promote"] = job["promote"]
  BY <1>3
<1> HIDE DEF p2, w2
<1>9. Grown(market, pointer, job, market, p2, w2)
  <2>1. \A s \in Streams : IsPrefix(pointer.discovery[s], p2.discovery[s])
    <3>1. \A S : \A c \in Seq(S) : IsPrefix(c, c)
      BY PrefixIs
    <3> QED  BY <1>3, <1>7, <3>1 DEF PointerType
  <2>2. \A m \in Markets : market[m] <= market[m]
    BY <1>3
  <2>3. \A m \in Markets : Secured(pointer, job, m) => Secured(p2, w2, m)
    BY <1>7, <1>8 DEF Secured
  <2> QED  BY <1>3, <1>6, <1>7, <2>1, <2>2, <2>3 DEF Grown
<1>10. CatalogOK(market, p2, w2)
  <2>1. \A k \in 1 .. Len(p2.current) : Past(market, p2.current[k].upserts)
    <3> SUFFICES ASSUME NEW k \in 1 .. Len(longer) PROVE Past(market, longer[k].upserts)
      BY <1>7
    <3>1. k \in 1 .. Len(chain) \/ k = Len(chain) + 1
      BY <1>3, <1>6
    <3>2. CASE k \in 1 .. Len(chain)
      BY <1>6, <3>2 DEF CatalogInv, CatalogOK
    <3> QED  BY <1>5, <1>6, <3>1, <3>2
  <2>2. GoodHistory(market, p2, p2.history)
    BY <1>7, <1>9, HistoryGrows DEF CatalogInv, CatalogOK
  <2>3. \A m \in MarketsOf(p2.history.rows) : AllCovered(p2, w2, m)
    BY <1>7, <1>9, CoverageGrows, RowsAreOfMarkets DEF CatalogInv, CatalogOK, GoodHistory, HistoryContent
  <2>4. p2.current # <<>>
    BY <1>3, <1>6, <1>7
  <2>5. "refresh" \in Jobs
    BY DEF Jobs
  <2>6. \A s \in Streams : \A k \in 1 .. Len(p2.discovery[s]) : k \in 1 .. Len(pointer.discovery[s])
    BY <1>7
  <2>7. StillParent(p2, w2["promote"])
    BY <1>7, <1>8 DEF CatalogInv, CatalogOK, StillParent
  <2> QED
    BY <1>3, <1>7, <1>9, <2>1, <2>2, <2>3, <2>4, <2>5, <2>6, <2>7, PointersReplaced DEF CatalogInv, w2
<1> QED  BY <1>2, <1>10 DEF CatalogInv

LEMMA PromoteStep == ASSUME CatalogInv, Promote PROVE CatalogInv'
<1> DEFINE memory == [at |-> "watermarked", parent |-> History, promoted |-> pointer.discovery]
<1>1. job' = [job EXCEPT !["promote"] = memory] /\ market' = market /\ pointer' = pointer
  BY DEF Promote, Remember
<1>2. Promoting(market, pointer, memory)
  <2>1. GoodHistory(market, pointer, memory.parent)
    BY DEF CatalogInv, CatalogOK, History
  <2>2. memory.promoted \in [Streams -> Seq(DiscoveryManifest)]
    BY DEF CatalogInv, CatalogOK, PointerType
  <2>3. \A s \in Streams : IsPrefix(memory.promoted[s], pointer.discovery[s])
    <3>1. \A S : \A c \in Seq(S) : IsPrefix(c, c)
      BY PrefixIs
    <3> QED  BY <2>2, <3>1
  <2> QED  BY <2>1, <2>2, <2>3 DEF Promoting
<1>5. StillParent(pointer, memory)
  BY DEF StillParent
<1> HIDE DEF memory
<1>3. "promote" \in Jobs /\ "promote" \notin Streams
  BY CatalogBounds DEF Jobs
<1>4. CatalogOK(market, pointer, job')
  BY <1>1, <1>2, <1>3, <1>5, MemoryChanges DEF CatalogInv
<1> QED  BY <1>1, <1>4 DEF CatalogInv

LEMMA GatherPromotionStep == ASSUME CatalogInv, GatherPromotion PROVE CatalogInv'
<1> DEFINE j == job["promote"]
           parent == j.parent
           found == Announced(parent)
           added == Promotable(parent, found)
           unknown == {r \in found : r.market \notin MarketsOf(parent.rows)}
           release == [parent EXCEPT !.promoted = j.promoted, !.rows = @ \cup added]
           memory == [at |-> "staged", parent |-> parent, release |-> release]
<1>1. /\ GoodHistory(market, pointer, parent) /\ j.promoted \in [Streams -> Seq(DiscoveryManifest)]
      /\ \A s \in Streams : IsPrefix(j.promoted[s], pointer.discovery[s])
  <2>1. j.at = "watermarked"
    BY DEF GatherPromotion
  <2>2. j # NoJob
    BY <2>1, AtWork
  <2>3. Promoting(market, pointer, j)
    BY <2>2 DEF CatalogInv, CatalogOK
  <2> QED  BY <2>1, <2>3 DEF Promoting
<1>2. job' = [job EXCEPT !["promote"] = memory] /\ market' = market /\ pointer' = pointer
  BY DEF GatherPromotion, Remember
<1>3. market \in [Markets -> Nat] /\ pointer.discovery \in [Streams -> Seq(DiscoveryManifest)]
  BY DEF CatalogInv, CatalogOK, PointerType
<1>4. /\ parent \in HistoryContent /\ Past(market, parent.rows) /\ HoldsPromoted(parent) /\ HoldsCompacted(parent)
      /\ \A s \in Streams : IsPrefix(parent.promoted[s], pointer.discovery[s])
      /\ \A s \in Streams : parent.promoted[s] \in Seq(DiscoveryManifest)
      /\ First \subseteq MarketsOf(parent.rows) /\ \A m \in MarketsOf(parent.rows) : Rooted(pointer, m)
  BY <1>1 DEF GoodHistory, HistoryContent
<1>5. ASSUME NEW r \in found
      PROVE  /\ r \in CatalogRow /\ r.version <= market[r.market]
             /\ AnnouncedBy(pointer.discovery[r.market[1]], Len(pointer.discovery[r.market[1]]), r.market)
  <2>1. PICK s \in Streams : \E a \in After(pointer.discovery[s], parent.promoted[s]) : r \in a.new
    BY <1>5 DEF Announced
  <2>2. PICK a \in After(pointer.discovery[s], parent.promoted[s]) : r \in a.new
    BY <2>1
  <2>3. PICK k \in 1 .. Len(pointer.discovery[s]) : a = pointer.discovery[s][k]
    BY <1>3, <1>4, <2>2, AfterIs
  <2>4. GoodRelease(market, pointer, job, s, k) /\ a \in DiscoveryManifest
    BY <1>3, <2>3 DEF CatalogInv, CatalogOK, GoodStream
  <2>5. r.market \in MarketsOf(a.new)
    BY <2>2 DEF MarketsOf
  <2>6. r.market[1] = s
    BY <2>3, <2>4, <2>5 DEF GoodRelease
  <2>7. r \in CatalogRow /\ r.version <= market[r.market]
    BY <2>2, <2>3, <2>4 DEF GoodRelease, Past, DiscoveryManifest
  <2> QED  BY <2>3, <2>5, <2>6, <2>7 DEF AnnouncedBy
<1>6. ASSUME NEW s \in Streams, NEW i \in 1 .. Len(pointer.discovery[s])
      PROVE  \/ pointer.discovery[s][i].new \subseteq found
             \/ i \in 1 .. Len(parent.promoted[s]) /\ parent.promoted[s][i] = pointer.discovery[s][i]
  <2>1. \/ pointer.discovery[s][i] \in After(pointer.discovery[s], parent.promoted[s])
        \/ i \in 1 .. Len(parent.promoted[s]) /\ parent.promoted[s][i] = pointer.discovery[s][i]
    BY <1>3, <1>4, AfterIs
  <2> QED  BY <2>1 DEF Announced
<1> HIDE DEF found
<1>7. /\ added \subseteq unknown /\ MarketsOf(added) = MarketsOf(unknown)
  <2>1. unknown \in SUBSET CatalogRow /\ Past(market, unknown)
    BY <1>5 DEF Past
  <2> HIDE DEF unknown
  <2>2. added = Newest(unknown)
    BY DEF Promotable, unknown
  <2> QED  BY <1>3, <2>1, <2>2, NewestIs
<1> HIDE DEF added
<1>8. /\ release \in HistoryContent /\ release.rows = parent.rows \cup added /\ release.promoted = j.promoted
      /\ release.compacted = parent.compacted /\ release.lifecycle = parent.lifecycle
  <2>1. parent.rows \cup added \in SUBSET CatalogRow
    BY <1>4, <1>5, <1>7 DEF HistoryContent
  <2> HIDE DEF unknown
  <2> QED  BY <1>1, <1>4, <2>1 DEF HistoryContent
<1> HIDE DEF release
<1>9. MarketsOf(release.rows) = MarketsOf(parent.rows) \cup MarketsOf(unknown)
  BY <1>7, <1>8 DEF MarketsOf
<1>10. \A m \in MarketsOf(release.rows) :
         \/ m \in MarketsOf(parent.rows)
         \/ AnnouncedBy(pointer.discovery[m[1]], Len(pointer.discovery[m[1]]), m)
  <2>1. \A m \in MarketsOf(unknown) : \E r \in found : m = r.market
    BY DEF MarketsOf
  <2> QED  BY <1>5, <1>9, <2>1
<1>11. GoodHistory(market, pointer, release)
  <2>1. Past(market, release.rows)
    BY <1>4, <1>5, <1>7, <1>8 DEF Past
  <2>2. HoldsPromoted(release)
    <3> SUFFICES ASSUME NEW s \in Streams, NEW i \in 1 .. Len(j.promoted[s]),
                        NEW m \in MarketsOf(j.promoted[s][i].new)
                 PROVE  m \in MarketsOf(release.rows)
      BY <1>8 DEF HoldsPromoted
    <3>1. i \in 1 .. Len(pointer.discovery[s]) /\ j.promoted[s][i] = pointer.discovery[s][i]
      <4>1. /\ Len(j.promoted[s]) <= Len(pointer.discovery[s]) /\ Len(pointer.discovery[s]) \in Nat
            /\ Len(j.promoted[s]) \in Nat
            /\ \A k \in 1 .. Len(j.promoted[s]) : j.promoted[s][k] = pointer.discovery[s][k]
        BY <1>1, <1>3, PrefixIs
      <4> QED  BY <4>1
    <3>2. CASE pointer.discovery[s][i].new \subseteq found
      <4>1. m \in MarketsOf(found)
        BY <3>1, <3>2 DEF MarketsOf
      <4>2. m \in MarketsOf(parent.rows) \/ m \in MarketsOf(unknown)
        BY <4>1 DEF MarketsOf
      <4> QED  BY <1>9, <4>2
    <3>3. CASE i \in 1 .. Len(parent.promoted[s]) /\ parent.promoted[s][i] = pointer.discovery[s][i]
      <4>1. m \in MarketsOf(parent.rows)
        BY <1>4, <3>1, <3>3 DEF HoldsPromoted
      <4> QED  BY <1>9, <4>1
    <3> QED  BY <1>6, <3>1, <3>2, <3>3
  <2>3. HoldsCompacted(release)
    BY <1>4, <1>8 DEF HoldsCompacted, Holds
  <2>4. First \subseteq MarketsOf(release.rows) /\ \A m \in MarketsOf(release.rows) : Rooted(pointer, m)
    BY <1>4, <1>9, <1>10 DEF Rooted
  <2> QED  BY <1>1, <1>8, <2>1, <2>2, <2>3, <2>4 DEF GoodHistory
<1>12. Promoting(market, pointer, memory)
  <2>1. memory.parent = parent /\ memory.release = release /\ memory = [at |-> "staged", parent |-> parent, release |-> release]
    OBVIOUS
  <2>2. MarketsOf(parent.rows) \subseteq MarketsOf(release.rows)
    BY <1>9
  <2> HIDE DEF memory, parent, unknown, j
  <2>3. memory \in [at : {"staged", "checked"}, parent : {memory.parent}, release : {memory.release}]
    BY <2>1
  <2> QED  BY <1>10, <1>11, <2>1, <2>2, <2>3 DEF Promoting
<1>13. StillParent(pointer, memory)
  BY DEF StillParent
<1> HIDE DEF memory
<1>14. "promote" \in Jobs /\ "promote" \notin Streams
  BY CatalogBounds DEF Jobs
<1>15. CatalogOK(market, pointer, job')
  BY <1>2, <1>12, <1>14, <1>13, MemoryChanges DEF CatalogInv
<1> QED  BY <1>2, <1>15 DEF CatalogInv

\* History is replaced: no chain grows.
LEMMA HistoryReplaced ==
  ASSUME CatalogInv, NEW j \in {"promote", "compact"}, NEW release, GoodHistory(market, pointer, release),
         NEW overtaken \in BOOLEAN, pointer.overtaken => overtaken,
         NEW p2, p2 = [pointer EXCEPT !.history = release, !.overtaken = overtaken],
         NEW w2, w2 = [job EXCEPT ![j] = NoJob], StillParent(p2, w2["promote"]),
         overtaken \/ \A m \in Markets : Secured(pointer, job, m) => Secured(p2, w2, m),
         overtaken \/ \A m \in MarketsOf(release.rows) : AllCovered(p2, w2, m)
  PROVE  CatalogOK(market, p2, w2)
<1>1. /\ market \in [Markets -> Nat] /\ pointer \in PointerType /\ pointer.current # <<>>
      /\ \A k \in 1 .. Len(pointer.current) : Past(market, pointer.current[k].upserts)
  BY DEF CatalogInv, CatalogOK
<1>2. /\ p2 \in PointerType /\ p2.history = release /\ p2.current = pointer.current
      /\ p2.discovery = pointer.discovery /\ p2.overtaken = overtaken
  BY <1>1 DEF PointerType, GoodHistory
<1>3. Grown(market, pointer, job, market, p2, w2)
  <2>1. \A S : \A c \in Seq(S) : IsPrefix(c, c)
    BY PrefixIs
  <2>2. \A m \in Markets : market[m] <= market[m]
    BY <1>1
  <2> QED  BY <1>1, <1>2, <2>1, <2>2 DEF Grown, PointerType
<1>4. GoodHistory(market, p2, p2.history)
  BY <1>2, <1>3, HistoryGrows
<1>5. j \in Jobs /\ \A s \in Streams : \A k \in 1 .. Len(p2.discovery[s]) : k \in 1 .. Len(pointer.discovery[s])
  BY <1>2 DEF Jobs
<1>6. \A m \in MarketsOf(p2.history.rows) : AllCovered(p2, w2, m)
  <2>1. CASE overtaken
    BY <1>2, <1>4, <2>1 DEF GoodHistory, Rooted, AllCovered, Covered
  <2> QED  BY <1>2, <2>1
<1>7. j \notin Streams /\ j # "refresh"
  BY CatalogBounds
<1> QED  BY <1>1, <1>2, <1>3, <1>4, <1>5, <1>6, <1>7, PointersReplaced DEF CatalogInv

LEMMA PromotionStaged ==
  ASSUME CatalogInv, job["promote"].at \in {"staged", "checked"}
  PROVE  LET j == job["promote"] IN
         /\ j = [at |-> j.at, parent |-> j.parent, release |-> j.release]
         /\ Promoting(market, pointer, j) /\ GoodHistory(market, pointer, j.release)
         /\ MarketsOf(j.parent.rows) \subseteq MarketsOf(j.release.rows)
         /\ \A m \in MarketsOf(j.release.rows) :
              \/ m \in MarketsOf(j.parent.rows)
              \/ AnnouncedBy(pointer.discovery[m[1]], Len(pointer.discovery[m[1]]), m)
         /\ StillParent(pointer, j)
<1> DEFINE j == job["promote"]
<1>1. j # NoJob
  BY AtWork
<1>2. Promoting(market, pointer, j) /\ StillParent(pointer, j)
  BY <1>1 DEF CatalogInv, CatalogOK
<1>3. ~(j.at = "watermarked")
  OBVIOUS
<1> HIDE DEF j
<1>4. /\ j \in [at : {"staged", "checked"}, parent : {j.parent}, release : {j.release}]
      /\ GoodHistory(market, pointer, j.release)
      /\ MarketsOf(j.parent.rows) \subseteq MarketsOf(j.release.rows)
      /\ \A m \in MarketsOf(j.release.rows) :
           \/ m \in MarketsOf(j.parent.rows)
           \/ AnnouncedBy(pointer.discovery[m[1]], Len(pointer.discovery[m[1]]), m)
  BY <1>2, <1>3 DEF Promoting
<1> QED  BY <1>2, <1>4 DEF j

LEMMA CheckParentStep == ASSUME CatalogInv, CheckParent PROVE CatalogInv'
<1> DEFINE j == job["promote"]
           memory == [j EXCEPT !.at = "checked"]
<1>1. /\ job' = [job EXCEPT !["promote"] = memory] /\ market' = market /\ pointer' = pointer
      /\ j.at = "staged" /\ pointer.history = j.parent
  BY DEF CheckParent, Remember, History
<1>2. /\ j = [at |-> j.at, parent |-> j.parent, release |-> j.release]
      /\ GoodHistory(market, pointer, j.release)
      /\ MarketsOf(j.parent.rows) \subseteq MarketsOf(j.release.rows)
      /\ \A m \in MarketsOf(j.release.rows) :
           \/ m \in MarketsOf(j.parent.rows)
           \/ AnnouncedBy(pointer.discovery[m[1]], Len(pointer.discovery[m[1]]), m)
  BY <1>1, PromotionStaged
<1>3. memory = [at |-> "checked", parent |-> j.parent, release |-> j.release]
  BY <1>2
<1>4. memory.parent = j.parent /\ memory.release = j.release /\ memory.at = "checked"
  BY <1>3
<1> HIDE DEF memory, j
<1>5. Promoting(market, pointer, memory)
  BY <1>2, <1>3, <1>4 DEF Promoting
<1>6. StillParent(pointer, memory)
  BY <1>1, <1>4 DEF StillParent
<1>7. "promote" \in Jobs /\ "promote" \notin Streams
  BY CatalogBounds DEF Jobs
<1>8. CatalogOK(market, pointer, job')
  BY <1>1, <1>5, <1>6, <1>7, MemoryChanges DEF CatalogInv
<1> QED  BY <1>1, <1>8 DEF CatalogInv

LEMMA PublishPromotionStep == ASSUME CatalogInv, PublishPromotion PROVE CatalogInv'
<1> DEFINE j == job["promote"]
           release == j.release
           p2 == [pointer EXCEPT !.history = release]
           w2 == [job EXCEPT !["promote"] = NoJob]
<1>1. /\ GoodHistory(market, pointer, release) /\ (pointer.overtaken \/ pointer.history = j.parent)
      /\ MarketsOf(j.parent.rows) \subseteq MarketsOf(release.rows)
      /\ \A m \in MarketsOf(release.rows) :
           \/ m \in MarketsOf(j.parent.rows)
           \/ AnnouncedBy(pointer.discovery[m[1]], Len(pointer.discovery[m[1]]), m)
  <2>1. j.at = "checked"
    BY DEF PublishPromotion
  <2> QED  BY <2>1, PromotionStaged DEF StillParent
<1>2. market' = market /\ job' = w2 /\ pointer' = p2
  BY DEF PublishPromotion, Replace
<1>3. /\ p2.history = release /\ p2.discovery = pointer.discovery /\ w2["compact"] = job["compact"]
      /\ p2 = [pointer EXCEPT !.history = release, !.overtaken = pointer.overtaken]
      /\ pointer.overtaken \in BOOLEAN /\ p2.overtaken = pointer.overtaken
      /\ p2.current = pointer.current
  <2>1. pointer \in PointerType /\ job = [k \in Jobs |-> job[k]]
    BY DEF CatalogInv, CatalogOK
  <2>2. w2["compact"] = job["compact"]
    BY <2>1
  <2> HIDE DEF j, w2
  <2>3. /\ p2.history = release /\ p2.discovery = pointer.discovery
        /\ pointer.overtaken \in BOOLEAN /\ p2.overtaken = pointer.overtaken
        /\ p2.current = pointer.current
    BY <2>1 DEF PointerType
  <2>4. p2 = [pointer EXCEPT !.history = release, !.overtaken = pointer.overtaken]
    BY <2>1 DEF PointerType
  <2> QED  BY <2>2, <2>3, <2>4
<1>4. \A m \in MarketsOf(release.rows) : m \in Markets
  BY <1>1, RowsAreOfMarkets DEF GoodHistory, HistoryContent
<1>5. \A m \in MarketsOf(pointer.history.rows) : AllCovered(pointer, job, m)
  BY DEF CatalogInv, CatalogOK
<1>6. StillParent(p2, w2["promote"])
  <2>1. job = [k \in Jobs |-> job[k]] /\ "promote" \in Jobs
    BY DEF CatalogInv, CatalogOK, Jobs
  <2> QED  BY <2>1 DEF StillParent, NoJob
<1> HIDE DEF w2
<1>7. CatalogOK(market, p2, w2)
  <2> HIDE DEF p2, j
  <2>1. pointer.overtaken \/ \A m \in Markets : Secured(pointer, job, m) => Secured(p2, w2, m)
    BY <1>1, <1>3 DEF Secured, j
  <2>2. pointer.overtaken \/ \A m \in MarketsOf(release.rows) : AllCovered(p2, w2, m)
    <3> SUFFICES ASSUME ~pointer.overtaken, NEW m \in MarketsOf(release.rows) PROVE AllCovered(p2, w2, m)
      OBVIOUS
    <3>1. m \in Markets
      BY <1>4
    <3>2. CASE AnnouncedBy(pointer.discovery[m[1]], Len(pointer.discovery[m[1]]), m)
      BY <1>3, <3>2 DEF AllCovered, Covered
    <3>3. CASE m \in MarketsOf(j.parent.rows)
      <4>1. AllCovered(pointer, job, m)
        BY <1>1, <1>5, <3>3
      <4>2. Lasting(pointer, m) => Lasting(p2, m)
        BY <1>3 DEF Lasting, Corrected
      <4>3. Secured(pointer, job, m) => Secured(p2, w2, m)
        BY <2>1, <3>1
      <4> QED  BY <1>3, <4>1, <4>2, <4>3 DEF AllCovered, Covered
    <3> QED  BY <1>1, <3>2, <3>3
  <2>3. pointer.overtaken => pointer.overtaken
    OBVIOUS
  <2> QED  BY <1>1, <1>3, <1>6, <2>1, <2>2, <2>3, HistoryReplaced DEF w2
<1> QED  BY <1>2, <1>7 DEF CatalogInv

LEMMA PublishCompactionStep == ASSUME CatalogInv, PublishCompaction PROVE CatalogInv'
<1> DEFINE j == job["compact"]
           release == j.release
           overtaken == pointer.overtaken \/ job["promote"].at = "checked"
           p2 == [pointer EXCEPT !.history = release, !.overtaken = overtaken]
           w2 == [job EXCEPT !["compact"] = NoJob]
<1>1. GoodHistory(market, pointer, release) /\ j # NoJob
  <2>1. j.at = "staged"
    BY DEF PublishCompaction
  <2>2. j # NoJob
    BY <2>1, AtWork
  <2> QED  BY <2>2 DEF CatalogInv, CatalogOK, Compacting
<1>2. market' = market /\ job' = w2 /\ pointer' = p2
  BY DEF PublishCompaction, Replace, CatalogInv, CatalogOK, PointerType
<1>3. /\ p2.history = release /\ p2.discovery = pointer.discovery /\ p2.current = pointer.current
      /\ p2.overtaken = overtaken /\ overtaken \in BOOLEAN /\ (pointer.overtaken => overtaken)
  BY DEF CatalogInv, CatalogOK, PointerType
<1>4. w2["compact"] = NoJob /\ w2["promote"] = job["promote"]
  <2>1. job = [k \in Jobs |-> job[k]] /\ "compact" \in Jobs /\ "promote" \in Jobs
    BY DEF CatalogInv, CatalogOK, Jobs
  <2> QED  BY <2>1
<1> HIDE DEF w2
<1>5. \A m \in MarketsOf(release.rows) : Secured(p2, w2, m)
  BY <1>3, <1>4 DEF Secured
<1>6. StillParent(p2, w2["promote"])
  BY <1>3, <1>4 DEF StillParent
<1>7. \A m \in MarketsOf(release.rows) : Rooted(p2, m)
  BY <1>1, <1>3 DEF GoodHistory, Rooted, Lasting, Corrected
<1>8. CatalogOK(market, p2, w2)
  <2>1. ASSUME NEW m \in Markets, Secured(pointer, job, m) PROVE Secured(p2, w2, m)
    BY <1>1, <1>5, <2>1 DEF Secured
  <2>2. \A m \in MarketsOf(release.rows) : AllCovered(p2, w2, m)
    BY <1>5, <1>7 DEF AllCovered, Covered, Rooted
  <2>3. p2 = [pointer EXCEPT !.history = release, !.overtaken = overtaken]
    OBVIOUS
  <2> HIDE DEF p2, overtaken
  <2> QED  BY <1>1, <1>3, <1>6, <2>1, <2>2, <2>3, HistoryReplaced DEF w2
<1> QED  BY <1>2, <1>8 DEF CatalogInv

LEMMA CompactStep == ASSUME CatalogInv, Compact PROVE CatalogInv'
<1> DEFINE h == pointer.history
           corrected == Entries(After(pointer.current, h.lifecycle))
           discovered == UNION {Entries(After(pointer.discovery[s], h.compacted[s])) : s \in Streams}
           gathered == h.rows \cup corrected \cup discovered
           rows == Newest(gathered)
           release == [h EXCEPT !.compacted = pointer.discovery, !.lifecycle = pointer.current, !.rows = rows]
           memory == [at |-> "staged", release |-> release]
<1>1. job' = [job EXCEPT !["compact"] = memory] /\ market' = market /\ pointer' = pointer
  BY DEF Compact, Remember, Compacted, History
<1>2. job["compact"] = NoJob
  BY DEF Compact, CatalogInv, CatalogOK, Compacting
<1>3. /\ market \in [Markets -> Nat] /\ pointer.discovery \in [Streams -> Seq(DiscoveryManifest)]
      /\ pointer.current \in Seq(CurrentManifest)
  BY DEF CatalogInv, CatalogOK, PointerType
<1>4. /\ h \in HistoryContent /\ Past(market, h.rows) /\ HoldsPromoted(h) /\ HoldsCompacted(h)
      /\ IsPrefix(h.lifecycle, pointer.current) /\ h.lifecycle \in Seq(CurrentManifest)
      /\ \A s \in Streams : /\ IsPrefix(h.compacted[s], pointer.discovery[s])
                            /\ IsPrefix(h.promoted[s], pointer.discovery[s])
                            /\ h.compacted[s] \in Seq(DiscoveryManifest)
      /\ h.rows \in SUBSET CatalogRow /\ First \subseteq MarketsOf(h.rows)
      /\ \A m \in MarketsOf(h.rows) : Rooted(pointer, m)
  BY DEF CatalogInv, CatalogOK, GoodHistory, HistoryContent
<1>5. /\ corrected \in SUBSET CatalogRow /\ Past(market, corrected)
      /\ \A r \in corrected : Rooted(pointer, r.market)
  <2>1. After(pointer.current, h.lifecycle) \subseteq Range(pointer.current)
    <3>1. \A r \in After(pointer.current, h.lifecycle) : \E i \in 1 .. Len(pointer.current) : r = pointer.current[i]
      BY <1>3, <1>4, AfterIs
    <3> QED  BY <1>3, <3>1, RangeIs
  <2>2. \A r \in corrected : Rooted(pointer, r.market)
    BY <2>1, CorrectionsAreRooted DEF CatalogInv
  <2> QED  BY <2>1, <2>2, CorrectionsArePast DEF CatalogInv
<1>6. /\ discovered \in SUBSET CatalogRow /\ Past(market, discovered)
      /\ \A r \in discovered : Rooted(pointer, r.market)
  <2>1. \A s \in Streams : /\ Entries(After(pointer.discovery[s], h.compacted[s])) \in SUBSET CatalogRow
                           /\ Past(market, Entries(After(pointer.discovery[s], h.compacted[s])))
                           /\ \A r \in Entries(After(pointer.discovery[s], h.compacted[s])) :
                                Rooted(pointer, r.market)
    <3> SUFFICES ASSUME NEW s \in Streams
                 PROVE  /\ Entries(After(pointer.discovery[s], h.compacted[s])) \in SUBSET CatalogRow
                        /\ Past(market, Entries(After(pointer.discovery[s], h.compacted[s])))
                        /\ \A r \in Entries(After(pointer.discovery[s], h.compacted[s])) :
                             Rooted(pointer, r.market)
      OBVIOUS
    <3>1. After(pointer.discovery[s], h.compacted[s]) \subseteq Range(pointer.discovery[s])
      <4>1. \A r \in After(pointer.discovery[s], h.compacted[s]) :
              \E i \in 1 .. Len(pointer.discovery[s]) : r = pointer.discovery[s][i]
        BY <1>3, <1>4, AfterIs
      <4>2. pointer.discovery[s] \in Seq(DiscoveryManifest)
        BY <1>3
      <4> QED  BY <4>1, <4>2, RangeIs
    <3> DEFINE E == Entries(After(pointer.discovery[s], h.compacted[s]))
    <3>2. /\ E \in SUBSET CatalogRow /\ Past(market, E)
          /\ \A m \in MarketsOf(E) : AllCovered(pointer, job, m)
      BY <3>1, EntriesArePast DEF CatalogInv
    <3>3. \A r \in E : r.market \in MarketsOf(E)
      BY DEF MarketsOf
    <3> HIDE DEF E
    <3>4. \A r \in E : Rooted(pointer, r.market)
      BY <3>2, <3>3 DEF AllCovered, Covered, Rooted
    <3> QED  BY <3>2, <3>4 DEF E
  <2> QED  BY <2>1 DEF Past
<1>7. ASSUME NEW r \in Entries(Range(pointer.current) \cup UNION {Range(pointer.discovery[s]) : s \in Streams})
      PROVE  \E q \in gathered : q.market = r.market /\ q.version >= r.version
  <2>1. PICK a \in Range(pointer.current) \cup UNION {Range(pointer.discovery[s]) : s \in Streams} :
          r \in a.new \cup a.upserts
    BY <1>7 DEF Entries
  <2>2. CASE a \in Range(h.lifecycle) \/ \E s \in Streams : a \in Range(h.compacted[s])
    <3>1. r \in Entries(Range(h.lifecycle) \cup UNION {Range(h.compacted[s]) : s \in Streams})
      BY <2>1, <2>2 DEF Entries
    <3>2. Holds(h, r)
      BY <1>4, <3>1 DEF HoldsCompacted
    <3> QED  BY <3>2 DEF Holds
  <2>3. CASE a \in After(pointer.current, h.lifecycle)
                \/ \E s \in Streams : a \in After(pointer.discovery[s], h.compacted[s])
    <3>1. r \in gathered
      BY <2>1, <2>3 DEF Entries
    <3>2. r.version \in Nat
      BY <1>4, <1>5, <1>6, <3>1 DEF CatalogRow
    <3>3. r.version >= r.version
      BY <3>2
    <3> HIDE DEF gathered
    <3> QED  BY <3>1, <3>3
  <2>4. Range(pointer.current) \subseteq Range(h.lifecycle) \cup After(pointer.current, h.lifecycle)
    BY <1>3, <1>4, AfterIs
  <2>5. \A s \in Streams :
          Range(pointer.discovery[s]) \subseteq Range(h.compacted[s]) \cup After(pointer.discovery[s], h.compacted[s])
    BY <1>3, <1>4, AfterIs
  <2> QED  BY <2>1, <2>2, <2>3, <2>4, <2>5
<1>8. /\ gathered \in SUBSET CatalogRow /\ Past(market, gathered) /\ h.rows \subseteq gathered
      /\ \A r \in gathered : Rooted(pointer, r.market)
  <2>1. \A r \in h.rows : r.market \in MarketsOf(h.rows)
    BY DEF MarketsOf
  <2> QED  BY <1>4, <1>5, <1>6, <2>1 DEF Past
<1> HIDE DEF gathered
<1>9. /\ rows \subseteq gathered /\ MarketsOf(rows) = MarketsOf(gathered)
      /\ \A r \in gathered : \E q \in rows : q.market = r.market /\ q.version >= r.version
  BY <1>3, <1>8, NewestIs
<1> HIDE DEF rows
<1>10. /\ release \in HistoryContent /\ release.rows = rows /\ release.promoted = h.promoted
       /\ release.compacted = pointer.discovery /\ release.lifecycle = pointer.current
  BY <1>3, <1>4, <1>8, <1>9 DEF HistoryContent
<1> HIDE DEF release
<1>11. MarketsOf(h.rows) \subseteq MarketsOf(release.rows)
  BY <1>8, <1>9, <1>10 DEF MarketsOf
<1>12. GoodHistory(market, pointer, release)
  <2>1. Past(market, release.rows)
    BY <1>8, <1>9, <1>10 DEF Past
  <2>2. HoldsPromoted(release)
    BY <1>4, <1>10, <1>11 DEF HoldsPromoted
  <2>3. HoldsCompacted(release)
    <3> SUFFICES ASSUME NEW r \in Entries(Range(pointer.current) \cup UNION {Range(pointer.discovery[s]) : s \in Streams})
                 PROVE  \E q \in rows : q.market = r.market /\ q.version >= r.version
      BY <1>10 DEF HoldsCompacted, Holds
    <3>1. PICK q \in gathered : q.market = r.market /\ q.version >= r.version
      BY <1>7
    <3>2. PICK o \in rows : o.market = q.market /\ o.version >= q.version
      BY <1>9
    <3>3. \/ r.version \in Nat
          \/ ~(r.version \in Nat)
      OBVIOUS
    <3>4. r.version \in Nat
      <4>1. PICK a \in Range(pointer.current) \cup UNION {Range(pointer.discovery[s]) : s \in Streams} :
              r \in a.new \cup a.upserts
        BY DEF Entries
      <4>2. a \in CurrentManifest \/ a \in DiscoveryManifest
        <5>1. Range(pointer.current) \subseteq CurrentManifest
          BY <1>3 DEF Range
        <5>2. \A s \in Streams : Range(pointer.discovery[s]) \subseteq DiscoveryManifest
          BY <1>3 DEF Range
        <5> QED  BY <4>1, <5>1, <5>2
      <4>3. r \in CatalogRow
        BY <4>1, <4>2 DEF CurrentManifest, DiscoveryManifest
      <4> QED  BY <4>3 DEF CatalogRow
    <3>5. q.version \in Nat /\ o.version \in Nat
      BY <1>8, <1>9 DEF CatalogRow
    <3> QED  BY <3>1, <3>2, <3>4, <3>5
  <2>4. IsPrefix(release.lifecycle, pointer.current) /\ \A s \in Streams : IsPrefix(release.compacted[s], pointer.discovery[s])
    <3>1. \A S : \A c \in Seq(S) : IsPrefix(c, c)
      BY PrefixIs
    <3> QED  BY <1>3, <1>10, <3>1
  <2>5. First \subseteq MarketsOf(release.rows) /\ \A m \in MarketsOf(release.rows) : Rooted(pointer, m)
    BY <1>4, <1>8, <1>9, <1>10, <1>11 DEF MarketsOf
  <2> QED  BY <1>4, <1>10, <2>1, <2>2, <2>3, <2>4, <2>5 DEF GoodHistory
<1>13. Compacting(market, pointer, memory) /\ memory # NoJob /\ memory.release = release
  BY <1>12 DEF Compacting, NoJob
<1> HIDE DEF memory
<1>14. "compact" \in Jobs /\ "compact" \notin Streams
  BY CatalogBounds DEF Jobs
<1>15. CatalogOK(market, pointer, job')
  BY <1>1, <1>2, <1>11, <1>13, <1>14, MemoryChanges DEF CatalogInv
<1> QED  BY <1>1, <1>15 DEF CatalogInv

LEMMA CatalogStarts == CatalogInit => CatalogInv
<1> SUFFICES ASSUME CatalogInit PROVE CatalogInv
  OBVIOUS
<1> DEFINE h == pointer.history
<1>1. /\ First \subseteq Markets /\ \A s \in Streams : <<s, 1>> \in First
      /\ \A m \in Markets : m \in First <=> m[2] = 1
  <2>1. 1 \in 1 .. MaxMarkets
    BY CatalogBounds
  <2> QED  BY <2>1 DEF First, Markets
<1>2. /\ market \in [Markets -> Nat] /\ \A m \in Markets : market[m] = IF m[2] = 1 THEN 1 ELSE 0
  BY <1>1 DEF CatalogInit
<1>3. ASSUME NEW s \in Streams PROVE Made(market, s) = {<<s, 1>>} /\ IsFiniteSet(Made(market, s)) /\ Cardinality(Made(market, s)) = 1
  <2>1. <<s, 1>> \in Markets
    BY <1>1
  <2>2. \A m \in Markets : m[1] = s /\ market[m] > 0 <=> m = <<s, 1>>
    BY <1>2 DEF Markets
  <2>3. Made(market, s) = {<<s, 1>>}
    BY <2>1, <2>2 DEF Made
  <2> QED  BY <2>3, FS_Singleton
<1>4. /\ pointer.discovery = Unpublished /\ Unpublished \in [Streams -> Seq(DiscoveryManifest)]
      /\ \A s \in Streams : Unpublished[s] = <<>>
  BY DEF CatalogInit, Unpublished
<1>5. /\ pointer.current = <<[open |-> First, new |-> {}, upserts |-> {}]>>
      /\ pointer.current \in Seq(CurrentManifest) /\ Len(pointer.current) = 1
      /\ pointer.current[1].upserts = {}
  <2> DEFINE census == [open |-> First, new |-> {}, upserts |-> {}]
  <2>1. census \in CurrentManifest /\ census.upserts = {}
    BY <1>1 DEF CurrentManifest
  <2>2. pointer.current = <<census>>
    BY DEF CatalogInit
  <2> HIDE DEF census
  <2>3. pointer.current \in Seq(CurrentManifest) /\ Len(pointer.current) = 1 /\ pointer.current[1] = census
    BY <2>1, <2>2
  <2> QED  BY <2>1, <2>2, <2>3 DEF census
<1>6. /\ h = [rows |-> [market : First, version : {1}], promoted |-> Unpublished,
                compacted |-> Unpublished, lifecycle |-> <<>>]
      /\ h \in HistoryContent
  <2>1. [market : First, version : {1}] \in SUBSET CatalogRow
    BY <1>1 DEF CatalogRow
  <2>2. h = [rows |-> [market : First, version : {1}], promoted |-> Unpublished,
                compacted |-> Unpublished, lifecycle |-> <<>>]
    BY DEF CatalogInit
  <2>3. <<>> \in Seq(CurrentManifest)
    OBVIOUS
  <2> QED  BY <1>4, <2>1, <2>2, <2>3 DEF HistoryContent
<1>7. pointer = [discovery |-> pointer.discovery, current |-> pointer.current, history |-> h,
                 overtaken |-> FALSE]
  BY DEF CatalogInit
<1>8. pointer \in PointerType
  <2> DEFINE d == pointer.discovery
             c == pointer.current
  <2>1. pointer = [discovery |-> d, current |-> c, history |-> h, overtaken |-> FALSE]
    BY <1>7
  <2>2. d \in [Streams -> Seq(DiscoveryManifest)] /\ c \in Seq(CurrentManifest) /\ h \in HistoryContent
    BY <1>4, <1>5, <1>6
  <2> HIDE DEF h, d, c
  <2> QED  BY <2>1, <2>2 DEF PointerType
<1>9. job = [j \in Jobs |-> job[j]] /\ \A j \in Jobs : job[j] = NoJob
  BY DEF CatalogInit
<1>10. GoodHistory(market, pointer, h)
  <2>1. Past(market, h.rows)
    BY <1>1, <1>2, <1>6 DEF Past
  <2>2. \A S : \A c \in Seq(S) : IsPrefix(c, c)
    BY PrefixIs
  <2>3. /\ IsPrefix(h.lifecycle, pointer.current)
        /\ \A s \in Streams : IsPrefix(h.promoted[s], pointer.discovery[s]) /\ IsPrefix(h.compacted[s], pointer.discovery[s])
    <3>1. IsPrefix(<<>>, pointer.current)
      <4>1. pointer.current \in Seq(CurrentManifest)
        BY <1>5
      <4> QED  BY ONLY <4>1, EmptyPrefix
    <3>2. h.lifecycle = <<>> /\ h.promoted = Unpublished /\ h.compacted = Unpublished
      BY <1>6
    <3>3. \A s \in Streams : IsPrefix(Unpublished[s], pointer.discovery[s])
      BY <1>4, <2>2
    <3> HIDE DEF h
    <3> QED  BY ONLY <3>1, <3>2, <3>3
  <2>4. HoldsPromoted(h)
    BY <1>4, <1>6 DEF HoldsPromoted
  <2>5. HoldsCompacted(h)
    <3>1. Range(<<>>) = {}
      BY DEF Range
    <3> QED  BY <1>4, <1>6, <3>1 DEF HoldsCompacted, Entries
  <2>6. First \subseteq MarketsOf(h.rows) /\ \A m \in MarketsOf(h.rows) : m \in First
    <3> DEFINE rows == [market : First, version : {1}]
    <3>1. h.rows = rows
      <4>1. /\ h = [rows |-> [market : First, version : {1}], promoted |-> Unpublished,
                compacted |-> Unpublished, lifecycle |-> <<>>]
        BY <1>6
      <4> HIDE DEF h
      <4> QED  BY <4>1
    <3>2. \A m \in First : [market |-> m, version |-> 1] \in rows /\ [market |-> m, version |-> 1].market = m
      OBVIOUS
    <3>3. \A r \in rows : r.market \in First
      OBVIOUS
    <3> HIDE DEF h, rows
    <3>4. First \subseteq MarketsOf(rows)
      BY <3>2 DEF MarketsOf
    <3>5. \A m \in MarketsOf(rows) : m \in First
      BY <3>3 DEF MarketsOf
    <3> QED  BY <3>1, <3>4, <3>5
  <2> QED  BY <1>6, <2>1, <2>3, <2>4, <2>5, <2>6 DEF GoodHistory, Rooted, Lasting
<1>11. \A m \in MarketsOf(h.rows) : AllCovered(pointer, job, m)
  <2>1. job["compact"] = NoJob
    BY <1>9 DEF Jobs
  <2>2. \A m \in MarketsOf(h.rows) : Rooted(pointer, m)
    BY <1>10 DEF GoodHistory
  <2> QED  BY <2>1, <2>2 DEF AllCovered, Covered, Secured, Rooted
<1>12. \A s \in Streams : GoodStream(market, pointer, job, s)
  BY <1>2, <1>3, <1>4, MarketHasStream DEF GoodStream
<1>13. /\ \A s \in Streams : job[s] = NoJob
       /\ job["refresh"] = NoJob /\ job["promote"] = NoJob /\ job["compact"] = NoJob
  BY <1>9 DEF Jobs, DiscoveryJobs
<1>14. \A k \in 1 .. Len(pointer.current) : Past(market, pointer.current[k].upserts)
  BY <1>5 DEF Past
<1>15. pointer.current # <<>>
  BY <1>5
<1>16. StillParent(pointer, job["promote"])
  BY <1>13 DEF StillParent, NoJob
<1> QED  BY <1>2, <1>8, <1>9, <1>10, <1>11, <1>12, <1>13, <1>14, <1>15, <1>16 DEF CatalogInv, CatalogOK

LEMMA CatalogSteps == CatalogInv /\ [CatalogNext]_catalogVars => CatalogInv'
<1> SUFFICES ASSUME CatalogInv, [CatalogNext]_catalogVars PROVE CatalogInv'
  OBVIOUS
<1>1. CASE UNCHANGED catalogVars
  BY <1>1 DEF catalogVars, CatalogInv
<1>2. ASSUME NEW s \in Streams, VenueCreates(s) PROVE CatalogInv'
  BY <1>2, VenueCreatesStep
<1>3. ASSUME NEW s \in Streams, Collect(s) PROVE CatalogInv'
  BY <1>3, CollectStep
<1>4. ASSUME NEW s \in Streams, ReadClosedLane(s) PROVE CatalogInv'
  BY <1>4, ReadClosedLaneStep
<1>5. ASSUME NEW s \in Streams, PublishDiscovery(s) PROVE CatalogInv'
  BY <1>5, PublishDiscoveryStep
<1>6. ASSUME NEW m \in Markets, VenueChanges(m) PROVE CatalogInv'
  BY <1>6, VenueChangesStep
<1>7. CASE Refresh
  BY <1>7, RefreshStep
<1>8. ASSUME NEW unresolved \in SUBSET Markets, Reconcile(unresolved) PROVE CatalogInv'
  BY <1>8, ReconcileStep
<1>9. CASE Promote
  BY <1>9, PromoteStep
<1>10. CASE GatherPromotion
  BY <1>10, GatherPromotionStep
<1>11. CASE PublishPromotion
  BY <1>11, PublishPromotionStep
<1>12. CASE Compact
  BY <1>12, CompactStep
<1>13. CASE PublishCompaction
  BY <1>13, PublishCompactionStep
<1>14. ASSUME NEW j \in Jobs, JobFails(j) PROVE CatalogInv'
  BY <1>14, JobFailsStep
<1>15. CASE CheckParent
  BY <1>15, CheckParentStep
<1> QED
  BY <1>1, <1>2, <1>3, <1>4, <1>5, <1>6, <1>7, <1>8, <1>9, <1>10, <1>11, <1>12, <1>13, <1>14, <1>15
  DEF CatalogNext

LEMMA CatalogTold == CatalogInv => HistoryIsWhole
<1> SUFFICES ASSUME CatalogInv PROVE HistoryIsWhole
  OBVIOUS
<1> DEFINE h == pointer.history
<1>1. /\ h \in HistoryContent /\ HoldsPromoted(h) /\ HoldsCompacted(h)
      /\ \A s \in Streams : IsPrefix(h.promoted[s], pointer.discovery[s])
      /\ First \subseteq MarketsOf(h.rows) /\ IsPrefix(h.lifecycle, pointer.current)
  BY DEF CatalogInv, CatalogOK, GoodHistory
<1>4. ASSUME NEW m, Lasting(pointer, m)
      PROVE  m \in MarketsOf(h.rows) \/ m \in StillToCompact
  <2>1. CASE m \in First
    BY <1>1, <2>1
  <2>2. CASE Corrected(pointer, m)
    <3>1. PICK i \in 1 .. Len(pointer.current) : m \in MarketsOf(pointer.current[i].upserts)
      BY <2>2 DEF Corrected
    <3>2. PICK r \in pointer.current[i].upserts : r.market = m
      BY <3>1 DEF MarketsOf
    <3>3. pointer.current \in Seq(CurrentManifest) /\ h.lifecycle \in Seq(CurrentManifest)
      BY <1>1 DEF CatalogInv, CatalogOK, PointerType, HistoryContent
    <3>4. \/ pointer.current[i] \in After(pointer.current, h.lifecycle)
          \/ i \in 1 .. Len(h.lifecycle) /\ h.lifecycle[i] = pointer.current[i]
      BY <1>1, <3>3, AfterIs
    <3>5. CASE pointer.current[i] \in After(pointer.current, h.lifecycle)
      <4>1. r \in Entries(After(pointer.current, h.lifecycle))
        BY <3>2, <3>5 DEF Entries
      <4> QED  BY <3>2, <4>1 DEF StillToCompact, MarketsOf, History
    <3>6. CASE i \in 1 .. Len(h.lifecycle) /\ h.lifecycle[i] = pointer.current[i]
      <4>1. h.lifecycle[i] \in Range(h.lifecycle)
        BY <3>3, <3>6 DEF Range
      <4>2. r \in Entries(Range(h.lifecycle) \cup UNION {Range(h.compacted[s]) : s \in Streams})
        BY <3>2, <3>6, <4>1 DEF Entries
      <4>3. Holds(h, r)
        BY <1>1, <4>2 DEF HoldsCompacted
      <4> QED  BY <3>2, <4>3 DEF Holds, MarketsOf
    <3> QED  BY <3>4, <3>5, <3>6
  <2> QED  BY <1>4, <2>1, <2>2 DEF Lasting
<1>2. ASSUME NEW s \in Streams, NEW m \in Markets, m[1] = s, Len(h.promoted[s]) > 1,
             m[2] <= h.promoted[s][Len(h.promoted[s]) - 1].high
      PROVE  m \in MarketsOf(h.rows) \/ (pointer.overtaken /\ m \in StillToCompact)
  <2> DEFINE k == Len(h.promoted[s])
  <2>1. /\ h.promoted[s] \in Seq(DiscoveryManifest) /\ pointer.discovery[s] \in Seq(DiscoveryManifest)
    BY <1>1 DEF HistoryContent, CatalogInv, CatalogOK, PointerType
  <2>2. /\ k \in Nat /\ k <= Len(pointer.discovery[s]) /\ Len(pointer.discovery[s]) \in Nat
        /\ \A i \in 1 .. k : h.promoted[s][i] = pointer.discovery[s][i]
    BY <1>1, <2>1, PrefixIs
  <2>3. k \in 1 .. Len(pointer.discovery[s]) /\ k - 1 \in 1 .. k /\ k > 1
    <3>1. k > 1
      BY <1>2
    <3>2. k \in Nat /\ k <= Len(pointer.discovery[s]) /\ Len(pointer.discovery[s]) \in Nat
      BY <2>2
    <3> HIDE DEF k
    <3> QED  BY <3>1, <3>2
  <2>4. GoodRelease(market, pointer, job, s, k)
    BY <2>3 DEF CatalogInv, CatalogOK, GoodStream
  <2>5. m[2] <= pointer.discovery[s][k - 1].high
    BY <1>2, <2>2, <2>3
  <2>6. Covered(pointer, job, s, k, m)
    BY <1>2, <2>3, <2>4, <2>5 DEF GoodRelease
  <2>7. CASE Lasting(pointer, m) /\ (pointer.overtaken \/ Secured(pointer, job, m))
    BY <1>4, <2>7 DEF Secured
  <2>8. CASE AnnouncedBy(pointer.discovery[s], k, m)
    <3>1. PICK i \in 1 .. k : m \in MarketsOf(pointer.discovery[s][i].new)
      BY <2>8 DEF AnnouncedBy
    <3>2. m \in MarketsOf(h.promoted[s][i].new)
      BY <2>2, <3>1
    <3> QED  BY <1>1, <3>2 DEF HoldsPromoted
  <2> QED  BY <2>6, <2>7, <2>8 DEF Covered
<1>3. \A s \in Streams : \A r \in Range(h.promoted[s]) : MarketsOf(r.new) \subseteq MarketsOf(h.rows)
  <2> SUFFICES ASSUME NEW s \in Streams, NEW r \in Range(h.promoted[s])
               PROVE  MarketsOf(r.new) \subseteq MarketsOf(h.rows)
    OBVIOUS
  <2>1. h.promoted[s] \in Seq(DiscoveryManifest)
    BY <1>1 DEF HistoryContent
  <2>2. PICK i \in 1 .. Len(h.promoted[s]) : r = h.promoted[s][i]
    BY <2>1 DEF Range
  <2> QED  BY <1>1, <2>2 DEF HoldsPromoted
<1>5. \A s \in Streams : \A m \in Markets :
        StandsFor(s, m) => m \in MarketsOf(h.rows) \/ (pointer.overtaken /\ m \in StillToCompact)
  BY <1>2 DEF StandsFor, History
<1> QED  BY <1>1, <1>3, <1>5 DEF HistoryIsWhole, History, HoldsCompacted, Holds

LEMMA CatalogBegins == Init => CatalogInit
  BY DEF Init

LEMMA CatalogGoes == [Next]_commandVars => [CatalogNext]_catalogVars
  BY DEF commandVars, Next, Capture, RunJobs, ResolveMarkets, SuperviseShard,
    ReadVenue, ReplayTape, UseRun, IngestMarkets, PollVenue, OpenCatalog,
    ObserveShard, EmitQuotes, StreamDatasets, ResolveBatch, PlanFeed, ReadSocket,
    catalogVars

(***************************************************************************)
(* History holds every market its promotion watermarks stand for, and no   *)
(* row of it is older than a correction its compaction watermarks cover,   *)
(* however discoveries, refreshes, promotions and compactions interleave   *)
(* and wherever they die (service.py, history.py).  A compaction that is   *)
(* published between a promotion's check of its parent and its pointer is  *)
(* overwritten: a market it alone had brought into history may then be     *)
(* missing, and the next compaction reads the correction it came from.     *)
(***************************************************************************)
THEOREM HistoryHoldsWhatItStandsFor == Spec => []HistoryIsWhole
<1>1. Init => CatalogInv
  BY CatalogBegins, CatalogStarts
<1>2. CatalogInv /\ [Next]_commandVars => CatalogInv'
  BY CatalogGoes, CatalogSteps
<1> QED  BY <1>1, <1>2, CatalogTold, PTL DEF Spec

-----------------------------------------------------------------------------
(* The reader of a published catalog.                                       *)

\* What the bytes of a release are, a manifest, the data root and a reader that opens.
IsBytes(f) == f = [a \in Artifacts |-> f[a]]
IsManifest(m) ==
  m \in [release : {m.release}, declared : {m.declared}, parent : {m.parent}] /\ IsBytes(m.declared)
Identities == {"history_pointer", "external_sha256", "internal_consistency", "saved_reference"}

TreeShape(t) ==
  t \in [pointer : {t.pointer}, base : {"recorded", "moved"}, tampers : Nat, published : {t.published},
         manifests : {t.manifests}, files : {t.files}, saved : {t.saved}]
TreeInv ==
  /\ TreeShape(tree)
  /\ tree.pointer \in tree.published
  /\ tree.manifests = [r \in DOMAIN tree.files |-> tree.manifests[r]]
  /\ tree.files = [r \in DOMAIN tree.files |-> tree.files[r]]
  /\ \A m \in tree.published \cup tree.saved : m.release \in DOMAIN tree.files /\ IsManifest(m)
  /\ \A r \in DOMAIN tree.files :
       /\ IsBytes(tree.files[r]) /\ IsManifest(tree.manifests[r]) /\ tree.manifests[r].release = r
       /\ tree.tampers = 0 => tree.files[r] = Bytes(r)

ReaderShape(q) ==
  q \in [phase : {"parents", "shapes", "content", "next", "open"}, level : OpenLevels,
         identity : Identities, base : {"recorded", "moved"}, manifest : {q.manifest},
         left : SUBSET Artifacts, seen : {q.seen}, result : {q.result}]
\* What is seen of an artifact.
SeenIsDeclared(t, q, a) ==
  q.seen[a] # {} =>
    \E bytes : /\ q.seen[a] = {bytes} /\ bytes.shape = q.manifest.declared[a].shape
               /\ t.tampers = 0 => bytes = Bytes(q.manifest.release)[a]
Opening(t, q) ==
  /\ ReaderShape(q) /\ q.seen = [a \in Artifacts |-> q.seen[a]]
  /\ q.manifest.release \in DOMAIN t.files /\ IsManifest(q.manifest)
  /\ q.identity \in {"history_pointer", "external_sha256"} => q.manifest \in t.published
  /\ \A a \in Artifacts :
       /\ SeenIsDeclared(t, q, a)
       /\ q.seen[a] = {} => a \in q.left
       /\ q.level = "full" /\ q.seen[a] # {} /\ (q.phase # "content" \/ a \notin q.left)
            => q.seen[a] = {q.manifest.declared[a]}
       /\ q.phase \in {"parents", "shapes"} /\ a \in q.left => q.seen[a] = {}
       /\ q.phase = "content" =>
            \A b \in Artifacts : a \in q.left /\ b \in q.left /\ q.seen[a] # {} /\ q.seen[b] # {} => a = b
  /\ q.phase = "open" => q.left = {}
  /\ q.phase # "open" => q.result = {}
  /\ t.tampers = 0 => q.result \subseteq {Bytes(q.manifest.release)}

ReaderInv ==
  /\ TreeInv
  /\ \/ reader = NoReader
     \/ reader = [phase |-> "pointed", pointer |-> reader.pointer] /\ reader.pointer \in tree.published
     \/ Opening(tree, reader)

\* The data root changes and the reader does not.
LEMMA TreeChanges ==
  ASSUME ReaderInv, TreeInv', UNCHANGED reader, tree.published \subseteq tree'.published,
         DOMAIN tree.files \subseteq DOMAIN tree'.files, tree'.tampers = 0 => tree.tampers = 0
  PROVE  ReaderInv'
<1>1. ASSUME NEW q, Opening(tree, q) PROVE Opening(tree', q)
  BY <1>1 DEF Opening, SeenIsDeclared
<1> QED  BY <1>1 DEF ReaderInv

LEMMA BytesIs == ASSUME NEW r PROVE IsBytes(Bytes(r))
BY DEF IsBytes, Bytes

LEMMA ReleasePublishedKeeps == ASSUME ReaderInv, ReleasePublished PROVE ReaderInv'
<1> DEFINE r == Cardinality(DOMAIN tree.manifests) + 1
           m == ManifestFor(r, Bytes(r), {tree.manifests[r - 1]})
           manifests == Beside(tree.manifests, r, m)
           rewritten == Beside(tree.files, r, Bytes(r))
           published == tree.published \cup {m}
<1>1. tree' = [tree EXCEPT !.pointer = m, !.published = @ \cup {m}, !.manifests = Beside(@, r, m),
                 !.files = Beside(@, r, Bytes(r))]
      /\ UNCHANGED reader
  BY DEF ReleasePublished
<1>2. m.release = r /\ m.declared = Bytes(r) /\ IsManifest(m)
  BY BytesIs DEF ManifestFor, IsManifest
<1> HIDE DEF r, m
<1>3. tree' = [tree EXCEPT !.pointer = m, !.published = published, !.manifests = manifests, !.files = rewritten]
  BY <1>1 DEF ReaderInv, TreeInv, TreeShape
<1>4. /\ rewritten = [x \in DOMAIN tree.files \cup {r} |-> IF x = r THEN Bytes(r) ELSE tree.files[x]]
      /\ manifests = [x \in DOMAIN tree.files \cup {r} |-> IF x = r THEN m ELSE tree.manifests[x]]
  BY DEF Beside, ReaderInv, TreeInv
<1> HIDE DEF rewritten, manifests, published
<1>5. /\ TreeShape(tree') /\ tree'.pointer = m /\ tree'.published = published /\ tree'.files = rewritten
      /\ tree'.manifests = manifests /\ tree'.tampers = tree.tampers /\ tree'.saved = tree.saved
  BY <1>3 DEF ReaderInv, TreeInv, TreeShape
<1>6. TreeInv'
  <2>1. DOMAIN rewritten = DOMAIN tree.files \cup {r}
    BY <1>4
  <2>2. \A x \in DOMAIN rewritten :
          /\ IsBytes(rewritten[x]) /\ IsManifest(manifests[x]) /\ manifests[x].release = x
          /\ tree.tampers = 0 => rewritten[x] = Bytes(x)
    BY <1>2, <1>4, BytesIs DEF ReaderInv, TreeInv
  <2>3. manifests = [x \in DOMAIN rewritten |-> manifests[x]] /\ rewritten = [x \in DOMAIN rewritten |-> rewritten[x]]
    BY <1>4
  <2>4. m \in published /\ \A n \in published \cup tree.saved : n.release \in DOMAIN rewritten /\ IsManifest(n)
    BY <1>2, <2>1 DEF published, ReaderInv, TreeInv
  <2> QED  BY <1>5, <2>2, <2>3, <2>4 DEF TreeInv
<1>7. tree.published \subseteq tree'.published /\ DOMAIN tree.files \subseteq DOMAIN tree'.files
  BY <1>4, <1>5 DEF published
<1> QED  BY <1>1, <1>5, <1>6, <1>7, TreeChanges

LEMMA ArtifactRewrittenKeeps ==
  ASSUME ReaderInv, NEW r \in DOMAIN tree.manifests, NEW a \in Artifacts, NEW shape \in BOOLEAN,
         ArtifactRewritten(r, a, shape)
  PROVE  ReaderInv'
<1>1. PICK bytes : tree' = [tree EXCEPT !.tampers = @ + 1, !.files[r][a] = bytes]
  BY DEF ArtifactRewritten
<1> DEFINE one == [tree.files[r] EXCEPT ![a] = bytes]
           rewritten == [tree.files EXCEPT ![r] = one]
           n == tree.tampers + 1
<1>2. tree' = [tree EXCEPT !.tampers = n, !.files = rewritten]
  BY <1>1 DEF ReaderInv, TreeInv, TreeShape
<1>3. IsBytes(one)
  BY DEF ReaderInv, TreeInv, IsBytes
<1>4. n \in Nat /\ n # 0
  BY DEF ReaderInv, TreeInv, TreeShape
<1>5. /\ DOMAIN rewritten = DOMAIN tree.files /\ rewritten = [x \in DOMAIN rewritten |-> rewritten[x]]
      /\ \A x \in DOMAIN rewritten : IsBytes(rewritten[x])
  <2> HIDE DEF one
  <2> QED  BY <1>3 DEF ReaderInv, TreeInv
<1> HIDE DEF rewritten, n
<1>6. /\ TreeShape(tree') /\ tree'.published = tree.published /\ tree'.files = rewritten
      /\ tree'.manifests = tree.manifests /\ tree'.tampers = n /\ tree'.saved = tree.saved
      /\ tree'.pointer = tree.pointer
  BY <1>2, <1>4 DEF ReaderInv, TreeInv, TreeShape
<1>7. TreeInv'
  BY <1>4, <1>5, <1>6 DEF ReaderInv, TreeInv
<1> QED  BY <1>4, <1>5, <1>6, <1>7, TreeChanges DEF ArtifactRewritten

LEMMA ManifestRewrittenKeeps ==
  ASSUME ReaderInv, NEW r \in DOMAIN tree.manifests, ManifestRewritten(r) PROVE ReaderInv'
<1> DEFINE m == [tree.manifests[r] EXCEPT !.declared = tree.files[r]]
           manifests == [tree.manifests EXCEPT ![r] = m]
           n == tree.tampers + 1
<1>1. r \in DOMAIN tree.files
  BY DEF ReaderInv, TreeInv
<1>2. tree' = [tree EXCEPT !.tampers = n, !.manifests = manifests]
  <2>1. tree' = [tree EXCEPT !.tampers = @ + 1, !.manifests[r].declared = tree.files[r]]
    BY DEF ManifestRewritten
  <2> QED  BY <2>1 DEF ReaderInv, TreeInv, TreeShape
<1>3. IsManifest(m) /\ m.release = r
  BY <1>1 DEF ReaderInv, TreeInv, IsManifest
<1>4. n \in Nat /\ n # 0
  BY DEF ReaderInv, TreeInv, TreeShape
<1>5. /\ manifests = [x \in DOMAIN tree.files |-> manifests[x]]
      /\ \A x \in DOMAIN tree.files : IsManifest(manifests[x]) /\ manifests[x].release = x
  <2> HIDE DEF m
  <2> QED  BY <1>3 DEF ReaderInv, TreeInv
<1> HIDE DEF manifests, n
<1>6. /\ TreeShape(tree') /\ tree'.published = tree.published /\ tree'.files = tree.files
      /\ tree'.manifests = manifests /\ tree'.tampers = n /\ tree'.saved = tree.saved
      /\ tree'.pointer = tree.pointer
  BY <1>2, <1>4 DEF ReaderInv, TreeInv, TreeShape
<1>7. TreeInv'
  BY <1>4, <1>5, <1>6 DEF ReaderInv, TreeInv
<1> QED  BY <1>4, <1>6, <1>7, TreeChanges DEF ManifestRewritten

LEMMA RootMovedKeeps == ASSUME ReaderInv, RootMoved PROVE ReaderInv'
<1>1. /\ TreeShape(tree') /\ tree'.published = tree.published /\ tree'.files = tree.files
      /\ tree'.manifests = tree.manifests /\ tree'.tampers = tree.tampers /\ tree'.saved = tree.saved
      /\ tree'.pointer = tree.pointer
  BY DEF RootMoved, ReaderInv, TreeInv, TreeShape
<1>2. TreeInv'
  BY <1>1 DEF ReaderInv, TreeInv
<1> QED  BY <1>1, <1>2, TreeChanges DEF RootMoved

\* The saved reference of an open snapshot.
LEMMA ReferenceSavedKeeps == ASSUME ReaderInv, ReferenceSaved PROVE ReaderInv'
<1> DEFINE saved == tree.saved \cup {reader.manifest}
<1>1. reader.manifest.release \in DOMAIN tree.files /\ IsManifest(reader.manifest)
  BY DEF ReferenceSaved, ReaderInv, NoReader, Opening
<1>2. tree' = [tree EXCEPT !.saved = saved]
  BY DEF ReferenceSaved, ReaderInv, TreeInv, TreeShape
<1>3. \A m \in saved : m \in tree.saved \/ m = reader.manifest
  OBVIOUS
<1> HIDE DEF saved
<1>4. /\ TreeShape(tree') /\ tree'.published = tree.published /\ tree'.files = tree.files
      /\ tree'.manifests = tree.manifests /\ tree'.tampers = tree.tampers /\ tree'.saved = saved
      /\ tree'.pointer = tree.pointer
  BY <1>2 DEF ReaderInv, TreeInv, TreeShape
<1>5. TreeInv'
  BY <1>1, <1>3, <1>4 DEF ReaderInv, TreeInv
<1> QED  BY <1>4, <1>5, TreeChanges DEF ReferenceSaved

\* The reader reads, and leaves the data root as it is.
LEMMA ReaderReads ==
  ASSUME ReaderInv, tree' = tree, reader' = NoReader \/ Opening(tree, reader') PROVE ReaderInv'
<1>1. TreeInv'
  BY DEF ReaderInv, TreeInv, TreeShape
<1> QED  BY <1>1 DEF ReaderInv

\* A manifest is pinned.
LEMMA PinManifestKeeps ==
  ASSUME ReaderInv, NEW r \in DOMAIN tree.files, NEW base \in {"recorded", "moved"}, NEW expected,
         NEW identity \in Identities, PinManifest(r, base, expected, identity),
         identity \in {"history_pointer", "external_sha256"} => tree.manifests[r] \in tree.published
  PROVE  ReaderInv'
<1> DEFINE seen == [a \in Artifacts |-> {}]
<1>1. PICK level \in OpenLevels :
        reader' = [phase |-> "parents", level |-> level, identity |-> identity, base |-> base,
                   manifest |-> tree.manifests[r], left |-> Artifacts, seen |-> seen, result |-> {}]
  BY DEF PinManifest
<1>2. seen = [a \in Artifacts |-> seen[a]] /\ \A a \in Artifacts : seen[a] = {}
  OBVIOUS
<1> HIDE DEF seen
<1>3. /\ ReaderShape(reader') /\ reader'.phase = "parents" /\ reader'.manifest = tree.manifests[r]
      /\ reader'.identity = identity /\ reader'.seen = seen /\ reader'.left = Artifacts /\ reader'.result = {}
  BY <1>1 DEF ReaderShape
<1>4. tree.manifests[r].release = r /\ IsManifest(tree.manifests[r]) /\ tree' = tree
  BY DEF PinManifest, ReaderInv, TreeInv
<1>5. Opening(tree, reader')
  BY <1>2, <1>3, <1>4 DEF Opening, SeenIsDeclared
<1> QED  BY <1>4, <1>5, ReaderReads

LEMMA OpeningStarts ==
  ASSUME ReaderInv, OpenLatest \/ FollowPointer \/ (\E r \in DOMAIN tree.manifests : OpenManifest(r))
                    \/ \E ref \in tree.saved, base \in {"recorded", "moved"} : OpenReference(ref, base)
  PROVE  ReaderInv'
<1>1. CASE OpenLatest
  BY <1>1 DEF OpenLatest, ReaderInv, TreeInv
<1>2. CASE FollowPointer
  <2>1. reader.phase = "pointed" => reader.pointer \in tree.published
    BY DEF ReaderInv, NoReader, Opening, ReaderShape
  <2>2. reader.pointer.release \in DOMAIN tree.files /\ tree.manifests[reader.pointer.release] \in tree.published
    BY <1>2, <2>1 DEF FollowPointer, PinManifest, ReaderInv, TreeInv
  <2> QED  BY <1>2, <2>2, PinManifestKeeps DEF FollowPointer, Identities
<1>3. CASE \E r \in DOMAIN tree.manifests : OpenManifest(r)
  <2>1. PICK r \in DOMAIN tree.manifests : OpenManifest(r)
    BY <1>3
  <2>2. r \in DOMAIN tree.files
    BY DEF ReaderInv, TreeInv
  <2>3. CASE \E m \in tree.published : m.release = r /\ PinManifest(r, "recorded", {m}, "external_sha256")
    <3>1. PICK m \in tree.published : m.release = r /\ PinManifest(r, "recorded", {m}, "external_sha256")
      BY <2>3
    <3>2. tree.manifests[r] \in tree.published
      BY <3>1 DEF PinManifest
    <3> QED  BY <2>2, <3>1, <3>2, PinManifestKeeps DEF Identities
  <2>4. CASE PinManifest(r, "recorded", {}, "internal_consistency")
    BY <2>2, <2>4, PinManifestKeeps DEF Identities
  <2> QED  BY <2>1, <2>3, <2>4 DEF OpenManifest
<1>4. CASE \E ref \in tree.saved, base \in {"recorded", "moved"} : OpenReference(ref, base)
  <2>1. PICK ref \in tree.saved, base \in {"recorded", "moved"} :
          PinManifest(ref.release, base, {ref}, "saved_reference")
    BY <1>4 DEF OpenReference
  <2>2. ref.release \in DOMAIN tree.files
    BY DEF ReaderInv, TreeInv
  <2> QED  BY <2>1, <2>2, PinManifestKeeps DEF Identities
<1> QED  BY <1>1, <1>2, <1>3, <1>4

\* The checks of an opening, one after the other.
LEMMA ParentsHoldKeeps == ASSUME ReaderInv, ParentsHold PROVE ReaderInv'
<1>1. Opening(tree, reader) /\ reader.phase = "parents" /\ reader' = [reader EXCEPT !.phase = "shapes"] /\ tree' = tree
  BY DEF ParentsHold, ReaderInv, NoReader
<1>2. /\ ReaderShape(reader') /\ reader'.phase = "shapes" /\ reader'.manifest = reader.manifest
      /\ reader'.identity = reader.identity /\ reader'.seen = reader.seen /\ reader'.left = reader.left
      /\ reader'.result = reader.result /\ reader'.level = reader.level
  BY <1>1 DEF Opening, ReaderShape
<1>3. Opening(tree, reader')
  BY <1>1, <1>2 DEF Opening, SeenIsDeclared
<1> QED  BY <1>1, <1>3, ReaderReads

LEMMA ShapeHoldsKeeps == ASSUME ReaderInv, NEW a \in Artifacts, ShapeHolds(a) PROVE ReaderInv'
<1> DEFINE m == reader.manifest
           bytes == tree.files[m.release][a]
           phase == IF reader.level = "full" THEN "content" ELSE "next"
           seen == [reader.seen EXCEPT ![a] = {bytes}]
<1>1. /\ Opening(tree, reader) /\ reader.phase = "shapes" /\ a \in reader.left /\ tree' = tree
      /\ bytes.shape = m.declared[a].shape
      /\ reader' = [reader EXCEPT !.phase = phase, !.seen[a] = {bytes}]
  BY DEF ShapeHolds, Declaring, ReaderInv, NoReader
<1>2. reader' = [reader EXCEPT !.phase = phase, !.seen = seen]
  BY <1>1 DEF Opening, ReaderShape
<1>3. /\ seen[a] = {bytes} /\ \A b \in Artifacts \ {a} : seen[b] = reader.seen[b]
      /\ seen = [b \in Artifacts |-> seen[b]]
  BY <1>1 DEF Opening
<1>4. tree.tampers = 0 => bytes = Bytes(m.release)[a]
  BY <1>1 DEF Opening, ReaderInv, TreeInv
<1> HIDE DEF bytes, seen, m
<1>5. /\ ReaderShape(reader') /\ reader'.phase = phase /\ reader'.manifest = reader.manifest
      /\ reader'.identity = reader.identity /\ reader'.seen = seen /\ reader'.left = reader.left
      /\ reader'.result = reader.result /\ reader'.level = reader.level
  BY <1>1, <1>2 DEF Opening, ReaderShape
<1>6. Opening(tree, reader')
  <2>1. SeenIsDeclared(tree, reader', a)
    BY <1>1, <1>3, <1>4, <1>5 DEF SeenIsDeclared, m
  <2>2. \A b \in Artifacts \ {a} : SeenIsDeclared(tree, reader', b)
    BY <1>1, <1>3, <1>5 DEF Opening, SeenIsDeclared
  <2>3. \A b \in Artifacts :
          /\ reader'.seen[b] = {} => b \in reader'.left
          /\ reader'.level = "full" /\ reader'.seen[b] # {} /\ (reader'.phase # "content" \/ b \notin reader'.left)
               => reader'.seen[b] = {reader'.manifest.declared[b]}
          /\ reader'.phase = "content" =>
               \A c \in Artifacts : b \in reader'.left /\ c \in reader'.left
                                     /\ reader'.seen[b] # {} /\ reader'.seen[c] # {} => b = c
    BY <1>1, <1>3, <1>5 DEF Opening, m
  <2>4. reader'.phase \in {"content", "next"}
    BY <1>5
  <2>5. \A b \in Artifacts : SeenIsDeclared(tree, reader', b)
    BY <2>1, <2>2
  <2>6. /\ reader'.manifest.release \in DOMAIN tree.files /\ IsManifest(reader'.manifest)
        /\ reader'.identity \in {"history_pointer", "external_sha256"} => reader'.manifest \in tree.published
        /\ reader'.result = {}
    BY <1>1, <1>5 DEF Opening
  <2>7. ReaderShape(reader') /\ reader'.seen = [b \in Artifacts |-> reader'.seen[b]]
    BY <1>3, <1>5
  <2> QED  BY ONLY <2>3, <2>4, <2>5, <2>6, <2>7 DEF Opening
<1> QED  BY <1>1, <1>6, ReaderReads

LEMMA ContentHoldsKeeps == ASSUME ReaderInv, NEW a \in Artifacts, ContentHolds(a) PROVE ReaderInv'
<1> DEFINE m == reader.manifest
           bytes == tree.files[m.release][a]
           seen == [reader.seen EXCEPT ![a] = {bytes}]
<1>1. /\ Opening(tree, reader) /\ reader.phase = "content" /\ a \in reader.left /\ tree' = tree
      /\ reader.seen[a] # {} /\ bytes = m.declared[a]
      /\ reader' = [reader EXCEPT !.phase = "next", !.seen[a] = {bytes}]
  BY DEF ContentHolds, Declaring, ReaderInv, NoReader
<1>2. reader' = [reader EXCEPT !.phase = "next", !.seen = seen]
  BY <1>1 DEF Opening, ReaderShape
<1>3. /\ seen[a] = {bytes} /\ \A b \in Artifacts \ {a} : seen[b] = reader.seen[b]
      /\ seen = [b \in Artifacts |-> seen[b]]
  BY <1>1 DEF Opening
<1>4. tree.tampers = 0 => bytes = Bytes(m.release)[a]
  BY <1>1 DEF Opening, ReaderInv, TreeInv
<1> HIDE DEF bytes, seen, m
<1>5. /\ ReaderShape(reader') /\ reader'.phase = "next" /\ reader'.manifest = reader.manifest
      /\ reader'.identity = reader.identity /\ reader'.seen = seen /\ reader'.left = reader.left
      /\ reader'.result = reader.result /\ reader'.level = reader.level
  BY <1>1, <1>2 DEF Opening, ReaderShape
<1>6. Opening(tree, reader')
  <2>1. SeenIsDeclared(tree, reader', a)
    BY <1>1, <1>3, <1>4, <1>5 DEF SeenIsDeclared, m
  <2>2. \A b \in Artifacts \ {a} : SeenIsDeclared(tree, reader', b)
    BY <1>1, <1>3, <1>5 DEF Opening, SeenIsDeclared
  <2>3. \A b \in Artifacts :
          /\ reader'.seen[b] = {} => b \in reader'.left
          /\ reader'.level = "full" /\ reader'.seen[b] # {} /\ (reader'.phase # "content" \/ b \notin reader'.left)
               => reader'.seen[b] = {reader'.manifest.declared[b]}
          /\ reader'.phase = "content" =>
               \A c \in Artifacts : b \in reader'.left /\ c \in reader'.left
                                     /\ reader'.seen[b] # {} /\ reader'.seen[c] # {} => b = c
    BY <1>1, <1>3, <1>5 DEF Opening, m
  <2>4. reader'.phase \in {"content", "next"}
    BY <1>5
  <2>5. \A b \in Artifacts : SeenIsDeclared(tree, reader', b)
    BY <2>1, <2>2
  <2>6. /\ reader'.manifest.release \in DOMAIN tree.files /\ IsManifest(reader'.manifest)
        /\ reader'.identity \in {"history_pointer", "external_sha256"} => reader'.manifest \in tree.published
        /\ reader'.result = {}
    BY <1>1, <1>5 DEF Opening
  <2>7. ReaderShape(reader') /\ reader'.seen = [b \in Artifacts |-> reader'.seen[b]]
    BY <1>3, <1>5
  <2> QED  BY ONLY <2>3, <2>4, <2>5, <2>6, <2>7 DEF Opening
<1> QED  BY <1>1, <1>6, ReaderReads

LEMMA ArtifactResolvedKeeps == ASSUME ReaderInv, ArtifactResolved PROVE ReaderInv'
<1> DEFINE left == {a \in reader.left : reader.seen[a] = {}}
           phase == IF left = {} THEN "open" ELSE "shapes"
<1>1. /\ Opening(tree, reader) /\ reader.phase = "next" /\ tree' = tree
      /\ reader' = [reader EXCEPT !.left = left, !.phase = phase]
  BY DEF ArtifactResolved, ReaderInv, NoReader
<1>2. left \in SUBSET Artifacts /\ \A a \in Artifacts : a \in left <=> reader.seen[a] = {}
  BY <1>1 DEF Opening, ReaderShape
<1>3. phase \in {"open", "shapes"} /\ (phase = "open" => left = {})
  OBVIOUS
<1> HIDE DEF left, phase
<1>4. /\ ReaderShape(reader') /\ reader'.phase = phase /\ reader'.manifest = reader.manifest
      /\ reader'.identity = reader.identity /\ reader'.seen = reader.seen /\ reader'.left = left
      /\ reader'.result = reader.result /\ reader'.level = reader.level
  BY <1>1, <1>2, <1>3 DEF Opening, ReaderShape
<1>5. Opening(tree, reader')
  BY <1>1, <1>2, <1>3, <1>4 DEF Opening, SeenIsDeclared
<1> QED  BY <1>1, <1>5, ReaderReads

\* Queries of an open snapshot.
LEMMA QueriesKeep == ASSUME ReaderInv, Queried \/ QueryRefused PROVE ReaderInv'
<1>1. Opening(tree, reader) /\ reader.phase = "open" /\ tree' = tree
  BY DEF Queried, QueryRefused, ReaderInv, NoReader
<1>2. PICK result \in {{}, {tree.files[reader.manifest.release]}} :
        reader' = [reader EXCEPT !.result = result]
  BY DEF Queried, QueryRefused, Declaring
<1>3. tree.tampers = 0 => result \subseteq {Bytes(reader.manifest.release)}
  BY <1>1 DEF Opening, ReaderInv, TreeInv
<1>4. /\ ReaderShape(reader') /\ reader'.phase = "open" /\ reader'.manifest = reader.manifest
      /\ reader'.identity = reader.identity /\ reader'.seen = reader.seen /\ reader'.left = reader.left
      /\ reader'.result = result /\ reader'.level = reader.level
  BY <1>1, <1>2 DEF Opening, ReaderShape
<1>5. Opening(tree, reader')
  BY <1>1, <1>3, <1>4 DEF Opening, SeenIsDeclared
<1> QED  BY <1>1, <1>5, ReaderReads

LEMMA CatalogReaderStarts == ReaderOfCatalogInit => ReaderInv
<1> SUFFICES ASSUME ReaderOfCatalogInit PROVE ReaderInv
  OBVIOUS
<1> DEFINE m == ManifestFor(1, Bytes(1), {})
           manifests == [r \in {1} |-> m]
           rewritten == [r \in {1} |-> Bytes(1)]
<1>1. tree = [pointer |-> m, base |-> "recorded", tampers |-> 0, published |-> {m},
              manifests |-> manifests, files |-> rewritten, saved |-> {}]
      /\ reader = NoReader
  BY DEF ReaderOfCatalogInit
<1>2. m.release = 1 /\ IsManifest(m)
  BY BytesIs DEF ManifestFor, IsManifest
<1> HIDE DEF m
<1>3. /\ DOMAIN rewritten = {1} /\ rewritten[1] = Bytes(1) /\ manifests[1] = m
      /\ rewritten = [r \in DOMAIN rewritten |-> rewritten[r]] /\ manifests = [r \in DOMAIN rewritten |-> manifests[r]]
  OBVIOUS
<1> HIDE DEF manifests, rewritten
<1>4. /\ TreeShape(tree) /\ tree.pointer = m /\ tree.published = {m} /\ tree.saved = {}
      /\ tree.manifests = manifests /\ tree.files = rewritten
  BY <1>1 DEF TreeShape
<1> QED  BY <1>1, <1>2, <1>3, <1>4, BytesIs DEF ReaderInv, TreeInv

LEMMA CatalogReaderSteps == ReaderInv /\ [CatalogReaderNext]_catalogReaderVars => ReaderInv'
<1> SUFFICES ASSUME ReaderInv, [CatalogReaderNext]_catalogReaderVars PROVE ReaderInv'
  OBVIOUS
<1>1. CASE UNCHANGED catalogReaderVars
  <2>1. UNCHANGED <<tree, reader>>
    BY <1>1 DEF catalogReaderVars
  <2> QED  BY <2>1, TreeChanges DEF ReaderInv, TreeInv, TreeShape
<1>2. CASE CatalogReaderNext
  <2>1. OpenRefused \/ SnapshotClosed => reader' = NoReader /\ tree' = tree
    BY DEF OpenRefused, SnapshotClosed
  <2> QED  BY <1>2, <2>1, ReaderReads, ReleasePublishedKeeps, RootMovedKeeps, ManifestRewrittenKeeps,
              ArtifactRewrittenKeeps, OpeningStarts, ParentsHoldKeeps, ShapeHoldsKeeps, ContentHoldsKeeps,
              ArtifactResolvedKeeps, QueriesKeep, ReferenceSavedKeeps
           DEF CatalogReaderNext
<1> QED  BY <1>1, <1>2

\* An open snapshot is of one release.
LEMMA SnapshotTold == ReaderInv => SnapshotIsOneRelease
<1> SUFFICES ASSUME ReaderInv, reader.phase = "open"
             PROVE  LET one == IF reader.identity \in {"history_pointer", "external_sha256"}
                               THEN {m.declared : m \in tree.published} ELSE {reader.manifest.declared} IN
                    /\ reader.level = "full" => Seen \in one
                    /\ \E bytes \in one : \A a \in Artifacts : Seen[a].shape = bytes[a].shape
                    /\ tree.tampers = 0 => reader.result \subseteq {Seen}
  BY DEF SnapshotIsOneRelease
<1> DEFINE one == IF reader.identity \in {"history_pointer", "external_sha256"}
                  THEN {m.declared : m \in tree.published} ELSE {reader.manifest.declared}
<1>1. Opening(tree, reader)
  BY DEF ReaderInv, NoReader
<1>2. reader.manifest.declared \in one
  BY <1>1 DEF Opening
<1> HIDE DEF one
<1>3. \A a \in Artifacts :
        \E bytes : reader.seen[a] = {bytes} /\ Seen[a] = bytes
  BY <1>1 DEF Opening, SeenIsDeclared, Seen
<1>4. \A a \in Artifacts :
        /\ Seen[a].shape = reader.manifest.declared[a].shape
        /\ reader.level = "full" => Seen[a] = reader.manifest.declared[a]
        /\ tree.tampers = 0 => Seen[a] = Bytes(reader.manifest.release)[a]
  BY <1>1, <1>3 DEF Opening, SeenIsDeclared
<1>5. IsBytes(Seen)
  BY DEF Seen, IsBytes
<1>6. reader.level = "full" => Seen = reader.manifest.declared
  BY <1>1, <1>4, <1>5 DEF Opening, IsManifest, IsBytes
<1>7. tree.tampers = 0 => Seen = Bytes(reader.manifest.release)
  BY <1>4, <1>5, BytesIs DEF IsBytes
<1>8. tree.tampers = 0 => reader.result \subseteq {Seen}
  BY <1>1, <1>7 DEF Opening
<1> QED  BY <1>2, <1>4, <1>6, <1>8 DEF one

LEMMA CatalogReaderBegins == Init => ReaderOfCatalogInit
  BY DEF Init

LEMMA CatalogReaderGoes == [Next]_commandVars => [CatalogReaderNext]_catalogReaderVars
  BY DEF commandVars, Next, Capture, RunJobs, ResolveMarkets, SuperviseShard,
    ReadVenue, ReplayTape, UseRun, IngestMarkets, PollVenue, OpenCatalog,
    ObserveShard, EmitQuotes, StreamDatasets, ResolveBatch, PlanFeed, ReadSocket,
    catalogReaderVars

(***************************************************************************)
(* An open snapshot is the content of one published release, of the one    *)
(* its identity vouches for, whatever was published, moved or rewritten    *)
(* while it was opened, as far as its level of checks looks (reader.py).   *)
(***************************************************************************)
THEOREM SnapshotsAreOneRelease == Spec => []SnapshotIsOneRelease
<1>1. Init => ReaderInv
  BY CatalogReaderBegins, CatalogReaderStarts
<1>2. ReaderInv /\ [Next]_commandVars => ReaderInv'
  BY CatalogReaderGoes, CatalogReaderSteps
<1> QED  BY <1>1, <1>2, SnapshotTold, PTL DEF Spec

-----------------------------------------------------------------------------
(* The collections of markets.                                              *)

-----------------------------------------------------------------------------
(* A page of a listing, whoever asks for it: the next places after a cursor. *)

Paged(from, cursor, size, rest, rows, end) ==
  /\ rest = {i \in from : i > cursor}
  /\ rows = {i \in rest : Cardinality({j \in rest : j <= i}) <= size}
  /\ end = IF rows = {} THEN cursor ELSE Max(rows)

Turned(from, cursor, rest, rows, end) ==
  /\ end \in Nat /\ cursor <= end
  /\ rows = {i \in from : cursor < i /\ i <= end}
  /\ rows = rest => \A i \in from : i <= end
  /\ rows = {} => rest = {}

LEMMA PageIs ==
  ASSUME NEW bound \in Nat, NEW from \in SUBSET (1 .. bound), NEW cursor \in Nat, NEW size \in Nat \ {0},
         NEW rest, NEW rows, NEW end, Paged(from, cursor, size, rest, rows, end)
  PROVE  Turned(from, cursor, rest, rows, end)
<1> DEFINE upto(i) == {j \in rest : j <= i}
<1> USE DEF Paged
<1>1. rest \subseteq 1 .. bound /\ rest \subseteq Nat /\ rows \subseteq rest
  <2>1. rest \subseteq from /\ rows \subseteq rest
    OBVIOUS
  <2>2. 1 .. bound \subseteq Nat
    OBVIOUS
  <2> QED  BY <2>1, <2>2, Zenon
<1>2. IsFiniteSet(rest)
  <2>1. IsFiniteSet(1 .. bound)
    BY FS_Interval
  <2> QED  BY <1>1, <2>1, FS_Subset
<1>3. ASSUME NEW i \in rest PROVE IsFiniteSet(upto(i)) /\ Cardinality(upto(i)) \in Nat
  BY <1>2, FS_Subset, FS_CardinalityType
<1>4. ASSUME NEW i \in rows, NEW j \in rest, j <= i PROVE j \in rows
  <2>1. i \in rest /\ upto(j) \subseteq upto(i)
    BY <1>1, <1>4
  <2>2. Cardinality(upto(j)) <= Cardinality(upto(i))
    BY <1>3, <2>1, FS_Subset
  <2>3. Cardinality(upto(i)) <= size
    BY <1>4
  <2>4. Cardinality(upto(j)) \in Nat /\ Cardinality(upto(i)) \in Nat
    BY <1>3, <2>1
  <2>5. Cardinality(upto(j)) <= size
    <3> HIDE DEF upto
    <3> QED  BY <2>2, <2>3, <2>4
  <2> QED  BY <2>5
<1>5. rest # {} => rows # {}
  <2> SUFFICES ASSUME rest # {} PROVE rows # {}
    OBVIOUS
  <2>1. PICK l \in rest : \A i \in rest : l <= i
    BY <1>1, Least
  <2>2. upto(l) = {l}
    BY <1>1, <2>1
  <2>3. Cardinality(upto(l)) = 1
    BY <2>2, FS_Singleton
  <2> QED  BY <2>3
<1> HIDE DEF upto
<1>6. rows # {} => end \in rows /\ \A i \in rows : i <= end
  <2> SUFFICES ASSUME rows # {} PROVE end \in rows /\ \A i \in rows : i <= end
    OBVIOUS
  <2>1. rows \subseteq Nat /\ \A i \in rows : i <= bound
    BY <1>1
  <2>2. PICK m \in rows : \A i \in rows : i <= m
    BY <2>1, Greatest
  <2>3. \A i \in rows : m >= i
    BY <2>1, <2>2
  <2>4. Max(rows) \in rows /\ \A i \in rows : Max(rows) >= i
    BY <2>3 DEF Max
  <2>5. end = Max(rows)
    OBVIOUS
  <2>6. \A i \in rows : end \in Nat /\ i \in Nat /\ end >= i
    BY <2>1, <2>4, <2>5
  <2> QED  BY <2>4, <2>5, <2>6
<1>7. end \in Nat /\ cursor <= end
  <2>1. CASE rows = {}
    <3>1. end = cursor
      BY <2>1, Zenon
    <3> QED  BY ONLY <3>1, cursor \in Nat
  <2>2. CASE rows # {}
    <3>1. end \in rest /\ end \in Nat
      BY <1>1, <1>6, <2>2
    <3>2. \A i \in rest : i > cursor
      OBVIOUS
    <3>3. end > cursor
      BY <3>1, <3>2
    <3> QED  BY ONLY <3>1, <3>3, cursor \in Nat
  <2> QED  BY <2>1, <2>2
<1>8. ASSUME NEW i \in rows PROVE i \in from /\ cursor < i /\ i <= end
  <2>1. i \in rest /\ i <= end
    BY <1>1, <1>6, <1>8
  <2> QED  BY <2>1
<1>9. ASSUME NEW i \in from, cursor < i, i <= end PROVE i \in rows
  <2>1. i \in rest
    BY <1>9
  <2>2. rows # {}
    BY <1>5, <2>1
  <2> QED  BY <1>4, <1>6, <1>9, <2>1, <2>2
<1>10. ASSUME rows = rest, NEW i \in from PROVE i <= end
  <2>1. i \in Nat
    OBVIOUS
  <2>2. CASE i > cursor
    BY <1>6, <1>10, <2>2
  <2>3. CASE ~(i > cursor)
    BY <1>7, <2>1, <2>3
  <2> QED  BY <2>2, <2>3
<1>11. rows = {i \in from : cursor < i /\ i <= end}
  <2>1. rows \subseteq from
    BY <1>8
  <2> QED  BY <2>1, <1>8, <1>9
<1> QED  BY <1>5, <1>7, <1>10, <1>11 DEF Turned

-----------------------------------------------------------------------------
(* The least set that holds p and is closed under `prev'. *)

Fewest(all, prev, p) ==
  {q \in all : \A some \in SUBSET all : p \in some /\ (\A r \in some : prev[r] \in some \cup {0}) => q \in some}

LEMMA FewestStep ==
  ASSUME NEW all, NEW prev, NEW p \in all, 0 \notin all, prev[p] \in all \cup {0}
  PROVE  /\ prev[p] = 0 => Fewest(all, prev, p) = {p}
         /\ prev[p] # 0 => Fewest(all, prev, p) = {p} \cup Fewest(all, prev, prev[p])
<1> DEFINE ClosedUnder(s) == \A r \in s : prev[r] \in s \cup {0}
<1>1. p \in Fewest(all, prev, p)
  BY DEF Fewest
<1>2. CASE prev[p] = 0
  <2>1. {p} \in SUBSET all /\ ClosedUnder({p})
    BY <1>2
  <2>2. Fewest(all, prev, p) \subseteq {p}
    BY <2>1 DEF Fewest
  <2> QED  BY <1>1, <1>2, <2>2
<1>3. CASE prev[p] # 0
  <2>1. ASSUME NEW q \in Fewest(all, prev, p), q # p PROVE q \in Fewest(all, prev, prev[p])
    <3>1. q \in all
      BY <2>1 DEF Fewest
    <3>2. ASSUME NEW s \in SUBSET all, prev[p] \in s, ClosedUnder(s) PROVE q \in s
      <4>1. s \cup {p} \in SUBSET all /\ ClosedUnder(s \cup {p})
        BY <3>2
      <4>2. q \in s \cup {p}
        BY <2>1, <4>1 DEF Fewest
      <4> QED  BY <2>1, <4>2
    <3> QED  BY <3>1, <3>2 DEF Fewest
  <2>2. ASSUME NEW q \in Fewest(all, prev, prev[p]) PROVE q \in Fewest(all, prev, p)
    <3>1. q \in all
      BY <2>2 DEF Fewest
    <3>2. ASSUME NEW s \in SUBSET all, p \in s, ClosedUnder(s) PROVE q \in s
      <4>1. prev[p] \in s
        BY <1>3, <3>2
      <4> QED  BY <2>2, <3>2, <4>1 DEF Fewest
    <3> QED  BY <3>1, <3>2 DEF Fewest
  <2> QED  BY <1>1, <1>3, <2>1, <2>2
<1> QED  BY <1>2, <1>3

\* An element nothing leads to can come or go.
Agree(some, prev, prev2) == \A r \in some : prev[r] \in some \cup {0} /\ prev2[r] = prev[r]

LEMMA FewestStays ==
  ASSUME NEW prev, NEW prev2, NEW old, NEW new, new \notin old, NEW p \in old, Agree(old, prev, prev2)
  PROVE  Fewest(old \cup {new}, prev, p) = Fewest(old, prev2, p)
<1> DEFINE all == old \cup {new}
           ClosedUnder(s) == \A r \in s : prev[r] \in s \cup {0}
           Closed2(s) == \A r \in s : prev2[r] \in s \cup {0}
<1>1. p \in old /\ old \subseteq all
  OBVIOUS
<1>2. \A s \in SUBSET old : ClosedUnder(s) <=> Closed2(s)
  BY DEF Agree
<1>3. old \in SUBSET old /\ ClosedUnder(old)
  BY DEF Agree
<1>4. ASSUME NEW q \in Fewest(all, prev, p) PROVE q \in Fewest(old, prev2, p)
  <2>1. \A s \in SUBSET old : p \in s /\ ClosedUnder(s) => q \in s
    BY <1>1, <1>4 DEF Fewest
  <2>2. q \in old
    BY <1>1, <1>3, <2>1
  <2>3. \A s \in SUBSET old : p \in s /\ Closed2(s) => q \in s
    BY <1>2, <2>1
  <2> QED  BY <2>2, <2>3 DEF Fewest
<1>5. ASSUME NEW q \in Fewest(old, prev2, p) PROVE q \in Fewest(all, prev, p)
  <2>1. q \in old /\ \A s \in SUBSET old : p \in s /\ Closed2(s) => q \in s
    BY <1>5 DEF Fewest
  <2>2. ASSUME NEW s \in SUBSET all, p \in s, ClosedUnder(s) PROVE q \in s
    <3>1. s \cap old \in SUBSET old /\ p \in s \cap old
      BY <2>2, <1>1
    <3>2. ClosedUnder(s \cap old)
      BY <2>2 DEF Agree
    <3> QED  BY <1>2, <2>1, <3>1, <3>2
  <2> QED  BY <1>1, <2>1, <2>2 DEF Fewest
<1> QED  BY <1>4, <1>5

LEMMA FewestSame ==
  ASSUME NEW prev, NEW prev2, NEW old, NEW p, Agree(old, prev, prev2)
  PROVE  Fewest(old, prev, p) = Fewest(old, prev2, p)
<1>1. \A s \in SUBSET old : (\A r \in s : prev[r] \in s \cup {0}) <=> (\A r \in s : prev2[r] \in s \cup {0})
  BY DEF Agree
<1> QED  BY <1>1 DEF Fewest

-----------------------------------------------------------------------------
(* The files and the jobs. *)

LaneLists == {<< {"open"} >>, << {"closed"} >>, << {"open", "closed"} >>, << {"open"}, {"closed"} >>}
Stops ==
  {"not_started", "page_limit_reached", "empty_page", "short_page", "endpoint_offset_limit",
   "max_pages_reached", "cursor_exhausted", "error", "cancelled"}
LiveJobs ==
  [phase : {"pages", "out", "bundle", "manifest"}, kind : {"offset", "keyset", "kalshi"}, target : {0},
   evidence : {TRUE}, capped : BOOLEAN, lanes : LaneLists, whole : Nat, pages : Nat,
   rows : SUBSET Lots, cursor : Nat, more : BOOLEAN, stop : Stops, errors : BOOLEAN]
HistoryJobs ==
  [phase : {"opening", "pages", "closing", "bundle", "manifest", "unstaging"}, kind : {"history"},
   target : 1 .. Targets, evidence : BOOLEAN, capped : BOOLEAN, previous : 0 .. Targets,
   index : Nat, asof : 0 .. 3, start : Nat, cursor : Nat, pages : Nat, rows : SUBSET Lots,
   more : BOOLEAN, stop : Stops, errors : {FALSE}]
SegmentManifests ==
  [rows : SUBSET Lots, evidence : BOOLEAN, index : Nat, asof : 1 .. 3, start : Nat, cursor : Nat,
   more : BOOLEAN, previous : 0 .. Targets]
LiveManifests == [rows : SUBSET Lots, complete : BOOLEAN, stop : Stops]
Bundles ==
  [complete : BOOLEAN, stop : Stops, more : BOOLEAN, errors : BOOLEAN, authoritative : BOOLEAN,
   ids : SUBSET Lots, artifact : SUBSET Lots, due : SUBSET Lots]
Files ==
  [out : SUBSET SUBSET Lots, bundle : SUBSET Bundles,
   manifest : SUBSET (SegmentManifests \cup LiveManifests)]

Listings ==
  [archive : BOOLEAN, lane : [Lots -> {"open", "closed", "absent"}], steady : SUBSET Lots,
   kept : SUBSET Lots, changes : Nat, settle : [Lots -> 1 .. 2], cut : 1 .. 3, retreated : BOOLEAN]

IngestType ==
  /\ listing \in Listings
  /\ ingest = NoIngest \/ ingest \in LiveJobs \/ ingest \in HistoryJobs
  /\ outputs \in [0 .. Targets -> Files]
  /\ \A p \in 1 .. Targets : outputs[p].manifest \subseteq SegmentManifests

-----------------------------------------------------------------------------
(* Bundles and live jobs.  A job that walks one lane has every place of it up to its cursor that was *)
(* listed there all the time, or listed at all when it asks for all; one that walks the open lane    *)
(* and then the closed one has what was listed all the time, or it is closed and still to come.      *)

BundlesInv ==
  \A p \in 0 .. Targets : \A b \in outputs[p].bundle : Authoritative(b) => b.due \subseteq b.ids

Watched(walk) == IF UNION Range(walk.lanes) = {"open", "closed"} THEN listing.steady ELSE listing.kept
OneLane(walk) ==
  \A i \in Watched(walk) : listing.lane[i] \in walk.lanes[1] /\ i <= walk.cursor => i \in walk.rows
BothLanes(walk) ==
  \A i \in listing.steady :
    /\ walk.whole = 1 \/ i <= walk.cursor => i \in walk.rows \/ listing.lane[i] = "closed"
    /\ walk.whole = 1 /\ i <= walk.cursor => i \in walk.rows
ReadSoFar(walk) ==
  /\ walk.whole < Len(walk.lanes)
  /\ IF Len(walk.lanes) = 1 THEN OneLane(walk) ELSE BothLanes(walk)

LiveInv ==
  /\ listing.steady \subseteq Held /\ listing.kept \subseteq Held
  /\ ingest \in LiveJobs =>
       /\ ingest.kind = "kalshi" => Len(ingest.lanes) = 1
       /\ ingest.phase = "pages" /\ ingest.kind # "offset" => ReadSoFar(ingest)
       /\ ingest.phase # "pages" /\ Complete(ingest) /\ Authoritative(Bundle(ingest)) => DueRows \subseteq ingest.rows

-----------------------------------------------------------------------------
(* Segments.  Each has the settled markets between the cursor it started from and the one it ended   *)
(* at, and its chain those up to there.                                                              *)

Between(start, end, asof) == {i \in SettledBefore(asof) : start < i /\ i <= end}
Exhausted(end, asof) == \A i \in SettledBefore(asof) : i <= end

Follows(q, m) ==
  /\ q = 0 => m.start = 0
  /\ q # 0 => q \in Segments /\ m.start = ManifestOf(q).cursor /\ m.asof = ManifestOf(q).asof
SegmentInv(p, m) ==
  /\ outputs[p].manifest = {m} /\ outputs[p].out = {m.rows}
  /\ m.evidence => \E b \in outputs[p].bundle : b.ids = m.rows
  /\ m.start <= m.cursor /\ m.rows = Between(m.start, m.cursor, m.asof)
  /\ ~m.more => Exhausted(m.cursor, m.asof)
  /\ m.previous # p /\ Follows(m.previous, m)
ChainInv(p) ==
  /\ UNION {ManifestOf(q).rows : q \in Chain(p)} = Between(0, ManifestOf(p).cursor, ManifestOf(p).asof)
  /\ \A q, r \in Chain(p) : q # r => ManifestOf(q).rows \cap ManifestOf(r).rows = {}
SegmentsInv == \A p \in Segments : SegmentInv(p, ManifestOf(p)) /\ ChainInv(p)

\* The segment that is being collected.
Collected(walk) ==
  /\ walk.rows = Between(walk.start, walk.cursor, walk.asof)
  /\ walk.phase # "pages" /\ ~walk.more => Exhausted(walk.cursor, walk.asof)
Linked(walk) ==
  /\ Collected(walk) /\ outputs[walk.target].out = {walk.rows}
  /\ walk.phase # "bundle" /\ walk.evidence => \E b \in outputs[walk.target].bundle : b.ids = walk.rows
JobInv(walk) ==
  /\ walk.start <= walk.cursor /\ walk.previous # walk.target
  /\ walk.index = 0 => walk.previous = 0
  /\ walk.previous = 0 /\ walk.phase = "opening" => walk.start = 0 /\ walk.asof = 0
  /\ walk.previous # 0 \/ walk.phase # "opening" => walk.asof # 0 /\ Follows(walk.previous, walk)
  /\ walk.phase # "unstaging" => outputs[walk.target].manifest = {}
  /\ walk.phase = "unstaging" => \A p \in Segments : ManifestOf(p).previous # walk.target
  /\ walk.phase = "opening" => walk.rows = {} /\ walk.cursor = walk.start /\ walk.pages = 0
  /\ walk.phase = "pages" => walk.more \/ walk.pages = 0
  /\ walk.phase \in {"pages", "closing"} =>
       IF listing.cut < walk.asof THEN listing.retreated ELSE Collected(walk)
  /\ walk.phase \in {"bundle", "manifest", "unstaging"} => Linked(walk)
HistoryInv == ingest \in HistoryJobs => JobInv(ingest)

IngestInv == IngestType /\ BundlesInv /\ LiveInv /\ SegmentsInv /\ HistoryInv

LEMMA LotsAre == Lots = 1 .. ListingSize /\ Lots \subseteq Nat /\ ListingSize \in Nat /\ \A i \in Lots : 0 < i
  BY IngestBounds DEF Lots

LEMMA LanesAre ==
  ASSUME NEW lanes \in LaneLists
  PROVE  /\ Len(lanes) \in {1, 2}
         /\ Len(lanes) = 1 => /\ Range(lanes) = {lanes[1]}
                              /\ lanes[1] \in {{"open"}, {"closed"}, {"open", "closed"}}
         /\ Len(lanes) = 2 => /\ UNION Range(lanes) = {"open", "closed"}
                              /\ lanes[1] = {"open"} /\ lanes[2] = {"closed"}
<1>1. ASSUME NEW a, lanes = <<a>> PROVE Len(lanes) = 1 /\ lanes[1] = a /\ Range(lanes) = {a}
  <2>1. DOMAIN lanes = {1}
    BY <1>1
  <2> QED  BY <1>1, <2>1 DEF Range
<1>2. ASSUME NEW a, NEW b, lanes = <<a, b>> PROVE Len(lanes) = 2 /\ lanes[1] = a /\ lanes[2] = b /\ Range(lanes) = {a, b}
  <2>1. DOMAIN lanes = {1, 2}
    BY <1>2
  <2> QED  BY <1>2, <2>1 DEF Range
<1>3. CASE lanes = << {"open"}, {"closed"} >>
  <2>1. Len(lanes) = 2 /\ lanes[1] = {"open"} /\ lanes[2] = {"closed"} /\ Range(lanes) = {{"open"}, {"closed"}}
    BY <1>2, <1>3
  <2> QED  BY <2>1
<1>4. CASE \E a \in {{"open"}, {"closed"}, {"open", "closed"}} : lanes = <<a>>
  <2>1. PICK a \in {{"open"}, {"closed"}, {"open", "closed"}} : lanes = <<a>>
    BY <1>4
  <2>2. Len(lanes) = 1 /\ lanes[1] = a /\ Range(lanes) = {a}
    BY <1>1, <2>1
  <2> QED  BY <2>1, <2>2
<1> QED  BY <1>3, <1>4 DEF LaneLists

LEMMA SegmentIs ==
  ASSUME IngestType, SegmentsInv, NEW p \in Segments
  PROVE  /\ p \in 1 .. Targets /\ p # 0
         /\ ManifestOf(p) \in SegmentManifests /\ outputs[p].manifest = {ManifestOf(p)}
         /\ SegmentInv(p, ManifestOf(p)) /\ ChainInv(p)
         /\ ManifestOf(p).previous \in Segments \cup {0}
<1>1. p \in 1 .. Targets /\ SegmentInv(p, ManifestOf(p)) /\ ChainInv(p)
  BY DEF SegmentsInv, Segments
<1>2. outputs[p].manifest = {ManifestOf(p)}
  BY <1>1 DEF SegmentInv
<1>3. ManifestOf(p) \in SegmentManifests
  BY <1>1, <1>2 DEF IngestType
<1>4. ManifestOf(p).previous \in Segments \cup {0}
  BY <1>1 DEF SegmentInv, Follows
<1>5. p # 0
  BY <1>1, IngestBounds
<1> QED  BY <1>1, <1>2, <1>3, <1>4, <1>5

LEMMA OneManifest == ASSUME NEW p, NEW m, outputs[p].manifest = {m} PROVE ManifestOf(p) = m
  BY DEF ManifestOf

LEMMA IngestTold == IngestInv => CollectionsAreWhole
<1> SUFFICES ASSUME IngestInv PROVE CollectionsAreWhole
  OBVIOUS
<1>1. AuthoritativeIsWhole
  BY DEF IngestInv, BundlesInv, AuthoritativeIsWhole, Verified
<1>2. ASSUME NEW p \in Segments
      PROVE  /\ outputs[p].out = {ManifestOf(p).rows}
             /\ ManifestOf(p).evidence => \E b \in outputs[p].bundle : b.ids = ManifestOf(p).rows
             /\ ~ManifestOf(p).more =>
                  /\ UNION {ManifestOf(q).rows : q \in Chain(p)} = SettledBefore(ManifestOf(p).asof)
                  /\ \A q, r \in Chain(p) : q # r => ManifestOf(q).rows \cap ManifestOf(r).rows = {}
  <2>1. SegmentInv(p, ManifestOf(p)) /\ ChainInv(p)
    BY DEF IngestInv, SegmentsInv
  <2>2. ASSUME ~ManifestOf(p).more
        PROVE  Between(0, ManifestOf(p).cursor, ManifestOf(p).asof) = SettledBefore(ManifestOf(p).asof)
    <3>1. Exhausted(ManifestOf(p).cursor, ManifestOf(p).asof)
      BY <2>1, <2>2 DEF SegmentInv
    <3>2. \A i \in SettledBefore(ManifestOf(p).asof) : 0 < i
      BY LotsAre DEF SettledBefore
    <3> QED  BY <3>1, <3>2 DEF Between, Exhausted
  <2> QED  BY <2>1, <2>2 DEF SegmentInv, ChainInv
<1> QED  BY <1>1, <1>2 DEF ChainIsWhole, CollectionsAreWhole

\* What leaves the manifests and the datasets of the segments alone.
SegmentsKept ==
  /\ listing'.settle = listing.settle
  /\ \A p \in 1 .. Targets : outputs'[p].manifest = outputs[p].manifest
  /\ \A p \in Segments : /\ outputs'[p].out = outputs[p].out
                         /\ \A b \in outputs[p].bundle : \E c \in outputs'[p].bundle : c.ids = b.ids

LEMMA SegmentsStay ==
  ASSUME IngestType, SegmentsInv, SegmentsKept
  PROVE  /\ SegmentsInv' /\ Segments' = Segments
         /\ \A p \in 1 .. Targets : ManifestOf(p)' = ManifestOf(p)
<1>1. Segments' = Segments
  BY DEF SegmentsKept, Segments
<1>2. \A p \in 1 .. Targets : ManifestOf(p)' = ManifestOf(p)
  BY DEF SegmentsKept, ManifestOf
<1>3. \A asof : SettledBefore(asof)' = SettledBefore(asof)
  BY DEF SegmentsKept, SettledBefore
<1>4. \A p \in Segments : p \in 1 .. Targets
  BY DEF Segments
<1>5. ASSUME NEW p \in Segments PROVE SegmentInv(p, ManifestOf(p))'
  <2>1. SegmentInv(p, ManifestOf(p)) /\ p \in 1 .. Targets
    BY SegmentIs
  <2>2. Follows(ManifestOf(p).previous, ManifestOf(p))'
    BY <1>1, <1>2, <1>4, <2>1 DEF SegmentInv, Follows
  <2>3. outputs'[p].manifest = {ManifestOf(p)'} /\ outputs'[p].out = {ManifestOf(p)'.rows}
    BY <1>2, <2>1 DEF SegmentInv, SegmentsKept
  <2>4. ManifestOf(p)'.evidence => \E b \in outputs'[p].bundle : b.ids = ManifestOf(p)'.rows
    <3> SUFFICES ASSUME ManifestOf(p)'.evidence PROVE \E b \in outputs'[p].bundle : b.ids = ManifestOf(p)'.rows
      OBVIOUS
    <3>1. ManifestOf(p)' = ManifestOf(p)
      BY <1>2, <2>1
    <3>2. PICK b \in outputs[p].bundle : b.ids = ManifestOf(p).rows
      BY <2>1, <3>1 DEF SegmentInv
    <3>3. PICK c \in outputs'[p].bundle : c.ids = b.ids
      BY <3>2 DEF SegmentsKept
    <3> QED  BY <3>1, <3>2, <3>3
  <2>5. ManifestOf(p)'.start <= ManifestOf(p)'.cursor /\ ManifestOf(p)'.previous # p
    BY <1>2, <2>1 DEF SegmentInv
  <2>6. \A start, end, asof : /\ Between(start, end, asof)' = Between(start, end, asof)
                              /\ Exhausted(end, asof)' = Exhausted(end, asof)
    BY <1>3 DEF Between, Exhausted
  <2>7. ManifestOf(p)'.rows = Between(ManifestOf(p).start, ManifestOf(p).cursor, ManifestOf(p).asof)'
    BY <1>2, <2>1, <2>6 DEF SegmentInv
  <2>8. ~ManifestOf(p)'.more => Exhausted(ManifestOf(p).cursor, ManifestOf(p).asof)'
    BY <1>2, <2>1, <2>6 DEF SegmentInv
  <2>9. ManifestOf(p)' = ManifestOf(p)
    BY <1>2, <2>1
  <2> QED  BY <2>2, <2>3, <2>4, <2>5, <2>7, <2>8, <2>9 DEF SegmentInv
<1>6. ASSUME NEW p \in Segments PROVE ChainInv(p)'
  <2>1. ChainInv(p) /\ p \in 1 .. Targets
    BY SegmentIs
  <2>2. Chain(p)' = Chain(p) /\ Chain(p) \subseteq Segments
    BY <1>1, <1>2, <1>4 DEF Chain
  <2>3. \A q \in Chain(p) : ManifestOf(q)' = ManifestOf(q)
    BY <1>2, <1>4, <2>2
  <2> QED  BY <1>2, <1>3, <2>1, <2>2, <2>3 DEF ChainInv, Between
<1> QED  BY <1>1, <1>2, <1>5, <1>6 DEF SegmentsInv

-----------------------------------------------------------------------------
(* The venue, and who replaces an artifact. *)

LEMMA IngestStarts == IngestInit => IngestInv
<1> SUFFICES ASSUME IngestInit PROVE IngestInv
  OBVIOUS
<1>1. PICK lane \in [Lots -> {"open", "closed", "absent"}], settle \in [Lots -> 1 .. 2], old \in BOOLEAN :
        listing = [archive |-> old, lane |-> lane, steady |-> {}, kept |-> {}, changes |-> 0,
                   settle |-> settle, cut |-> 2, retreated |-> FALSE]
  BY DEF IngestInit
<1>2. ingest = NoIngest /\ outputs = [p \in 0 .. Targets |-> NoFiles]
  BY DEF IngestInit
<1>3. \A p \in 1 .. Targets : p \in 0 .. Targets
  BY IngestBounds
<1>4. NoFiles \in Files /\ NoFiles.manifest = {} /\ NoFiles.bundle = {}
  BY DEF NoFiles, Files
<1>5. IngestType
  BY <1>1, <1>2, <1>3, <1>4 DEF IngestType, Listings
<1>6. Segments = {} /\ BundlesInv
  BY <1>2, <1>3, <1>4 DEF Segments, BundlesInv
<1>7. ingest \notin LiveJobs /\ ingest \notin HistoryJobs
  BY <1>2 DEF NoIngest, LiveJobs, HistoryJobs
<1>8. listing.steady = {} /\ listing.kept = {}
  BY <1>1
<1> QED  BY <1>5, <1>6, <1>7, <1>8 DEF IngestInv, LiveInv, SegmentsInv, HistoryInv

\* A job is nothing else than it says.
LEMMA JobIs ==
  ASSUME IngestType
  PROVE  /\ ingest = NoIngest <=> ingest.phase = "idle"
         /\ ingest \in LiveJobs => Live /\ ingest \notin HistoryJobs
         /\ ingest \in HistoryJobs => ~Live /\ ingest \notin LiveJobs
         /\ Live => ingest \in LiveJobs
         /\ ingest.phase # "idle" /\ ~Live => ingest \in HistoryJobs
         /\ NoIngest \notin LiveJobs /\ NoIngest \notin HistoryJobs
<1>1. NoIngest.phase = "idle" /\ NoIngest \notin LiveJobs /\ NoIngest \notin HistoryJobs
  BY DEF NoIngest, LiveJobs, HistoryJobs
<1>2. ingest \in LiveJobs => ingest.phase # "idle" /\ ingest.kind # "history"
  BY DEF LiveJobs
<1>3. ingest \in HistoryJobs => ingest.phase # "idle" /\ ingest.kind = "history"
  BY DEF HistoryJobs
<1> QED  BY <1>1, <1>2, <1>3 DEF IngestType, Live

LEMMA LotsMove ==
  ASSUME IngestInv, NEW i \in Lots, NEW to \in {"open", "closed", "absent"}, LotMoves(i, to)
  PROVE  IngestInv'
<1> USE DEF IngestInv
<1>1. /\ ingest \in LiveJobs /\ ingest.phase = "pages" /\ ingest' = ingest /\ outputs' = outputs
      /\ ingest \notin HistoryJobs
  BY JobIs DEF LotMoves
<1> DEFINE l == [listing EXCEPT !.lane[i] = to, !.changes = @ + 1, !.kept = @ \ {i},
                   !.steady = IF to = "absent" THEN @ \ {i} ELSE @]
<1>2. listing' = l /\ listing.lane[i] # to /\ ~(listing.lane[i] = "closed" /\ to = "open")
  BY DEF LotMoves
<1>3. /\ l \in Listings /\ l.settle = listing.settle /\ l.kept = listing.kept \ {i} /\ l.lane[i] = to
      /\ \A k \in Lots : k # i => l.lane[k] = listing.lane[k]
      /\ l.steady = IF to = "absent" THEN listing.steady \ {i} ELSE listing.steady
  <2>1. listing \in Listings
    BY DEF IngestType
  <2>2. /\ l.settle = listing.settle /\ l.kept = listing.kept \ {i}
        /\ l.steady = IF to = "absent" THEN listing.steady \ {i} ELSE listing.steady
        /\ l.lane = [listing.lane EXCEPT ![i] = to] /\ listing.lane \in [Lots -> {"open", "closed", "absent"}]
    BY ONLY <2>1 DEF l, Listings
  <2>3. l \in Listings
    <3>1. [listing.lane EXCEPT ![i] = to] \in [Lots -> {"open", "closed", "absent"}]
      BY ONLY <2>2, i \in Lots, to \in {"open", "closed", "absent"}
    <3> DEFINE m == [listing.lane EXCEPT ![i] = to]
    <3>2. l = [listing EXCEPT !.lane = m, !.changes = @ + 1, !.kept = @ \ {i},
                 !.steady = IF to = "absent" THEN @ \ {i} ELSE @]
      BY ONLY <2>1 DEF l, Listings
    <3>3. listing.changes + 1 \in Nat
      BY ONLY <2>1 DEF Listings
    <3> HIDE DEF m
    <3> QED  BY ONLY <2>1, <3>1, <3>2, <3>3 DEF Listings
  <2> QED  BY ONLY <2>2, <2>3, i \in Lots
<1> HIDE DEF l
<1>4. IngestType' /\ BundlesInv'
  BY <1>1, <1>2, <1>3 DEF IngestType, BundlesInv, Authoritative
<1>5. SegmentsInv'
  <2>1. SegmentsKept
    BY <1>1, <1>2, <1>3 DEF SegmentsKept
  <2> QED  BY <2>1, SegmentsStay
<1>6. HistoryInv'
  BY <1>1 DEF HistoryInv
<1>7. listing'.steady \subseteq Held' /\ listing'.kept \subseteq Held'
  <2>1. /\ listing.steady \subseteq Held /\ listing.kept \subseteq Held
        /\ listing.steady \subseteq Lots /\ listing.kept \subseteq Lots
    BY DEF LiveInv, IngestType, Listings
  <2>2. ASSUME NEW k \in Lots, k \in l.steady \/ k \in l.kept PROVE l.lane[k] # "absent"
    <3>1. k # i => listing.lane[k] # "absent" /\ l.lane[k] = listing.lane[k]
      BY <1>3, <2>1, <2>2 DEF Held
    <3>2. k = i => to # "absent"
      BY <1>3, <2>2
    <3> QED  BY <1>3, <3>1, <3>2
  <2> QED  BY <1>2, <1>3, <2>2 DEF Held, Listings
<1>8. ReadSoFar(ingest) => ReadSoFar(ingest)'
  <2> DEFINE lanes == ingest.lanes
  <2>1. lanes \in LaneLists /\ listing.steady \subseteq Held /\ listing.kept \subseteq Held /\ listing.steady \subseteq Lots
        /\ listing.kept \subseteq Lots
    BY <1>1 DEF LiveJobs, LiveInv, IngestType, Listings
  <2> SUFFICES ASSUME ReadSoFar(ingest) PROVE ReadSoFar(ingest)'
    OBVIOUS
  <2>2. CASE Len(lanes) = 1
    <3>1. OneLane(ingest)
      BY <2>2 DEF ReadSoFar
    <3>2. CASE UNION Range(lanes) = {"open", "closed"}
      <4>1. lanes[1] = {"open", "closed"} \/ lanes[1] = {"open"} \/ lanes[1] = {"closed"}
        BY <2>1, <2>2, LanesAre
      <4>2. lanes[1] = {"open", "closed"}
        BY <2>1, <2>2, <3>2, <4>1, LanesAre
      <4>3. ASSUME NEW k \in l.steady, k <= ingest.cursor PROVE k \in ingest.rows
        <5>1. k \in listing.steady /\ k \in Held
          BY <1>3, <2>1, <4>3
        <5>2. listing.lane[k] \in {"open", "closed", "absent"}
          BY <5>1 DEF IngestType, Listings, Held
        <5>3. listing.lane[k] \in lanes[1]
          BY <4>2, <5>1, <5>2 DEF Held
        <5> QED  BY <3>1, <3>2, <4>3, <5>1, <5>3 DEF OneLane, Watched
      <4>4. OneLane(ingest)'
        BY <1>1, <1>2, <3>2, <4>3 DEF OneLane, Watched
      <4> QED  BY <1>1, <2>2, <4>4 DEF ReadSoFar
    <3>3. CASE UNION Range(lanes) # {"open", "closed"}
      <4>1. \A k \in l.kept : k \in listing.kept /\ l.lane[k] = listing.lane[k]
        BY <1>3, <2>1
      <4>2. OneLane(ingest)'
        BY <1>1, <1>2, <3>1, <3>3, <4>1 DEF OneLane, Watched
      <4> QED  BY <1>1, <2>2, <4>2 DEF ReadSoFar
    <3> QED  BY <3>2, <3>3
  <2>3. CASE Len(lanes) # 1
    <3>1. BothLanes(ingest)
      BY <2>3 DEF ReadSoFar
    <3>2. ASSUME NEW k \in l.steady
          PROVE  k \in listing.steady /\ (listing.lane[k] = "closed" => l.lane[k] = "closed")
      <4>1. k \in listing.steady /\ k \in Lots
        BY <1>3, <2>1
      <4>2. k # i => l.lane[k] = listing.lane[k]
        BY <1>3, <4>1
      <4>3. k = i => to # "absent"
        BY <1>3, <3>2
      <4> QED  BY <1>2, <1>3, <4>1, <4>2, <4>3
    <3>3. BothLanes(ingest)'
      BY <1>1, <1>2, <3>1, <3>2 DEF BothLanes
    <3> QED  BY <1>1, <2>3, <3>3 DEF ReadSoFar
  <2> QED  BY <2>2, <2>3
<1>9. LiveInv'
  BY <1>1, <1>7, <1>8 DEF LiveInv
<1> QED  BY <1>4, <1>5, <1>6, <1>9

LEMMA CutoffMove == ASSUME IngestInv, NEW to \in 1 .. 3, CutoffMoves(to) PROVE IngestInv'
<1> USE DEF IngestInv
<1> DEFINE l == [listing EXCEPT !.cut = to, !.retreated = to < listing.cut]
<1>1. listing' = l /\ ~listing.retreated /\ ingest' = ingest /\ outputs' = outputs
  BY DEF CutoffMoves
<1>2. /\ l \in Listings /\ l.settle = listing.settle /\ l.kept = listing.kept /\ l.steady = listing.steady
      /\ l.lane = listing.lane /\ l.cut = to /\ l.retreated = (to < listing.cut)
      /\ listing.cut \in 1 .. 3
  <2>1. listing \in Listings
    BY DEF IngestType
  <2>2. (to < listing.cut) \in BOOLEAN
    OBVIOUS
  <2> QED  BY ONLY <2>1, <2>2, to \in 1 .. 3 DEF l, Listings
<1> HIDE DEF l
<1>3. IngestType' /\ BundlesInv'
  BY <1>1, <1>2 DEF IngestType, BundlesInv, Authoritative
<1>4. SegmentsKept
  BY <1>1, <1>2 DEF SegmentsKept
<1>5. SegmentsInv' /\ Segments' = Segments /\ \A p \in 1 .. Targets : ManifestOf(p)' = ManifestOf(p)
  BY <1>4, SegmentsStay
<1>6. LiveInv'
  <2>1. Held' = Held /\ ReadSoFar(ingest)' = ReadSoFar(ingest) /\ DueRows' = DueRows
    BY <1>1, <1>2 DEF Held, ReadSoFar, OneLane, BothLanes, Watched, DueRows, Live, SettledBefore, LotsIn
  <2>2. Bundle(ingest)'.due = DueRows'
    BY DEF Bundle
  <2>3. Authoritative(Bundle(ingest))' = Authoritative(Bundle(ingest)) /\ Complete(ingest)' = Complete(ingest)
    BY <1>1 DEF Authoritative, Bundle, Complete
  <2> QED  BY <1>1, <1>2, <2>1, <2>3 DEF LiveInv
<1>7. HistoryInv'
  <2> SUFFICES ASSUME ingest \in HistoryJobs PROVE JobInv(ingest)'
    BY <1>1 DEF HistoryInv
  <2>0. JobInv(ingest)
    BY DEF HistoryInv
  <2>1. Collected(ingest)' = Collected(ingest) /\ Linked(ingest)' = Linked(ingest)
    BY <1>1, <1>2 DEF Linked, Collected, Between, Exhausted, SettledBefore
  <2>2. Follows(ingest.previous, ingest)' = Follows(ingest.previous, ingest)
    <3>1. \A p \in Segments : p \in 1 .. Targets
      BY DEF Segments
    <3> QED  BY <1>1, <1>5, <3>1 DEF Follows
  <2>3. \A p \in Segments : ManifestOf(p)' = ManifestOf(p)
    BY <1>5 DEF Segments
  <2>4. ASSUME ingest.phase \in {"pages", "closing"}
        PROVE  IF to < ingest.asof THEN to < listing.cut ELSE Collected(ingest)
    <3>1. ingest.asof \in 0 .. 3
      BY DEF HistoryJobs
    <3>2. IF listing.cut < ingest.asof THEN listing.retreated ELSE Collected(ingest)
      BY <2>0, <2>4 DEF JobInv
    <3>3. ~(listing.cut < ingest.asof) /\ Collected(ingest)
      BY <1>1, <3>2
    <3>4. to < ingest.asof => to < listing.cut
      BY ONLY <1>2, <3>1, <3>3, to \in 1 .. 3
    <3> QED  BY <3>3, <3>4
  <2> QED  BY <1>1, <1>2, <1>5, <2>0, <2>1, <2>2, <2>3, <2>4 DEF JobInv
<1> QED  BY <1>3, <1>5, <1>6, <1>7

LEMMA EvidenceReplaces == ASSUME IngestInv, NEW p \in 0 .. Targets, EvidenceReplaced(p) PROVE IngestInv'
<1> USE DEF IngestInv
<1> DEFINE f == outputs[p]
           g == [f EXCEPT !.bundle = {[b EXCEPT !.artifact = {}] : b \in f.bundle}]
<1>1. ingest = NoIngest /\ listing' = listing /\ ingest' = ingest
  BY JobIs DEF EvidenceReplaced
<1>2. outputs' = [outputs EXCEPT ![p] = g] /\ f \in Files /\ outputs \in [0 .. Targets -> Files]
  BY DEF EvidenceReplaced, IngestType
<1>3. g.out = f.out /\ g.manifest = f.manifest /\ g.bundle = {[b EXCEPT !.artifact = {}] : b \in f.bundle}
  BY <1>2 DEF Files
<1>4. ASSUME NEW b \in f.bundle
      PROVE  /\ [b EXCEPT !.artifact = {}] \in Bundles /\ [b EXCEPT !.artifact = {}].ids = b.ids
             /\ [b EXCEPT !.artifact = {}].due = b.due
             /\ Authoritative([b EXCEPT !.artifact = {}]) = Authoritative(b)
  <2>1. b \in Bundles
    BY <1>2 DEF Files
  <2> QED  BY <2>1 DEF Bundles, Authoritative
<1>5. g \in Files
  BY <1>2, <1>3, <1>4 DEF Files
<1> HIDE DEF g
<1>6. \A q \in 0 .. Targets : outputs'[q] = IF q = p THEN g ELSE outputs[q]
  BY <1>2
<1>7. \A q \in 1 .. Targets : q \in 0 .. Targets
  BY IngestBounds
<1>8. IngestType'
  <2>1. outputs' \in [0 .. Targets -> Files]
    BY <1>2, <1>5
  <2>2. \A q \in 1 .. Targets : outputs'[q].manifest \subseteq SegmentManifests
    BY <1>3, <1>6, <1>7 DEF IngestType
  <2> QED  BY <1>1, <2>1, <2>2 DEF IngestType
<1>9. SegmentsKept
  <2>1. \A q \in 1 .. Targets : outputs'[q].manifest = outputs[q].manifest
    BY <1>3, <1>6, <1>7
  <2>2. ASSUME NEW q \in Segments
        PROVE  outputs'[q].out = outputs[q].out /\ \A b \in outputs[q].bundle : \E c \in outputs'[q].bundle : c.ids = b.ids
    <3>1. q \in 0 .. Targets
      BY <1>7 DEF Segments
    <3>2. CASE q # p
      BY <1>6, <3>1, <3>2
    <3>3. CASE q = p
      BY <1>3, <1>4, <1>6, <3>1, <3>3
    <3> QED  BY <3>2, <3>3
  <2> QED  BY <1>1, <2>1, <2>2 DEF SegmentsKept
<1>10. SegmentsInv'
  BY <1>9, SegmentsStay
<1>11. BundlesInv'
  <2>1. ASSUME NEW q \in 0 .. Targets, NEW b \in outputs'[q].bundle, Authoritative(b) PROVE b.due \subseteq b.ids
    <3>1. CASE q # p
      BY <1>6, <2>1, <3>1 DEF BundlesInv
    <3>2. CASE q = p
      <4>1. PICK c \in f.bundle : b = [c EXCEPT !.artifact = {}]
        BY <1>3, <1>6, <2>1, <3>2
      <4> QED  BY <1>4, <2>1, <4>1 DEF BundlesInv
    <3> QED  BY <3>1, <3>2
  <2> QED  BY <2>1 DEF BundlesInv, Authoritative
<1>12. LiveInv' /\ HistoryInv'
  BY <1>1, JobIs DEF LiveInv, HistoryInv, Held
<1> QED  BY <1>8, <1>10, <1>11, <1>12

-----------------------------------------------------------------------------
(* Live jobs. *)

\* What a live job reads changes nothing but the job.
LEMMA LiveGoesOn ==
  ASSUME IngestInv, ingest \in LiveJobs, UNCHANGED <<listing, outputs>>, NEW j, ingest' = j,
         j = NoIngest \/ j \in LiveJobs,
         j \in LiveJobs => /\ j.kind = ingest.kind /\ j.lanes = ingest.lanes
                           /\ j.phase = "pages" /\ j.kind # "offset" => ReadSoFar(j)
                           /\ j.phase # "pages" /\ Complete(j) /\ Authoritative(Bundle(j))
                                => DueRows \subseteq j.rows
  PROVE  IngestInv'
<1> USE DEF IngestInv
<1>1. IngestType' /\ BundlesInv' /\ Held' = Held
  BY DEF IngestType, BundlesInv, Held, Authoritative
<1>2. SegmentsKept
  BY DEF SegmentsKept
<1>3. SegmentsInv'
  BY <1>2, SegmentsStay
<1>4. j \notin HistoryJobs
  <2>1. \A h \in HistoryJobs : h.kind = "history" /\ h.phase # "idle"
    BY DEF HistoryJobs
  <2>2. j \in LiveJobs => j.kind # "history"
    BY DEF LiveJobs
  <2>3. NoIngest.phase = "idle"
    BY DEF NoIngest
  <2> QED  BY <2>1, <2>2, <2>3
<1>5. HistoryInv'
  BY <1>4 DEF HistoryInv
<1>6. NoIngest \notin LiveJobs
  BY JobIs
<1>7. ASSUME j \in LiveJobs
      PROVE  /\ ReadSoFar(ingest)' = ReadSoFar(j) /\ DueRows' = DueRows
             /\ Complete(ingest)' = Complete(j)
             /\ Authoritative(Bundle(ingest))' = Authoritative(Bundle(j))
  <2>1. j.phase # "idle" /\ j.kind # "history" /\ ingest.phase # "idle" /\ ingest.kind # "history"
    BY <1>7 DEF LiveJobs
  <2>2. DueRows' = DueRows
    BY <1>7, <2>1 DEF DueRows, Live, LotsIn
  <2>3. Complete(ingest)' = Complete(j)
    BY DEF Complete
  <2>4. Authoritative(Bundle(ingest))' = Authoritative(Bundle(j))
    BY <2>3 DEF Authoritative, Bundle
  <2>5. ReadSoFar(ingest)' = ReadSoFar(j)
    BY DEF ReadSoFar, OneLane, BothLanes, Watched
  <2> QED  BY <2>2, <2>3, <2>4, <2>5
<1>8. LiveInv'
  BY <1>1, <1>6, <1>7 DEF LiveInv
<1> QED  BY <1>1, <1>3, <1>5, <1>8

LEMMA LiveStarts ==
  ASSUME IngestInv, NEW walk \in LiveJobs, StartLive(walk), walk.phase = "pages", walk.cursor = 0, walk.whole = 0,
         walk.kind = "kalshi" => Len(walk.lanes) = 1
  PROVE  IngestInv'
<1> USE DEF IngestInv
<1> DEFINE l == [listing EXCEPT !.steady = Held, !.kept = Held]
<1>1. ingest = NoIngest /\ ingest' = walk /\ outputs' = outputs /\ listing' = l
  BY DEF StartLive
<1>2. /\ l \in Listings /\ l.settle = listing.settle /\ l.kept = Held /\ l.steady = Held
      /\ l.lane = listing.lane /\ Held \subseteq Lots
  <2>1. listing \in Listings /\ Held \subseteq Lots
    BY DEF IngestType, Held
  <2> QED  BY ONLY <2>1 DEF l, Listings
<1> HIDE DEF l
<1>3. IngestType' /\ BundlesInv' /\ Held' = Held
  BY <1>1, <1>2 DEF IngestType, BundlesInv, Held, Authoritative
<1>4. SegmentsKept
  BY <1>1, <1>2 DEF SegmentsKept
<1>5. SegmentsInv'
  BY <1>4, SegmentsStay
<1>6. HistoryInv'
  <2>1. walk \notin HistoryJobs
    BY DEF HistoryJobs, LiveJobs
  <2> QED  BY <1>1, <2>1 DEF HistoryInv
<1>7. ReadSoFar(ingest)'
  <2>1. walk.lanes \in LaneLists
    BY DEF LiveJobs
  <2>2. Len(walk.lanes) \in {1, 2}
    BY <2>1, LanesAre
  <2>3. \A i \in Held : ~(i <= 0)
    BY <1>2, LotsAre
  <2>4. Watched(ingest)' = Held
    BY <1>1, <1>2 DEF Watched
  <2>5. OneLane(ingest)' /\ BothLanes(ingest)'
    BY <1>1, <1>2, <2>3, <2>4 DEF OneLane, BothLanes
  <2>6. walk.whole < Len(walk.lanes)
    <3>1. PICK n : n = Len(walk.lanes)
      OBVIOUS
    <3>2. n = 1 \/ n = 2
      BY <2>2, <3>1
    <3>3. 0 < n
      BY ONLY <3>2
    <3> QED  BY <3>1, <3>3
  <2> QED  BY <1>1, <2>5, <2>6 DEF ReadSoFar
<1>8. LiveInv'
  BY <1>1, <1>2, <1>3, <1>7 DEF LiveInv
<1> QED  BY <1>3, <1>5, <1>6, <1>8

LEMMA LiveOnes == ASSUME IngestInv, StartOffset \/ StartKeyset \/ StartKalshi PROVE IngestInv'
<1>1. ASSUME NEW kind \in {"offset", "keyset", "kalshi"}, NEW lanes \in LaneLists, NEW capped \in BOOLEAN,
             StartLive(Job(kind, lanes, capped)), kind = "kalshi" => Len(lanes) = 1
      PROVE  IngestInv'
  <2>1. /\ Job(kind, lanes, capped) \in LiveJobs /\ Job(kind, lanes, capped).phase = "pages"
        /\ Job(kind, lanes, capped).cursor = 0 /\ Job(kind, lanes, capped).whole = 0
        /\ Job(kind, lanes, capped).kind = kind /\ Job(kind, lanes, capped).lanes = lanes
    <3>1. Job(kind, lanes, capped) \in LiveJobs
      BY ONLY kind \in {"offset", "keyset", "kalshi"}, lanes \in LaneLists, capped \in BOOLEAN DEF Job, LiveJobs, Stops
    <3> QED  BY ONLY <3>1 DEF Job
  <2> QED  BY <1>1, <2>1, LiveStarts
<1>2. \A filter \in Filters : <<filter>> \in LaneLists /\ Len(<<filter>>) = 1
  BY DEF Filters, LaneLists
<1>3. {<< {"open"} >>, << {"closed"} >>, << {"open"}, {"closed"} >>} \subseteq LaneLists
  BY DEF LaneLists
<1>4. CASE StartOffset
  BY <1>1, <1>2, <1>4 DEF StartOffset
<1>5. CASE StartKeyset
  BY <1>1, <1>3, <1>5 DEF StartKeyset
<1>6. CASE StartKalshi
  <2>1. PICK filter \in Filters, complete \in BOOLEAN : StartLive(Job("kalshi", <<filter>>, ~complete))
    BY <1>6, Zenon DEF StartKalshi
  <2>2. (~complete) \in BOOLEAN
    OBVIOUS
  <2> QED  BY <1>1, <1>2, <2>1, <2>2
<1> QED  BY <1>4, <1>5, <1>6

LEMMA PageOfIs ==
  ASSUME NEW from \in SUBSET Lots, NEW cursor \in Nat, NEW page, page = PageOf(from, cursor)
  PROVE  /\ page.cursor \in Nat /\ cursor <= page.cursor /\ page.more \in BOOLEAN
         /\ page.rows = {i \in from : cursor < i /\ i <= page.cursor}
         /\ ~page.more => \A i \in from : i <= page.cursor
         /\ page.rows = {} => ~page.more
<1> DEFINE rest == {i \in from : i > cursor}
           rows == {i \in rest : Cardinality({j \in rest : j <= i}) <= ListingPage}
           end == IF rows = {} THEN cursor ELSE Max(rows)
<1>1. page.rows = rows /\ page.more = (rows # rest) /\ page.cursor = end
  BY DEF PageOf
<1>2. PICK r : r = rest
  OBVIOUS
<1>3. PICK some : some = rows
  OBVIOUS
<1>4. PICK e : e = end
  OBVIOUS
<1>5. Paged(from, cursor, ListingPage, r, some, e)
  BY <1>2, <1>3, <1>4 DEF Paged
<1>6. from \in SUBSET (1 .. ListingSize) /\ ListingSize \in Nat /\ ListingPage \in Nat \ {0}
  BY LotsAre, IngestBounds
<1>7. Turned(from, cursor, r, some, e)
  BY <1>5, <1>6, PageIs
<1> HIDE DEF rest, rows, end
<1> QED  BY <1>1, <1>2, <1>3, <1>4, <1>7 DEF Turned

LEMMA AuthorityIs ==
  ASSUME NEW walk
  PROVE  Authoritative(Bundle(walk)) <=> /\ Complete(walk) /\ walk.stop \in {"cursor_exhausted", "empty_page"}
                                        /\ ~walk.more /\ ~walk.errors
  BY DEF Authoritative, Bundle

\* What a page adds, when it is not the last of its lane, and when it is.
LEMMA PageRead ==
  ASSUME IngestInv, ingest \in LiveJobs, ingest.phase = "pages", ingest.kind # "offset",
         NEW page, page = PageOf(LotsIn(ingest.lanes[ingest.whole + 1]), ingest.cursor),
         NEW found, found = ingest.rows \cup page.rows
  PROVE  /\ page.cursor \in Nat /\ page.more \in BOOLEAN /\ found \subseteq Lots
         /\ ingest.whole \in Nat /\ ingest.whole < Len(ingest.lanes) /\ Len(ingest.lanes) \in {1, 2}
         /\ \A j \in LiveJobs : j.lanes = ingest.lanes /\ j.rows = found /\ j.cursor = page.cursor
                                /\ j.whole = ingest.whole => ReadSoFar(j)
         /\ ~page.more /\ ingest.whole + 1 = Len(ingest.lanes) => DueRows \subseteq found
         /\ ~page.more /\ ingest.whole + 1 # Len(ingest.lanes) =>
              \A j \in LiveJobs : j.lanes = ingest.lanes /\ j.rows = found /\ j.cursor = 0
                                  /\ j.whole = ingest.whole + 1 => ReadSoFar(j)
         /\ page.rows = {} => ~page.more
<1> DEFINE lanes == ingest.lanes
           whole == ingest.whole
           from == LotsIn(lanes[whole + 1])
<1>1. /\ lanes \in LaneLists /\ whole \in Nat /\ ingest.cursor \in Nat /\ ingest.rows \subseteq Lots
      /\ ingest.phase # "idle" /\ ingest.kind # "history"
  BY DEF LiveJobs
<1>2. ReadSoFar(ingest) /\ listing.steady \subseteq Held /\ listing.kept \subseteq Held
  BY DEF IngestInv, LiveInv
<1>3. /\ listing.steady \subseteq Lots /\ listing.kept \subseteq Lots /\ Lots \subseteq Nat
      /\ \A i \in Lots : listing.lane[i] \in {"open", "closed", "absent"}
  BY LotsAre DEF IngestInv, IngestType, Listings
<1>4. from \in SUBSET Lots /\ \A i \in Lots : i \in from <=> listing.lane[i] \in lanes[whole + 1]
  BY DEF LotsIn
<1> HIDE DEF from
<1>5. /\ page.cursor \in Nat /\ ingest.cursor <= page.cursor /\ page.more \in BOOLEAN
      /\ page.rows = {i \in from : ingest.cursor < i /\ i <= page.cursor}
      /\ ~page.more => \A i \in from : i <= page.cursor
      /\ page.rows = {} => ~page.more
  <2>1. page = PageOf(from, ingest.cursor)
    BY DEF from
  <2> QED  BY <1>1, <1>4, <2>1, PageOfIs
<1>6. \A i \in from : i <= page.cursor => i <= ingest.cursor \/ i \in found
  BY <1>1, <1>3, <1>4, <1>5
<1>7. ingest.rows \subseteq found /\ found \subseteq Lots
  BY <1>1, <1>4, <1>5
<1>8. Live /\ Len(lanes) \in {1, 2} /\ whole < Len(lanes)
  BY <1>1, <1>2, LanesAre DEF ReadSoFar, Live
<1> HIDE DEF whole, lanes
<1> DEFINE OneOn == \A j \in LiveJobs : j.lanes = lanes /\ j.rows = found /\ j.cursor = page.cursor
                                          /\ j.whole = whole => ReadSoFar(j)
           AtItsEnd == ~page.more /\ whole + 1 = Len(lanes) => DueRows \subseteq found
           Following == ~page.more /\ whole + 1 # Len(lanes) =>
                      \A j \in LiveJobs : j.lanes = lanes /\ j.rows = found /\ j.cursor = 0
                                          /\ j.whole = whole + 1 => ReadSoFar(j)
<1>9. ASSUME Len(lanes) = 1 PROVE OneOn /\ AtItsEnd /\ Following
  <2>1. whole = 0 /\ lanes[whole + 1] = lanes[1] /\ OneLane(ingest)
    BY <1>1, <1>2, <1>8, <1>9 DEF ReadSoFar, lanes, whole
  <2>2. Watched(ingest) \subseteq Lots
    BY <1>3 DEF Watched
  <2>3. ASSUME NEW i \in Watched(ingest), listing.lane[i] \in lanes[1], i <= page.cursor PROVE i \in found
    <3>1. i \in from
      BY <1>4, <2>1, <2>2, <2>3
    <3>2. i <= ingest.cursor => i \in ingest.rows
      BY <2>1, <2>3 DEF OneLane, lanes
    <3> QED  BY <1>6, <1>7, <2>3, <3>1, <3>2
  <2>4. ASSUME NEW j \in LiveJobs, j.lanes = lanes, j.rows = found, j.cursor = page.cursor, j.whole = whole
        PROVE  ReadSoFar(j)
    <3>1. Watched(j) = Watched(ingest)
      BY <2>4 DEF Watched, lanes
    <3> QED  BY <1>8, <1>9, <2>3, <2>4, <3>1 DEF ReadSoFar, OneLane
  <2>5. ASSUME ~page.more PROVE DueRows \subseteq found
    <3>1. ASSUME NEW i \in DueRows PROVE i \in Watched(ingest) /\ listing.lane[i] \in lanes[1]
      <4>1. Range(lanes) = {lanes[1]} /\ UNION Range(lanes) = lanes[1]
        BY <1>1, <1>9, LanesAre DEF lanes
      <4>2. CASE lanes[1] = {"open", "closed"}
        <5>1. DueRows = listing.steady /\ Watched(ingest) = listing.steady
          BY <1>8, <4>1, <4>2 DEF DueRows, Watched, lanes
        <5> QED  BY <1>2, <1>3, <3>1, <4>2, <5>1 DEF Held
      <4>3. CASE lanes[1] # {"open", "closed"}
        <5>1. DueRows = listing.kept \cap LotsIn(lanes[1]) /\ Watched(ingest) = listing.kept
          BY <1>8, <4>1, <4>3 DEF DueRows, Watched, lanes
        <5> QED  BY <3>1, <5>1 DEF LotsIn
      <4> QED  BY <4>2, <4>3
    <3>2. ASSUME NEW i \in DueRows PROVE i <= page.cursor
      <4>1. i \in from
        BY <1>4, <2>1, <2>2, <3>1
      <4> QED  BY <1>5, <2>5, <4>1
    <3> QED  BY <2>3, <3>1, <3>2
  <2>6. whole + 1 = Len(lanes)
    BY <1>9, <2>1
  <2> QED  BY <2>4, <2>5, <2>6
<1>10. ASSUME Len(lanes) = 2 PROVE OneOn /\ AtItsEnd /\ Following
  <2>1. BothLanes(ingest) /\ whole \in {0, 1}
    BY <1>1, <1>2, <1>8, <1>10 DEF ReadSoFar, lanes, whole
  <2>2. /\ lanes[1] = {"open"} /\ lanes[2] = {"closed"} /\ UNION Range(lanes) = {"open", "closed"}
        /\ DueRows = listing.steady
    BY <1>1, <1>8, <1>10, LanesAre DEF DueRows, lanes
  <2>3. \A i \in listing.steady : i \in Lots /\ (listing.lane[i] = "open" \/ listing.lane[i] = "closed")
    BY <1>2, <1>3 DEF Held
  <2>4. ASSUME NEW i \in listing.steady, whole = 1 \/ i <= page.cursor PROVE i \in found \/ listing.lane[i] = "closed"
    <3>1. CASE whole = 1 \/ i <= ingest.cursor
      BY <1>7, <2>1, <2>4, <3>1 DEF BothLanes, whole
    <3>2. CASE whole = 0 /\ listing.lane[i] = "open"
      <4>1. i \in from
        BY <1>4, <2>2, <2>3, <3>2
      <4> QED  BY <1>6, <2>4, <3>1, <3>2, <4>1
    <3> QED  BY <2>1, <2>3, <3>1, <3>2
  <2>5. ASSUME NEW i \in listing.steady, whole = 1, i <= page.cursor PROVE i \in found
    <3>1. listing.lane[i] = "closed" => i \in from
      BY <1>4, <2>2, <2>3, <2>5
    <3>2. i <= ingest.cursor => i \in found
      BY <1>7, <2>1, <2>5 DEF BothLanes, whole
    <3> QED  BY <1>6, <2>4, <2>5, <3>1, <3>2
  <2>6. ASSUME NEW j \in LiveJobs, j.lanes = lanes, j.rows = found, j.cursor = page.cursor, j.whole = whole
        PROVE  ReadSoFar(j)
    <3>1. BothLanes(j)
      BY <2>4, <2>5, <2>6 DEF BothLanes
    <3>2. Len(j.lanes) = 2 /\ j.whole = whole
      BY <1>10, <2>6
    <3>3. j.whole < Len(j.lanes) /\ Len(j.lanes) # 1
      BY ONLY <3>2, <2>1
    <3> QED  BY ONLY <3>1, <3>3 DEF ReadSoFar
  <2>7. ASSUME ~page.more, whole = 1, NEW i \in listing.steady PROVE i \in found
    <3>1. listing.lane[i] = "closed" => i <= page.cursor
      BY <1>4, <1>5, <2>2, <2>3, <2>7
    <3> QED  BY <2>4, <2>5, <2>7, <3>1
  <2>8. ASSUME ~page.more, whole = 0, NEW i \in listing.steady PROVE i \in found \/ listing.lane[i] = "closed"
    <3>1. listing.lane[i] = "open" => i <= page.cursor
      BY <1>4, <1>5, <2>2, <2>3, <2>8
    <3> QED  BY <2>3, <2>4, <3>1
  <2>9. ASSUME ~page.more, whole = 0, NEW j \in LiveJobs, j.lanes = lanes, j.rows = found, j.cursor = 0, j.whole = 1
        PROVE  ReadSoFar(j)
    <3>1. \A i \in listing.steady : ~(i <= 0)
      BY <1>3, LotsAre
    <3>2. BothLanes(j)
      BY <2>8, <2>9, <3>1 DEF BothLanes
    <3>3. Len(j.lanes) = 2 /\ j.whole = 1
      BY <1>10, <2>9
    <3>4. j.whole < Len(j.lanes) /\ Len(j.lanes) # 1
      BY ONLY <3>3
    <3> QED  BY ONLY <3>2, <3>4 DEF ReadSoFar
  <2>10. whole + 1 = Len(lanes) <=> whole = 1
    BY <1>10, <2>1
  <2>11. whole = 0 => whole + 1 = 1
    OBVIOUS
  <2>12. ~page.more /\ whole + 1 = Len(lanes) => DueRows \subseteq found
    BY <2>2, <2>7, <2>10
  <2>13. ~page.more /\ whole + 1 # Len(lanes) =>
           \A j \in LiveJobs : j.lanes = lanes /\ j.rows = found /\ j.cursor = 0 /\ j.whole = whole + 1 => ReadSoFar(j)
    <3> SUFFICES ASSUME ~page.more, whole + 1 # Len(lanes), NEW j \in LiveJobs, j.lanes = lanes, j.rows = found,
                        j.cursor = 0, j.whole = whole + 1
                 PROVE  ReadSoFar(j)
      OBVIOUS
    <3>1. whole = 0 /\ j.whole = 1
      BY <2>1, <2>10, <2>11
    <3> QED  BY <2>9, <3>1
  <2>14. OneOn
    BY <2>6
  <2>15. AtItsEnd
    BY <2>12
  <2>16. Following
    BY <2>13
  <2> HIDE DEF OneOn, AtItsEnd, Following
  <2> QED  BY <2>14, <2>15, <2>16
<1>11. OneOn /\ AtItsEnd /\ Following
  BY <1>8, <1>9, <1>10
<1>12. page.cursor \in Nat /\ page.more \in BOOLEAN /\ found \subseteq Lots /\ (page.rows = {} => ~page.more)
  BY <1>5, <1>7
<1>13. whole \in Nat /\ whole < Len(lanes) /\ Len(lanes) \in {1, 2}
  BY <1>1, <1>8
<1>14. ingest.whole \in Nat /\ ingest.whole < Len(ingest.lanes) /\ Len(ingest.lanes) \in {1, 2}
  BY ONLY <1>13 DEF lanes, whole
<1>15. \A j \in LiveJobs : j.lanes = ingest.lanes /\ j.rows = found /\ j.cursor = page.cursor
                           /\ j.whole = ingest.whole => ReadSoFar(j)
  <2> SUFFICES ASSUME NEW j \in LiveJobs, j.lanes = ingest.lanes, j.rows = found, j.cursor = page.cursor,
                      j.whole = ingest.whole
               PROVE  ReadSoFar(j)
    OBVIOUS
  <2>1. j.lanes = lanes /\ j.whole = whole
    BY DEF lanes, whole
  <2> QED  BY <1>11, <2>1
<1>16. ~page.more /\ ingest.whole + 1 = Len(ingest.lanes) => DueRows \subseteq found
  BY ONLY <1>11 DEF lanes, whole
<1>17. ~page.more /\ ingest.whole + 1 # Len(ingest.lanes) =>
         \A j \in LiveJobs : j.lanes = ingest.lanes /\ j.rows = found /\ j.cursor = 0
                             /\ j.whole = ingest.whole + 1 => ReadSoFar(j)
  BY ONLY <1>11 DEF lanes, whole
<1> QED  BY ONLY <1>12, <1>14, <1>15, <1>16, <1>17, Zenon

LEMMA StoppedIs ==
  ASSUME NEW walk \in LiveJobs, NEW reason \in Stops
  PROVE  /\ Stopped(walk, reason) \in LiveJobs /\ Stopped(walk, reason).kind = walk.kind
         /\ Stopped(walk, reason).lanes = walk.lanes /\ Stopped(walk, reason).phase = "out"
         /\ Stopped(walk, reason).stop = reason /\ Stopped(walk, reason).rows = walk.rows
         /\ Stopped(walk, reason).whole = walk.whole /\ Stopped(walk, reason).more = walk.more
  BY DEF LiveJobs, Stopped

LEMMA RaisedIs ==
  ASSUME NEW walk \in LiveJobs
  PROVE  \/ Raised(walk) = NoIngest
         \/ /\ Raised(walk) \in LiveJobs /\ Raised(walk).kind = walk.kind /\ Raised(walk).lanes = walk.lanes
            /\ Raised(walk).phase = "out" /\ Raised(walk).errors = TRUE
<1>1. "error" \in Stops
  BY DEF Stops
<1>2. PICK s : s = Stopped(walk, "error")
  OBVIOUS
<1>3. s \in LiveJobs /\ s.kind = walk.kind /\ s.lanes = walk.lanes /\ s.phase = "out"
  BY <1>1, <1>2, StoppedIs
<1>4. /\ [s EXCEPT !.errors = TRUE] \in LiveJobs /\ [s EXCEPT !.errors = TRUE].kind = walk.kind
      /\ [s EXCEPT !.errors = TRUE].lanes = walk.lanes /\ [s EXCEPT !.errors = TRUE].phase = "out"
      /\ [s EXCEPT !.errors = TRUE].errors = TRUE
  BY <1>3 DEF LiveJobs
<1>5. Raised(walk) = NoIngest \/ Raised(walk) = [s EXCEPT !.errors = TRUE]
  BY <1>2 DEF Raised
<1> QED  BY <1>4, <1>5

LEMMA OffsetReads == ASSUME IngestInv, OffsetRead \/ OffsetRefused PROVE IngestInv'
<1>1. ingest \in LiveJobs /\ ingest.kind = "offset" /\ ingest.phase = "pages" /\ UNCHANGED <<listing, outputs>>
  BY JobIs DEF IngestInv, OffsetRead, OffsetRefused, Reading, Live
<1>2. \A j \in LiveJobs : j.kind = "offset" => ~Complete(j)
  BY DEF Complete
<1>3. ASSUME NEW j \in LiveJobs, j.kind = "offset", j.lanes = ingest.lanes, ingest' = j PROVE IngestInv'
  BY <1>1, <1>2, <1>3, LiveGoesOn
<1>4. CASE OffsetRefused
  <2>1. ingest' = Stopped(ingest, "endpoint_offset_limit") /\ "endpoint_offset_limit" \in Stops
    BY <1>4 DEF OffsetRefused, Stops
  <2> QED  BY <1>1, <1>3, <2>1, StoppedIs
<1>5. CASE OffsetRead
  <2> DEFINE rows == OffsetPage(LotsIn(ingest.lanes[1]), ingest.pages * ListingPage)
             found == ingest.rows \cup rows
             after == [ingest EXCEPT !.rows = @ \cup rows, !.pages = @ + 1]
             over == [ingest EXCEPT !.more = TRUE]
  <2>1. rows \subseteq Lots /\ found \in SUBSET Lots
    BY <1>1 DEF OffsetPage, LotsIn, LiveJobs
  <2> HIDE DEF rows
  <2>2. /\ after \in LiveJobs /\ after.kind = "offset" /\ after.lanes = ingest.lanes
        /\ over \in LiveJobs /\ over.kind = "offset" /\ over.lanes = ingest.lanes
    <3>1. ingest.pages + 1 \in Nat
      BY <1>1 DEF LiveJobs
    <3> QED  BY <1>1, <2>1, <3>1 DEF LiveJobs
  <2>3. \/ ingest' = Stopped(over, "page_limit_reached") \/ ingest' = Stopped(after, "empty_page")
        \/ ingest' = Stopped(after, "short_page") \/ ingest' = after
    BY <1>5 DEF OffsetRead, rows
  <2> HIDE DEF after, over
  <2>4. "page_limit_reached" \in Stops /\ "empty_page" \in Stops /\ "short_page" \in Stops
    BY DEF Stops
  <2>5. ASSUME NEW walk \in {after, over}, NEW reason \in Stops, ingest' = Stopped(walk, reason) PROVE IngestInv'
    <3>1. walk \in LiveJobs /\ walk.kind = "offset" /\ walk.lanes = ingest.lanes
      BY <2>2, <2>5
    <3> QED  BY <1>3, <2>5, <3>1, StoppedIs
  <2>6. ingest' = after => IngestInv'
    BY <1>3, <2>2
  <2> QED  BY <2>3, <2>4, <2>5, <2>6
<1> QED  BY <1>4, <1>5

LEMMA LiveStops == ASSUME IngestInv, LiveReadFails \/ Cancelled PROVE IngestInv'
<1>1. ingest \in LiveJobs /\ ingest.phase = "pages" /\ UNCHANGED <<listing, outputs>>
  BY JobIs DEF IngestInv, LiveReadFails, Cancelled, Reading, Live
<1>2. ASSUME NEW j, ingest' = j, j = NoIngest \/ j \in LiveJobs,
             j \in LiveJobs => /\ j.kind = ingest.kind /\ j.lanes = ingest.lanes /\ j.phase = "out"
                               /\ j.errors = TRUE \/ j.stop = "cancelled"
      PROVE  IngestInv'
  <2>1. j \in LiveJobs => ~Authoritative(Bundle(j))
    BY <1>2, AuthorityIs
  <2> QED  BY <1>1, <1>2, <2>1, LiveGoesOn
<1>3. CASE LiveReadFails
  <2>1. ingest' = Raised(ingest) /\ NoIngest \notin LiveJobs
    BY <1>3, JobIs DEF LiveReadFails, IngestInv
  <2> QED  BY <1>1, <1>2, <2>1, RaisedIs
<1>4. CASE Cancelled
  <2>1. ingest' = Stopped(ingest, "cancelled") /\ "cancelled" \in Stops
    BY <1>4 DEF Cancelled, Stops
  <2> QED  BY <1>1, <1>2, <2>1, StoppedIs
<1> QED  BY <1>3, <1>4

LEMMA KeysetReads == ASSUME IngestInv, KeysetRead PROVE IngestInv'
<1>1. ingest \in LiveJobs /\ ingest.kind = "keyset" /\ ingest.phase = "pages" /\ UNCHANGED <<listing, outputs>>
  BY JobIs DEF IngestInv, KeysetRead, Reading, Live
<1>2. ASSUME NEW j, ingest' = j, j = NoIngest \/ j \in LiveJobs,
             j \in LiveJobs => /\ j.kind = ingest.kind /\ j.lanes = ingest.lanes /\ j.phase = "out"
                               /\ j.errors = TRUE \/ j.stop = "max_pages_reached"
      PROVE  IngestInv'
  <2>1. j \in LiveJobs => ~Authoritative(Bundle(j))
    BY <1>2, AuthorityIs
  <2> QED  BY <1>1, <1>2, <2>1, LiveGoesOn
<1> DEFINE lot == PageOf(LotsIn(ingest.lanes[ingest.whole + 1]), ingest.cursor)
           after == [ingest EXCEPT !.pages = @ + 1, !.rows = @ \cup lot.rows, !.more = lot.more]
           done == [after EXCEPT !.whole = @ + 1, !.cursor = 0]
           goes == [after EXCEPT !.cursor = lot.cursor]
           failed == [ingest EXCEPT !.pages = @ + 1]
           found == ingest.rows \cup lot.rows
<1>3. \/ ingest' = Stopped(ingest, "max_pages_reached")
      \/ ingest' = Raised(failed)
      \/ lot.more /\ ingest' = goes
      \/ ~lot.more /\ done.whole = Len(ingest.lanes) /\ ingest' = Stopped(done, "cursor_exhausted")
      \/ ~lot.more /\ done.whole # Len(ingest.lanes) /\ ingest' = done
  BY DEF KeysetRead
<1>4. PICK page : page = lot
  OBVIOUS
<1>5. /\ page.cursor \in Nat /\ page.more \in BOOLEAN /\ found \subseteq Lots
      /\ ingest.whole \in Nat /\ ingest.whole < Len(ingest.lanes) /\ Len(ingest.lanes) \in {1, 2}
      /\ \A j \in LiveJobs : j.lanes = ingest.lanes /\ j.rows = found /\ j.cursor = page.cursor
                             /\ j.whole = ingest.whole => ReadSoFar(j)
      /\ ~page.more /\ ingest.whole + 1 = Len(ingest.lanes) => DueRows \subseteq found
      /\ ~page.more /\ ingest.whole + 1 # Len(ingest.lanes) =>
           \A j \in LiveJobs : j.lanes = ingest.lanes /\ j.rows = found /\ j.cursor = 0
                               /\ j.whole = ingest.whole + 1 => ReadSoFar(j)
  BY <1>1, <1>4, PageRead
<1>6. /\ goes \in LiveJobs /\ goes.kind = "keyset" /\ goes.lanes = ingest.lanes /\ goes.phase = "pages"
      /\ goes.rows = found /\ goes.cursor = page.cursor /\ goes.whole = ingest.whole
      /\ done \in LiveJobs /\ done.kind = "keyset" /\ done.lanes = ingest.lanes /\ done.phase = "pages"
      /\ done.rows = found /\ done.cursor = 0 /\ done.whole = ingest.whole + 1
      /\ failed \in LiveJobs /\ failed.kind = "keyset" /\ failed.lanes = ingest.lanes
  <2>1. ingest.pages + 1 \in Nat /\ ingest.whole + 1 \in Nat
    BY <1>1 DEF LiveJobs
  <2>2. lot.more = page.more /\ lot.cursor = page.cursor
    BY <1>4
  <2> DEFINE rows == lot.rows
             more == lot.more
             end == lot.cursor
  <2>3. after = [ingest EXCEPT !.pages = @ + 1, !.rows = @ \cup rows, !.more = more] /\ found = ingest.rows \cup rows
        /\ goes = [after EXCEPT !.cursor = end]
    OBVIOUS
  <2>4. found \in SUBSET Lots /\ more \in BOOLEAN /\ end \in Nat /\ end = page.cursor
    BY <1>4, <1>5
  <2> HIDE DEF rows, more, end
  <2>5. /\ after \in LiveJobs /\ after.kind = "keyset" /\ after.lanes = ingest.lanes /\ after.phase = "pages"
        /\ after.rows = found /\ after.whole = ingest.whole
    BY ONLY <1>1, <2>1, <2>3, <2>4 DEF LiveJobs
  <2>6. /\ failed \in LiveJobs /\ failed.kind = "keyset" /\ failed.lanes = ingest.lanes
    BY ONLY <1>1, <2>1 DEF LiveJobs
  <2> HIDE DEF after
  <2>7. /\ goes \in LiveJobs /\ goes.kind = "keyset" /\ goes.lanes = ingest.lanes /\ goes.phase = "pages"
        /\ goes.rows = found /\ goes.cursor = page.cursor /\ goes.whole = ingest.whole
    <3>1. goes = [after EXCEPT !.cursor = end]
      BY <2>3
    <3> HIDE DEF goes, done, found
    <3> QED  BY ONLY <3>1, <2>4, <2>5 DEF LiveJobs
  <2>8. /\ done \in LiveJobs /\ done.kind = "keyset" /\ done.lanes = ingest.lanes /\ done.phase = "pages"
        /\ done.rows = found /\ done.cursor = 0 /\ done.whole = ingest.whole + 1
    BY ONLY <2>1, <2>5 DEF LiveJobs, done
  <2> QED  BY <2>6, <2>7, <2>8
<1>7. lot.more = page.more
  BY <1>4
<1> HIDE DEF goes, done, failed, lot, after, found
<1>8. "max_pages_reached" \in Stops /\ "cursor_exhausted" \in Stops /\ NoIngest \notin LiveJobs
  BY JobIs DEF Stops, IngestInv
<1>9. CASE ingest' = Stopped(ingest, "max_pages_reached")
  BY <1>1, <1>2, <1>8, <1>9, StoppedIs
<1>10. CASE ingest' = Raised(failed)
  BY <1>1, <1>2, <1>6, <1>8, <1>10, RaisedIs
<1>11. CASE lot.more /\ ingest' = goes
  <2>1. ReadSoFar(goes)
    BY <1>5, <1>6
  <2> QED  BY <1>1, <1>6, <1>11, <2>1, LiveGoesOn
<1>12. CASE ~lot.more /\ done.whole # Len(ingest.lanes) /\ ingest' = done
  <2>1. ReadSoFar(done)
    BY <1>5, <1>6, <1>7, <1>12
  <2> QED  BY <1>1, <1>6, <1>12, <2>1, LiveGoesOn
<1>13. CASE ~lot.more /\ done.whole = Len(ingest.lanes) /\ ingest' = Stopped(done, "cursor_exhausted")
  <2>1. DueRows \subseteq found
    BY <1>5, <1>6, <1>7, <1>13
  <2>2. PICK j : j = Stopped(done, "cursor_exhausted")
    OBVIOUS
  <2>3. j \in LiveJobs /\ j.kind = "keyset" /\ j.lanes = ingest.lanes /\ j.phase = "out" /\ j.rows = found
    BY <1>6, <1>8, <2>2, StoppedIs
  <2> QED  BY <1>1, <1>13, <2>1, <2>2, <2>3, LiveGoesOn
<1> QED  BY <1>3, <1>9, <1>10, <1>11, <1>12, <1>13

LEMMA KalshiReads == ASSUME IngestInv, NEW empty \in BOOLEAN, KalshiRead(empty) PROVE IngestInv'
<1>1. ingest \in LiveJobs /\ ingest.kind = "kalshi" /\ ingest.phase = "pages" /\ UNCHANGED <<listing, outputs>>
  BY JobIs DEF IngestInv, KalshiRead, Reading, Live
<1>2. Len(ingest.lanes) = 1
  BY <1>1 DEF IngestInv, LiveInv
<1> DEFINE lot == PageOf(LotsIn(ingest.lanes[ingest.whole + 1]), ingest.cursor)
           after == [ingest EXCEPT !.pages = @ + 1, !.more = lot.more, !.cursor = lot.cursor,
                      !.rows = @ \cup lot.rows]
           ended == [ingest EXCEPT !.pages = @ + 1, !.more = empty]
           found == ingest.rows \cup lot.rows
<1>3. PICK page : page = lot
  OBVIOUS
<1>4. /\ page.cursor \in Nat /\ page.more \in BOOLEAN /\ found \subseteq Lots
      /\ ingest.whole \in Nat /\ ingest.whole < Len(ingest.lanes)
      /\ \A j \in LiveJobs : j.lanes = ingest.lanes /\ j.rows = found /\ j.cursor = page.cursor
                             /\ j.whole = ingest.whole => ReadSoFar(j)
      /\ ~page.more /\ ingest.whole + 1 = Len(ingest.lanes) => DueRows \subseteq found
      /\ page.rows = {} => ~page.more
  BY <1>1, <1>3, PageRead
<1>5. ingest.whole = 0 /\ ingest.whole + 1 = 1 /\ ingest.whole + 1 = Len(ingest.lanes)
  BY <1>2, <1>4
<1>6. \/ ingest' = Stopped(ingest, "max_pages_reached")
      \/ (empty \/ lot.rows = {}) /\ ingest' = Stopped(ended, "empty_page")
      \/ ingest' = Raised(ingest)
      \/ ~lot.more /\ ingest' = Stopped(after, "cursor_exhausted")
      \/ ingest' = after
  <2>1. lot = PageOf(LotsIn(ingest.lanes[1]), ingest.cursor)
    BY <1>5
  <2> HIDE DEF lot
  <2> QED  BY <2>1 DEF KalshiRead
<1>7. /\ after \in LiveJobs /\ after.kind = "kalshi" /\ after.lanes = ingest.lanes /\ after.phase = "pages"
      /\ after.rows = found /\ after.cursor = page.cursor /\ after.whole = ingest.whole
      /\ ended \in LiveJobs /\ ended.kind = "kalshi" /\ ended.lanes = ingest.lanes
      /\ ended.rows = ingest.rows /\ ended.more = empty
  <2>1. ingest.pages + 1 \in Nat
    BY <1>1 DEF LiveJobs
  <2> DEFINE rows == lot.rows
             more == lot.more
             end == lot.cursor
  <2>2. after = [ingest EXCEPT !.pages = @ + 1, !.more = more, !.cursor = end, !.rows = @ \cup rows]
        /\ found = ingest.rows \cup rows
    OBVIOUS
  <2>3. found \in SUBSET Lots /\ more \in BOOLEAN /\ end \in Nat /\ end = page.cursor
    BY <1>3, <1>4
  <2> HIDE DEF rows, more, end
  <2>4. /\ after \in LiveJobs /\ after.kind = "kalshi" /\ after.lanes = ingest.lanes /\ after.phase = "pages"
        /\ after.rows = found /\ after.cursor = page.cursor /\ after.whole = ingest.whole
    <3> HIDE DEF after, found, ended
    <3> QED  BY ONLY <1>1, <2>1, <2>2, <2>3 DEF LiveJobs
  <2>5. /\ ended \in LiveJobs /\ ended.kind = "kalshi" /\ ended.lanes = ingest.lanes
        /\ ended.rows = ingest.rows /\ ended.more = empty
    BY ONLY <1>1, <2>1, empty \in BOOLEAN DEF LiveJobs
  <2> QED  BY <2>4, <2>5
<1>8. lot.more = page.more /\ lot.rows = page.rows /\ (lot.rows = {} => found = ingest.rows)
  BY <1>3
<1> HIDE DEF ended, lot, after, found
<1>9. /\ "max_pages_reached" \in Stops /\ "cursor_exhausted" \in Stops /\ "empty_page" \in Stops
      /\ NoIngest \notin LiveJobs
  BY JobIs DEF Stops, IngestInv
<1>10. ASSUME NEW j, ingest' = j, j = NoIngest \/ j \in LiveJobs,
              j \in LiveJobs => /\ j.kind = ingest.kind /\ j.lanes = ingest.lanes /\ j.phase = "out"
                                /\ j.errors = TRUE \/ j.stop = "max_pages_reached" \/ j.more = TRUE
       PROVE  IngestInv'
  <2>1. j \in LiveJobs => ~Authoritative(Bundle(j))
    BY <1>10, AuthorityIs
  <2> QED  BY <1>1, <1>10, <2>1, LiveGoesOn
<1>11. CASE ingest' = Stopped(ingest, "max_pages_reached")
  BY <1>1, <1>9, <1>10, <1>11, StoppedIs
<1>12. CASE ingest' = Raised(ingest)
  BY <1>1, <1>9, <1>10, <1>12, RaisedIs
<1>13. CASE ingest' = after
  <2>1. ReadSoFar(after)
    BY <1>4, <1>7
  <2> QED  BY <1>1, <1>7, <1>13, <2>1, LiveGoesOn
<1>14. ASSUME NEW walk \in LiveJobs, walk.kind = "kalshi", walk.lanes = ingest.lanes, DueRows \subseteq walk.rows,
              NEW reason \in Stops, ingest' = Stopped(walk, reason)
       PROVE  IngestInv'
  <2>1. PICK j : j = Stopped(walk, reason)
    OBVIOUS
  <2>2. j \in LiveJobs /\ j.kind = "kalshi" /\ j.lanes = ingest.lanes /\ j.phase = "out" /\ j.rows = walk.rows
    BY <1>14, <2>1, StoppedIs
  <2> QED  BY <1>1, <1>14, <2>1, <2>2, LiveGoesOn
<1>15. CASE ~lot.more /\ ingest' = Stopped(after, "cursor_exhausted")
  <2>1. DueRows \subseteq found
    BY <1>4, <1>5, <1>8, <1>15
  <2> QED  BY <1>7, <1>9, <1>14, <1>15, <2>1
<1>16. CASE (empty \/ lot.rows = {}) /\ ingest' = Stopped(ended, "empty_page")
  <2>1. CASE empty
    <3>1. PICK j : j = Stopped(ended, "empty_page")
      OBVIOUS
    <3>2. j \in LiveJobs /\ j.kind = "kalshi" /\ j.lanes = ingest.lanes /\ j.phase = "out" /\ j.more = TRUE
      BY <1>7, <1>9, <2>1, <3>1, StoppedIs
    <3> QED  BY <1>1, <1>10, <1>16, <3>1, <3>2
  <2>2. CASE lot.rows = {}
    <3>1. DueRows \subseteq ingest.rows
      BY <1>4, <1>5, <1>8, <2>2
    <3> QED  BY <1>7, <1>9, <1>14, <1>16, <3>1
  <2> QED  BY <1>16, <2>1, <2>2
<1> QED  BY <1>6, <1>11, <1>12, <1>13, <1>15, <1>16

-----------------------------------------------------------------------------
(* The segments of a chain. *)

Previous == [r \in Segments |-> ManifestOf(r).previous]

LEMMA ChainIs ==
  ASSUME NEW p
  PROVE  Chain(p) = Fewest(Segments, Previous, p) /\ Chain(p)' = Fewest(Segments', Previous', p)
<1>1. \A r \in Segments : Previous[r] = ManifestOf(r).previous
  BY DEF Previous
<1>2. \A r \in Segments' : Previous'[r] = ManifestOf(r)'.previous
  BY DEF Previous
<1>3. Chain(p) = Fewest(Segments, Previous, p)
  BY <1>1 DEF Chain, Fewest
<1>4. Chain(p)' = Fewest(Segments', Previous', p)
  BY <1>2 DEF Chain, Fewest
<1> QED  BY <1>3, <1>4

\* The segments other than p, when p comes or goes.
LEMMA OthersStay ==
  ASSUME IngestType, SegmentsInv, listing' = listing, NEW p \in 1 .. Targets, NEW others, others \subseteq 1 .. Targets,
         p \notin others, others \subseteq Segments, Segments \subseteq others \cup {p},
         others \subseteq Segments', Segments' \subseteq others \cup {p},
         \A q \in others : outputs'[q] = outputs[q] /\ ManifestOf(q).previous # p
  PROVE  /\ \A q \in others : SegmentInv(q, ManifestOf(q))' /\ ChainInv(q)' /\ ManifestOf(q)' = ManifestOf(q)
         /\ \A q \in others : Chain(q)' = Chain(q) /\ Chain(q) \subseteq others
<1>1. \A q \in others : ManifestOf(q)' = ManifestOf(q)
  BY DEF ManifestOf
<1>2. /\ \A asof : SettledBefore(asof)' = SettledBefore(asof)
      /\ \A start, end, asof : Between(start, end, asof)' = Between(start, end, asof)
      /\ \A end, asof : Exhausted(end, asof)' = Exhausted(end, asof)
  BY DEF Between, Exhausted, SettledBefore
<1>3. ASSUME NEW q \in others
      PROVE  ManifestOf(q).previous \in others \cup {0} /\ SegmentInv(q, ManifestOf(q)) /\ ChainInv(q)
  <2>1. q \in Segments
    OBVIOUS
  <2> QED  BY <2>1, SegmentIs
<1>4. ASSUME NEW q \in others PROVE SegmentInv(q, ManifestOf(q))'
  <2>1. SegmentInv(q, ManifestOf(q)) /\ ManifestOf(q)' = ManifestOf(q) /\ outputs'[q] = outputs[q]
    BY <1>1, <1>3
  <2>2. Follows(ManifestOf(q).previous, ManifestOf(q))'
    <3>1. Follows(ManifestOf(q).previous, ManifestOf(q))
      BY <2>1 DEF SegmentInv
    <3> QED  BY <1>1, <1>3, <2>1, <3>1 DEF Follows
  <2>3. ManifestOf(q)'.rows = Between(ManifestOf(q).start, ManifestOf(q).cursor, ManifestOf(q).asof)'
    BY <1>2, <2>1 DEF SegmentInv
  <2>4. ~ManifestOf(q)'.more => Exhausted(ManifestOf(q).cursor, ManifestOf(q).asof)'
    BY <1>2, <2>1 DEF SegmentInv
  <2> QED  BY <2>1, <2>2, <2>3, <2>4 DEF SegmentInv
<1>5. ASSUME NEW q \in others PROVE Chain(q)' = Chain(q) /\ Chain(q) \subseteq others
  <2> DEFINE Same(all) == Fewest(all, Previous, q) = Fewest(others, Previous, q)
             Same2(all) == Fewest(all, Previous', q) = Fewest(others, Previous, q)
  <2>1. p # 0 /\ q # p /\ 0 \notin others \cup {p} /\ (others \cup {p}) \ {p} = others /\ others \ {p} = others
    BY IngestBounds
  <2>2. \A r \in others : Previous[r] = ManifestOf(r).previous /\ Previous'[r] = ManifestOf(r).previous
    BY <1>1 DEF Previous
  <2>3. \A r \in others : Previous[r] \in others \cup {0} /\ Previous'[r] = Previous[r]
    BY <1>3, <2>2
  <2>4. PICK prev, prev2 : prev = Previous /\ prev2 = Previous'
    OBVIOUS
  <2>5. Agree(others, prev, prev) /\ Agree(others, prev2, prev) /\ Agree(others, prev, prev2)
    BY <2>3, <2>4 DEF Agree
  <2>6. ASSUME NEW all, all = others \/ all = others \cup {p}
        PROVE  Fewest(all, prev, q) = Fewest(others, prev, q) /\ Fewest(all, prev2, q) = Fewest(others, prev, q)
    <3>1. CASE all = others
      BY <2>5, <3>1, FewestSame
    <3>2. CASE all = others \cup {p}
      BY <2>1, <2>5, <3>2, FewestStays
    <3> QED  BY <2>6, <3>1, <3>2
  <2>7. (Segments = others \/ Segments = others \cup {p}) /\ (Segments' = others \/ Segments' = others \cup {p})
    OBVIOUS
  <2>8. Chain(q) = Fewest(others, prev, q) /\ Chain(q)' = Fewest(others, prev, q)
    BY <2>4, <2>6, <2>7, ChainIs
  <2> QED  BY <2>8 DEF Fewest
<1>6. ASSUME NEW q \in others PROVE ChainInv(q)'
  <2>1. ChainInv(q) /\ Chain(q)' = Chain(q) /\ \A r \in Chain(q) \cup {q} : ManifestOf(r)' = ManifestOf(r)
    BY <1>1, <1>3, <1>5
  <2>2. {ManifestOf(r)'.rows : r \in Chain(q)} = {ManifestOf(r).rows : r \in Chain(q)}
    BY <2>1
  <2> QED  BY <1>2, <2>1, <2>2 DEF ChainInv
<1> QED  BY <1>1, <1>4, <1>5, <1>6

LEMMA SegmentGone ==
  ASSUME IngestType, SegmentsInv, listing' = listing, NEW p \in 1 .. Targets, outputs' = [outputs EXCEPT ![p] = NoFiles],
         \A q \in Segments : ManifestOf(q).previous # p
  PROVE  SegmentsInv'
<1>1. /\ \A q \in 1 .. Targets : q \in 0 .. Targets
      /\ outputs \in [0 .. Targets -> Files]
  BY IngestBounds DEF IngestType
<1>2. \A q \in 1 .. Targets : outputs'[q] = IF q = p THEN NoFiles ELSE outputs[q]
  BY <1>1
<1>3. Segments' = Segments \ {p}
  BY <1>2 DEF Segments, NoFiles
<1>4. \A q \in Segments' : SegmentInv(q, ManifestOf(q))' /\ ChainInv(q)'
  <2> DEFINE others == Segments \ {p}
  <2>1. /\ others \subseteq 1 .. Targets /\ p \notin others /\ others \subseteq Segments
        /\ Segments \subseteq others \cup {p} /\ others \subseteq Segments' /\ Segments' \subseteq others \cup {p}
        /\ \A q \in others : outputs'[q] = outputs[q] /\ ManifestOf(q).previous # p
    BY <1>2, <1>3 DEF Segments
  <2>2. others = Segments'
    BY <1>3
  <2> HIDE DEF others
  <2>3. \A q \in others : SegmentInv(q, ManifestOf(q))' /\ ChainInv(q)'
    BY <2>1, OthersStay
  <2> QED  BY <2>2, <2>3
<1> QED  BY <1>4 DEF SegmentsInv

LEMMA SegmentAdded ==
  ASSUME IngestType, SegmentsInv, listing' = listing, NEW p \in 1 .. Targets, p \notin Segments,
         NEW m \in SegmentManifests, outputs' = [outputs EXCEPT ![p].manifest = {m}],
         outputs[p].out = {m.rows}, m.evidence => \E b \in outputs[p].bundle : b.ids = m.rows,
         m.start <= m.cursor, m.rows = Between(m.start, m.cursor, m.asof),
         ~m.more => Exhausted(m.cursor, m.asof), m.previous # p, Follows(m.previous, m)
  PROVE  SegmentsInv'
<1> DEFINE f == [outputs[p] EXCEPT !.manifest = {m}]
           prev == m.previous
<1>1. /\ \A q \in 1 .. Targets : q \in 0 .. Targets
      /\ outputs \in [0 .. Targets -> Files] /\ p # 0
  BY IngestBounds DEF IngestType
<1>2. outputs' = [outputs EXCEPT ![p] = f] /\ f.manifest = {m} /\ f.out = outputs[p].out /\ f.bundle = outputs[p].bundle
  BY <1>1 DEF Files
<1> HIDE DEF f
<1>3. \A q \in 1 .. Targets : outputs'[q] = IF q = p THEN f ELSE outputs[q]
  BY <1>1, <1>2
<1>4. Segments' = Segments \cup {p} /\ Segments \subseteq 1 .. Targets
  BY <1>2, <1>3 DEF Segments
<1>5. ManifestOf(p)' = m
  BY <1>2, <1>3 DEF ManifestOf
<1>6. /\ \A start, end, asof : Between(start, end, asof)' = Between(start, end, asof)
      /\ \A end, asof : Exhausted(end, asof)' = Exhausted(end, asof)
  BY DEF Between, Exhausted, SettledBefore
<1>7. /\ \A q \in Segments : SegmentInv(q, ManifestOf(q))' /\ ChainInv(q)' /\ ManifestOf(q)' = ManifestOf(q)
      /\ \A q \in Segments : Chain(q)' = Chain(q) /\ Chain(q) \subseteq Segments
  <2>1. \A q \in Segments : outputs'[q] = outputs[q] /\ ManifestOf(q).previous # p
    BY <1>1, <1>3, <1>4, SegmentIs
  <2> QED  BY <1>4, <2>1, OthersStay
<1>8. prev \in Segments \cup {0}
  BY DEF Follows
<1>9. SegmentInv(p, ManifestOf(p))'
  <2>1. Follows(m.previous, m)'
    BY <1>4, <1>7, <1>8 DEF Follows
  <2>2. outputs'[p] = f
    BY <1>3
  <2>3. m.rows = Between(m.start, m.cursor, m.asof)' /\ (~m.more => Exhausted(m.cursor, m.asof)')
    BY <1>6
  <2> QED  BY <1>2, <1>5, <2>1, <2>2, <2>3 DEF SegmentInv
<1>10. ChainInv(p)'
  <2>1. /\ 0 \notin Segments' /\ p \in Segments'
        /\ Previous'[p] = prev /\ prev \in Segments' \cup {0}
    BY <1>1, <1>4, <1>5, <1>8 DEF Previous
  <2>2. /\ prev = 0 => Chain(p)' = {p}
        /\ prev # 0 => Chain(p)' = {p} \cup Chain(prev)'
    BY <2>1, ChainIs, FewestStep
  <2>3. CASE prev = 0
    <3>1. m.start = 0
      BY <2>3 DEF Follows
    <3>2. UNION {ManifestOf(q)'.rows : q \in {p}} = m.rows
      BY <1>5
    <3> QED  BY <1>5, <1>6, <2>2, <2>3, <3>1, <3>2 DEF ChainInv
  <2>4. CASE prev # 0
    <3>1. prev \in Segments /\ m.start = ManifestOf(prev).cursor /\ m.asof = ManifestOf(prev).asof
      BY <2>4 DEF Follows
    <3>2. Chain(p)' = {p} \cup Chain(prev) /\ Chain(prev) \subseteq Segments
      BY <1>7, <2>2, <2>4, <3>1
    <3>3. /\ UNION {ManifestOf(q).rows : q \in Chain(prev)} = Between(0, m.start, m.asof)
          /\ \A q, r \in Chain(prev) : q # r => ManifestOf(q).rows \cap ManifestOf(r).rows = {}
      BY <3>1, SegmentIs DEF ChainInv
    <3>4. \A q \in Chain(prev) : ManifestOf(q)' = ManifestOf(q) /\ ManifestOf(q).rows \subseteq Between(0, m.start, m.asof)
      BY <1>7, <3>2, <3>3
    <3>5. m.start \in Nat /\ m.cursor \in Nat /\ \A i \in SettledBefore(m.asof) : i \in Nat /\ 0 < i
      BY LotsAre DEF SegmentManifests, SettledBefore
    <3>6. /\ Between(0, m.start, m.asof) \cup m.rows = Between(0, m.cursor, m.asof)
          /\ Between(0, m.start, m.asof) \cap m.rows = {}
      BY <3>5 DEF Between
    <3>7. UNION {ManifestOf(q)'.rows : q \in {p} \cup Chain(prev)} = m.rows \cup UNION {ManifestOf(q).rows : q \in Chain(prev)}
      BY <1>5, <3>4
    <3>8. ASSUME NEW q \in {p} \cup Chain(prev), NEW r \in {p} \cup Chain(prev), q # r
          PROVE  ManifestOf(q)'.rows \cap ManifestOf(r)'.rows = {}
      BY <1>5, <3>3, <3>4, <3>6, <3>8
    <3> QED  BY <1>5, <1>6, <3>2, <3>3, <3>6, <3>7, <3>8 DEF ChainInv
  <2> QED  BY <2>3, <2>4
<1> QED  BY <1>4, <1>7, <1>9, <1>10 DEF SegmentsInv

\* What a job on the archive does to itself.
LEMMA HistoryGoesOn ==
  ASSUME IngestInv, ~Live, UNCHANGED <<listing, outputs>>, NEW j \in HistoryJobs, ingest' = j, JobInv(j)
  PROVE  IngestInv'
<1> USE DEF IngestInv
<1>1. IngestType' /\ BundlesInv' /\ Held' = Held
  BY DEF IngestType, BundlesInv, Held, Authoritative
<1>2. SegmentsKept
  BY DEF SegmentsKept
<1>3. SegmentsInv' /\ Segments' = Segments /\ \A p \in 1 .. Targets : ManifestOf(p)' = ManifestOf(p)
  BY <1>2, SegmentsStay
<1>4. j \notin LiveJobs
  BY DEF HistoryJobs, LiveJobs
<1>5. LiveInv'
  BY <1>1, <1>4 DEF LiveInv
<1>6. JobInv(ingest)'
  BY DEF JobInv, Follows, Collected, Linked, Between, Exhausted, SettledBefore, Segments, ManifestOf
<1> QED  BY <1>1, <1>3, <1>5, <1>6 DEF HistoryInv

LEMMA SegmentBegins ==
  ASSUME IngestInv, NEW p \in 1 .. Targets, NEW q \in 1 .. Targets, NEW kept \in BOOLEAN, NEW complete \in BOOLEAN,
         FirstSegment(p, kept, complete) \/ NextSegment(p, q, kept, complete)
  PROVE  IngestInv'
<1> DEFINE s == Segment(p, kept, complete)
<1>1. ~Live /\ outputs[p].manifest = {} /\ UNCHANGED <<listing, outputs>> /\ p # 0 /\ 0 \in 0 .. Targets /\ q \in 0 .. Targets
  <2>1. FreeTarget(p) /\ UNCHANGED <<listing, outputs>>
    BY DEF FirstSegment, NextSegment
  <2>2. ingest.phase = "idle" /\ outputs[p].manifest = {}
    BY <2>1, JobIs DEF IngestInv, FreeTarget
  <2>3. p # 0 /\ 0 \in 0 .. Targets /\ q \in 0 .. Targets
    BY IngestBounds
  <2> QED  BY <2>1, <2>2, <2>3 DEF Live
<1>2. /\ s \in HistoryJobs /\ s.previous = 0 /\ s.target = p /\ s.index = 0 /\ s.start = 0 /\ s.cursor = 0 /\ s.asof = 0
      /\ s.phase = "opening" /\ s.rows = {} /\ s.pages = 0 /\ (~complete) \in BOOLEAN
  <2>1. (~complete) \in BOOLEAN
    OBVIOUS
  <2>2. s \in HistoryJobs
    BY <1>1, <2>1 DEF Segment, HistoryJobs, Stops
  <2> QED  BY <2>1, <2>2 DEF Segment
<1> HIDE DEF s
<1>3. CASE FirstSegment(p, kept, complete)
  <2>1. ingest' = s
    BY <1>3 DEF FirstSegment, s
  <2>2. JobInv(s)
    BY <1>1, <1>2 DEF JobInv
  <2> QED  BY <1>1, <1>2, <2>1, <2>2, HistoryGoesOn
<1>4. CASE NextSegment(p, q, kept, complete)
  <2>1. PICK m \in outputs[q].manifest :
          ingest' = [s EXCEPT !.previous = q, !.index = m.index + 1, !.asof = m.asof, !.start = m.cursor,
                       !.cursor = m.cursor, !.more = TRUE]
    BY <1>4 DEF NextSegment, s
  <2>2. q \in Segments /\ q # p
    BY <1>1, <2>1 DEF Segments
  <2>3. m = ManifestOf(q) /\ m \in SegmentManifests /\ q # 0
    BY <2>1, <2>2, SegmentIs DEF IngestInv
  <2>4. m.index \in Nat /\ m.asof \in 1 .. 3 /\ m.cursor \in Nat
    BY <2>3 DEF SegmentManifests
  <2> DEFINE j == [s EXCEPT !.previous = q, !.index = m.index + 1, !.asof = m.asof, !.start = m.cursor,
                     !.cursor = m.cursor, !.more = TRUE]
             n == m.index + 1
             a == m.asof
             c == m.cursor
  <2>5. n \in Nat /\ n # 0 /\ a \in 0 .. 3 /\ a # 0 /\ c \in Nat /\ c <= c
    BY <2>4
  <2>6. j = [s EXCEPT !.previous = q, !.index = n, !.asof = a, !.start = c, !.cursor = c, !.more = TRUE]
    OBVIOUS
  <2> HIDE DEF j, n, a, c
  <2>7. /\ j \in HistoryJobs /\ j.previous = q /\ j.target = p /\ j.index = n /\ j.start = c /\ j.cursor = c
        /\ j.asof = a /\ j.phase = "opening" /\ j.rows = {} /\ j.pages = 0
    BY ONLY <1>1, <1>2, <2>5, <2>6 DEF HistoryJobs
  <2>8. Follows(j.previous, j)
    BY <2>2, <2>3, <2>7 DEF Follows, a, c
  <2>9. JobInv(j)
    BY <1>1, <2>2, <2>3, <2>5, <2>7, <2>8 DEF JobInv
  <2> QED  BY <1>1, <2>1, <2>7, <2>9, HistoryGoesOn DEF j
<1> QED  BY <1>3, <1>4

LEMMA HistoryOpens == ASSUME IngestInv, OpenHistory PROVE IngestInv'
<1> DEFINE j == [ingest EXCEPT !.phase = "pages", !.asof = AsOf(ingest)]
<1>1. /\ ~Live /\ ingest \in HistoryJobs /\ ingest.phase = "opening" /\ listing.cut >= AsOf(ingest)
      /\ UNCHANGED <<listing, outputs>> /\ ingest' = j
  <2>1. ingest.phase = "opening" /\ listing.cut >= AsOf(ingest) /\ UNCHANGED <<listing, outputs>> /\ ingest' = j
    BY DEF OpenHistory
  <2>2. ingest \notin LiveJobs
    BY <2>1 DEF LiveJobs
  <2> QED  BY <2>1, <2>2, JobIs DEF IngestInv
<1>2. JobInv(ingest) /\ listing.cut \in 1 .. 3 /\ ingest.asof \in 0 .. 3
  BY <1>1 DEF IngestInv, HistoryInv, HistoryJobs, IngestType, Listings
<1>3. AsOf(ingest) \in 1 .. 3 /\ ~(listing.cut < AsOf(ingest)) /\ (ingest.asof # 0 => AsOf(ingest) = ingest.asof)
  BY <1>1, <1>2 DEF AsOf
<1>4. PICK asof : asof = AsOf(ingest)
  OBVIOUS
<1>5. j = [ingest EXCEPT !.phase = "pages", !.asof = asof] /\ asof \in 0 .. 3 /\ asof # 0
  BY <1>3, <1>4
<1> HIDE DEF j
<1>6. /\ j \in HistoryJobs /\ j.phase = "pages" /\ j.asof = asof /\ j.previous = ingest.previous
      /\ j.target = ingest.target /\ j.index = ingest.index /\ j.start = ingest.start /\ j.cursor = ingest.cursor
      /\ j.rows = ingest.rows /\ j.pages = ingest.pages /\ j.more = ingest.more
  BY ONLY <1>1, <1>5 DEF HistoryJobs
<1>7. ingest.rows = {} /\ ingest.cursor = ingest.start /\ ingest.pages = 0 /\ ingest.start \in Nat
  BY <1>1, <1>2 DEF JobInv, HistoryJobs
<1>8. Collected(j)
  <2>1. \A i \in SettledBefore(asof) : ~(ingest.start < i /\ i <= ingest.start)
    BY <1>7, LotsAre DEF SettledBefore
  <2> QED  BY <1>6, <1>7, <2>1 DEF Collected, Between
<1>9. Follows(j.previous, j)
  BY <1>1, <1>2, <1>3, <1>4, <1>6 DEF JobInv, Follows
<1>10. JobInv(j)
  BY <1>1, <1>2, <1>3, <1>4, <1>5, <1>6, <1>7, <1>8, <1>9 DEF JobInv
<1> QED  BY <1>1, <1>6, <1>10, HistoryGoesOn

LEMMA HistoryReads == ASSUME IngestInv, HistoryRead PROVE IngestInv'
<1>1. ~Live /\ ingest \in HistoryJobs /\ ingest.phase = "pages" /\ UNCHANGED <<listing, outputs>>
  <2>1. ingest.phase = "pages" /\ ingest.kind = "history" /\ UNCHANGED <<listing, outputs>>
    BY DEF HistoryRead, Reading
  <2> QED  BY <2>1, JobIs DEF IngestInv, Live
<1>2. JobInv(ingest) /\ listing.cut \in 1 .. 3 /\ ingest.asof \in 0 .. 3 /\ ingest.asof # 0 /\ ingest.cursor \in Nat
      /\ ingest.start \in Nat /\ ingest.pages \in Nat /\ ingest.start <= ingest.cursor
      /\ Follows(ingest.previous, ingest) /\ outputs[ingest.target].manifest = {}
  BY <1>1 DEF IngestInv, HistoryInv, HistoryJobs, IngestType, Listings, JobInv
<1>3. \A i \in Lots : listing.settle[i] \in 1 .. 2
  BY DEF IngestInv, IngestType, Listings
<1> DEFINE lot == PageOf(Archive, ingest.cursor)
           capped == [ingest EXCEPT !.phase = "closing", !.stop = "max_pages_reached"]
           after == [ingest EXCEPT !.pages = @ + 1, !.rows = @ \cup (lot.rows \cap SettledBefore(ingest.asof)),
                      !.cursor = lot.cursor, !.more = lot.more,
                      !.phase = IF lot.more THEN @ ELSE "closing",
                      !.stop = IF lot.more THEN @ ELSE "cursor_exhausted"]
<1>4. (Capped /\ ingest' = capped) \/ (~Capped /\ ingest' = after)
  BY DEF HistoryRead
<1>5. CASE Capped /\ ingest' = capped
  <2>1. /\ capped \in HistoryJobs /\ capped.phase = "closing" /\ capped.asof = ingest.asof
        /\ capped.previous = ingest.previous /\ capped.target = ingest.target /\ capped.index = ingest.index
        /\ capped.start = ingest.start /\ capped.cursor = ingest.cursor /\ capped.rows = ingest.rows
        /\ capped.more = ingest.more
    BY <1>1 DEF HistoryJobs, Stops
  <2> HIDE DEF capped
  <2>2. ingest.more
    BY <1>1, <1>2, <1>5, IngestBounds DEF Capped, JobInv
  <2>3. Collected(ingest) => Collected(capped)
    BY <2>1, <2>2 DEF Collected
  <2>4. Follows(capped.previous, capped)
    BY <1>2, <2>1 DEF Follows
  <2>5. JobInv(capped)
    BY <1>1, <1>2, <2>1, <2>3, <2>4 DEF JobInv
  <2> QED  BY <1>1, <1>5, <2>1, <2>5, HistoryGoesOn
<1>6. CASE ~Capped /\ ingest' = after
  <2>1. PICK page : page = lot
    OBVIOUS
  <2>2. Archive \in SUBSET Lots /\ SettledBefore(ingest.asof) \subseteq Lots
    BY DEF Archive, SettledBefore
  <2>3. /\ page.cursor \in Nat /\ ingest.cursor <= page.cursor /\ page.more \in BOOLEAN
        /\ page.rows = {i \in Archive : ingest.cursor < i /\ i <= page.cursor}
        /\ ~page.more => \A i \in Archive : i <= page.cursor
    <3>1. PICK from \in SUBSET Lots, cursor \in Nat : from = Archive /\ cursor = ingest.cursor
      BY <1>2, <2>2
    <3>2. page = PageOf(from, cursor)
      BY <2>1, <3>1
    <3>3. /\ page.cursor \in Nat /\ cursor <= page.cursor /\ page.more \in BOOLEAN
          /\ page.rows = {i \in from : cursor < i /\ i <= page.cursor}
          /\ ~page.more => \A i \in from : i <= page.cursor
      BY <3>2, PageOfIs
    <3> QED  BY <3>1, <3>3
  <2>4. PICK rows : rows = ingest.rows \cup (page.rows \cap SettledBefore(ingest.asof))
    OBVIOUS
  <2>5. PICK more, end : more = page.more /\ end = page.cursor
    OBVIOUS
  <2>6. rows \in SUBSET Lots /\ more \in BOOLEAN /\ end \in Nat /\ ingest.pages + 1 \in Nat /\ ingest.pages + 1 # 0
    BY <1>1, <1>2, <2>2, <2>3, <2>4, <2>5 DEF HistoryJobs
  <2>7. after = [ingest EXCEPT !.pages = @ + 1, !.rows = rows, !.cursor = end, !.more = more,
                  !.phase = IF more THEN @ ELSE "closing", !.stop = IF more THEN @ ELSE "cursor_exhausted"]
    BY <2>1, <2>4, <2>5
  <2> HIDE DEF after, lot
  <2>8. /\ after \in HistoryJobs /\ after.phase = (IF more THEN "pages" ELSE "closing") /\ after.asof = ingest.asof
        /\ after.previous = ingest.previous /\ after.target = ingest.target /\ after.index = ingest.index
        /\ after.start = ingest.start /\ after.cursor = end /\ after.rows = rows /\ after.more = more
    BY ONLY <1>1, <2>6, <2>7 DEF HistoryJobs, Stops
  <2>9. ASSUME ~(listing.cut < ingest.asof), Collected(ingest) PROVE Collected(after)
    <3>1. SettledBefore(ingest.asof) \subseteq Archive
      BY <1>2, <1>3, <2>9 DEF SettledBefore, Archive
    <3>2. ingest.rows = Between(ingest.start, ingest.cursor, ingest.asof)
      BY <2>9 DEF Collected
    <3>3. \A i \in SettledBefore(ingest.asof) : i \in Nat
      BY LotsAre DEF SettledBefore
    <3>4. ASSUME NEW i \in SettledBefore(ingest.asof)
          PROVE  i \in rows <=> ingest.start < i /\ i <= end
      <4>1. i \in ingest.rows <=> ingest.start < i /\ i <= ingest.cursor
        BY <3>2 DEF Between
      <4>2. i \in page.rows <=> ingest.cursor < i /\ i <= end
        BY <2>3, <2>5, <3>1
      <4>3. i \in rows <=> i \in ingest.rows \/ i \in page.rows
        BY <2>4
      <4> QED  BY <1>2, <2>3, <2>5, <3>3, <4>1, <4>2, <4>3
    <3>5. rows \subseteq SettledBefore(ingest.asof)
      BY <2>4, <3>2 DEF Between
    <3>6. rows = Between(ingest.start, end, ingest.asof)
      BY <3>4, <3>5 DEF Between
    <3>7. ~more => Exhausted(end, ingest.asof)
      BY <2>3, <2>5, <3>1 DEF Exhausted
    <3> QED  BY <2>8, <3>6, <3>7 DEF Collected
  <2>10. IF listing.cut < ingest.asof THEN listing.retreated ELSE Collected(ingest)
    BY <1>1, <1>2 DEF JobInv
  <2>11. ingest.start <= end
    BY <1>2, <2>3, <2>5
  <2>12. Follows(after.previous, after)
    BY <1>2, <2>8 DEF Follows
  <2>13. /\ after.phase \in {"pages", "closing"} /\ after.phase # "opening" /\ after.phase # "unstaging"
         /\ after.phase \notin {"bundle", "manifest", "unstaging"} /\ (after.phase = "pages" => after.more)
    BY <2>6, <2>8
  <2>14. ingest.previous # ingest.target /\ (ingest.index = 0 => ingest.previous = 0)
    BY <1>2 DEF JobInv
  <2>15. JobInv(after)
    BY ONLY <1>2, <2>8, <2>9, <2>10, <2>11, <2>12, <2>13, <2>14 DEF JobInv
  <2> QED  BY <1>1, <1>6, <2>8, <2>15, HistoryGoesOn
<1> QED  BY <1>4, <1>5, <1>6

-----------------------------------------------------------------------------
(* What is published. *)

LEMMA FilesAre ==
  ASSUME NEW f \in Files
  PROVE  /\ NoFiles \in Files /\ NoFiles.manifest = {} /\ NoFiles.bundle = {}
         /\ \A rows \in SUBSET Lots :
              /\ [f EXCEPT !.out = {rows}] \in Files /\ [f EXCEPT !.out = {rows}].out = {rows}
              /\ [f EXCEPT !.out = {rows}].bundle = f.bundle /\ [f EXCEPT !.out = {rows}].manifest = f.manifest
         /\ \A b \in Bundles :
              /\ [f EXCEPT !.bundle = {b}] \in Files /\ [f EXCEPT !.bundle = {b}].out = f.out
              /\ [f EXCEPT !.bundle = {b}].bundle = {b} /\ [f EXCEPT !.bundle = {b}].manifest = f.manifest
         /\ \A m \in SegmentManifests \cup LiveManifests :
              /\ [f EXCEPT !.manifest = {m}] \in Files /\ [f EXCEPT !.manifest = {m}].out = f.out
              /\ [f EXCEPT !.manifest = {m}].bundle = f.bundle /\ [f EXCEPT !.manifest = {m}].manifest = {m}
<1>1. NoFiles \in Files /\ NoFiles.manifest = {} /\ NoFiles.bundle = {}
  BY DEF NoFiles, Files
<1>2. ASSUME NEW rows \in SUBSET Lots
      PROVE  /\ [f EXCEPT !.out = {rows}] \in Files /\ [f EXCEPT !.out = {rows}].out = {rows}
             /\ [f EXCEPT !.out = {rows}].bundle = f.bundle /\ [f EXCEPT !.out = {rows}].manifest = f.manifest
  BY DEF Files
<1>3. ASSUME NEW b \in Bundles
      PROVE  /\ [f EXCEPT !.bundle = {b}] \in Files /\ [f EXCEPT !.bundle = {b}].out = f.out
             /\ [f EXCEPT !.bundle = {b}].bundle = {b} /\ [f EXCEPT !.bundle = {b}].manifest = f.manifest
  BY DEF Files
<1>4. ASSUME NEW m \in SegmentManifests \cup LiveManifests
      PROVE  /\ [f EXCEPT !.manifest = {m}] \in Files /\ [f EXCEPT !.manifest = {m}].out = f.out
             /\ [f EXCEPT !.manifest = {m}].bundle = f.bundle /\ [f EXCEPT !.manifest = {m}].manifest = {m}
  BY DEF Files
<1> QED  BY <1>1, <1>2, <1>3, <1>4

\* What a write of one target's files changes.
LEMMA Written ==
  ASSUME IngestInv, listing' = listing, NEW p \in 0 .. Targets, NEW g \in Files, outputs' = [outputs EXCEPT ![p] = g],
         p # 0 => g.manifest \subseteq SegmentManifests,
         \A b \in g.bundle : Authoritative(b) => b.due \subseteq b.ids,
         NEW j, ingest' = j, j = NoIngest \/ j \in LiveJobs \/ j \in HistoryJobs, SegmentsInv',
         j \in LiveJobs => /\ ingest \in LiveJobs /\ ingest.phase # "pages" /\ j.phase # "pages"
                           /\ j = [ingest EXCEPT !.phase = j.phase],
         j \in HistoryJobs => JobInv(ingest)'
  PROVE  IngestInv'
<1> USE DEF IngestInv
<1>1. \A q \in 0 .. Targets : outputs'[q] = IF q = p THEN g ELSE outputs[q]
  BY DEF IngestType
<1>2. IngestType'
  <2>1. outputs' \in [0 .. Targets -> Files]
    BY DEF IngestType
  <2>2. \A q \in 1 .. Targets : q \in 0 .. Targets /\ q # 0
    BY IngestBounds
  <2>3. \A q \in 1 .. Targets : outputs'[q].manifest \subseteq SegmentManifests
    BY <1>1, <2>2 DEF IngestType
  <2> QED  BY <2>1, <2>3 DEF IngestType
<1>3. BundlesInv'
  BY <1>1 DEF BundlesInv, Authoritative
<1>4. HistoryInv'
  BY DEF HistoryInv
<1>5. LiveInv'
  <2>1. listing'.steady \subseteq Held' /\ listing'.kept \subseteq Held'
    BY DEF LiveInv, Held
  <2>2. ASSUME j \in LiveJobs
        PROVE  /\ j.kind = "kalshi" => Len(j.lanes) = 1
               /\ Complete(ingest)' /\ Authoritative(Bundle(ingest))' => DueRows' \subseteq j.rows
    <3>1. /\ ingest \in LiveJobs /\ ingest.phase # "pages" /\ j.kind = ingest.kind /\ j.lanes = ingest.lanes
          /\ j.stop = ingest.stop /\ j.more = ingest.more /\ j.errors = ingest.errors /\ j.rows = ingest.rows
          /\ j.whole = ingest.whole
      BY <2>2 DEF LiveJobs
    <3>2. j.phase # "idle" /\ ingest.phase # "idle" /\ j.kind # "history"
      BY <2>2, <3>1 DEF LiveJobs
    <3>3. DueRows' = DueRows
      BY <3>1, <3>2 DEF DueRows, Live, LotsIn
    <3>4. Complete(ingest)' = Complete(ingest)
      BY <3>1, <3>2 DEF Complete, LiveJobs
    <3>5. Authoritative(Bundle(ingest))' = Authoritative(Bundle(ingest))
      BY <3>1, <3>4 DEF Authoritative, Bundle
    <3> QED  BY <3>1, <3>3, <3>4, <3>5 DEF LiveInv
  <2> QED  BY <2>1, <2>2 DEF LiveInv
<1> QED  BY <1>2, <1>3, <1>4, <1>5

\* What a segment publishes before its manifest.
LEMMA HistoryWrites ==
  ASSUME IngestInv, ingest \in HistoryJobs, ingest.phase \in {"closing", "bundle"}, listing' = listing,
         NEW g \in Files, g.manifest = outputs[ingest.target].manifest, g.out = {ingest.rows},
         outputs' = [outputs EXCEPT ![ingest.target] = g],
         \A b \in g.bundle : Authoritative(b) => b.due \subseteq b.ids,
         NEW next \in {"bundle", "manifest"}, ingest' = [ingest EXCEPT !.phase = next], Collected(ingest),
         next # "bundle" /\ ingest.evidence => \E b \in g.bundle : b.ids = ingest.rows
  PROVE  IngestInv'
<1> DEFINE p == ingest.target
           j == [ingest EXCEPT !.phase = next]
<1>1. JobInv(ingest) /\ p \in 1 .. Targets /\ p \in 0 .. Targets /\ p # 0
  <2>1. p \in 1 .. Targets
    BY DEF HistoryJobs
  <2>2. p \in 0 .. Targets /\ p # 0
    BY ONLY <2>1, IngestBounds
  <2> QED  BY <2>1, <2>2 DEF IngestInv, HistoryInv
<1>2. outputs[p].manifest = {} /\ p \notin Segments
  BY <1>1 DEF JobInv, Segments
<1>3. \A q \in 0 .. Targets : outputs'[q] = IF q = p THEN g ELSE outputs[q]
  BY DEF IngestInv, IngestType
<1>4. SegmentsKept
  <2>1. \A q \in 1 .. Targets : outputs'[q].manifest = outputs[q].manifest
    BY <1>3, IngestBounds
  <2>2. ASSUME NEW q \in Segments PROVE outputs'[q] = outputs[q]
    <3>1. q # p /\ q \in 1 .. Targets
      BY <1>2 DEF Segments
    <3>2. q \in 0 .. Targets
      BY <3>1, IngestBounds
    <3> QED  BY <1>3, <3>1, <3>2
  <2> QED  BY <2>1, <2>2 DEF SegmentsKept
<1>5. SegmentsInv' /\ Segments' = Segments /\ \A q \in 1 .. Targets : ManifestOf(q)' = ManifestOf(q)
  BY <1>4, SegmentsStay DEF IngestInv
<1>6. /\ j \in HistoryJobs /\ j.phase = next /\ j.previous = ingest.previous /\ j.target = ingest.target
      /\ j.start = ingest.start /\ j.cursor = ingest.cursor /\ j.asof = ingest.asof /\ j.rows = ingest.rows
      /\ j.index = ingest.index /\ j.evidence = ingest.evidence /\ j.more = ingest.more
  BY DEF HistoryJobs
<1> HIDE DEF j
<1>7. JobInv(ingest)'
  <2>1. Follows(ingest.previous, ingest)'
    <3>1. Follows(ingest.previous, ingest)
      BY <1>1 DEF JobInv
    <3>2. \A q \in Segments : q \in 1 .. Targets
      BY DEF Segments
    <3> QED  BY <1>5, <1>6, <3>1, <3>2 DEF Follows, j
  <2>2. Collected(ingest)'
    <3>1. ingest.phase # "pages"
      OBVIOUS
    <3> QED  BY <1>6, <3>1 DEF Collected, Between, Exhausted, SettledBefore, j
  <2>3. outputs'[p] = g
    BY <1>1, <1>3
  <2>4. Linked(ingest)'
    BY <1>6, <2>2, <2>3 DEF Linked, j
  <2>5. outputs'[p].manifest = {}
    BY <1>2, <2>3
  <2>6. ingest' = j /\ j.phase \in {"bundle", "manifest"}
    BY <1>6 DEF j
  <2>7. /\ ingest.start <= ingest.cursor /\ ingest.previous # ingest.target
        /\ ingest.index = 0 => ingest.previous = 0
        /\ ingest.asof # 0
    BY <1>1 DEF JobInv
  <2> QED  BY <1>6, <2>1, <2>4, <2>5, <2>6, <2>7 DEF JobInv
<1>8. j \notin LiveJobs
  BY <1>6 DEF HistoryJobs, LiveJobs
<1>9. g.manifest \subseteq SegmentManifests
  BY <1>2
<1>10. PICK k : k = j
  OBVIOUS
<1>11. ingest' = k /\ k \in HistoryJobs /\ k \notin LiveJobs
  BY <1>6, <1>8, <1>10 DEF j
<1> QED  BY <1>1, <1>5, <1>7, <1>9, <1>11, Written

LEMMA LinkOutputs == ASSUME IngestInv, LinkOutput PROVE IngestInv'
<1> DEFINE p == ingest.target
           g == [outputs[p] EXCEPT !.out = {ingest.rows}]
<1>1. /\ ingest.phase = "closing" /\ ~(listing.cut < ingest.asof) /\ listing' = listing
      /\ outputs' = [outputs EXCEPT ![p].out = {ingest.rows}]
      /\ ingest' = [ingest EXCEPT !.phase = IF ingest.evidence THEN "bundle" ELSE "manifest"]
  <2>1. /\ ingest.phase = "closing" /\ listing.cut >= ingest.asof /\ listing' = listing
        /\ outputs' = [outputs EXCEPT ![p].out = {ingest.rows}]
        /\ ingest' = [ingest EXCEPT !.phase = IF ingest.evidence THEN "bundle" ELSE "manifest"]
    BY DEF LinkOutput
  <2>2. ingest \in HistoryJobs
    <3>1. ingest \notin LiveJobs /\ ingest.phase # "idle"
      BY <2>1 DEF LiveJobs
    <3> QED  BY <3>1, JobIs DEF IngestInv
  <2>3. ingest.asof \in 0 .. 3 /\ listing.cut \in 1 .. 3
    BY <2>2 DEF IngestInv, IngestType, Listings, HistoryJobs
  <2> QED  BY <2>1, <2>3
<1>2. ingest \in HistoryJobs
  <2>1. ingest \notin LiveJobs /\ ingest.phase # "idle"
    BY <1>1 DEF LiveJobs
  <2> QED  BY <2>1, JobIs DEF IngestInv
<1>3. p \in 1 .. Targets /\ p \in 0 .. Targets /\ ingest.rows \in SUBSET Lots /\ ingest.evidence \in BOOLEAN
  <2>1. p \in 1 .. Targets /\ ingest.rows \in SUBSET Lots /\ ingest.evidence \in BOOLEAN
    BY <1>2 DEF HistoryJobs
  <2> QED  BY ONLY <2>1, IngestBounds
<1>4. Collected(ingest)
  BY <1>1, <1>2 DEF IngestInv, HistoryInv, JobInv
<1>5. outputs[p] \in Files /\ \A b \in outputs[p].bundle : Authoritative(b) => b.due \subseteq b.ids
  BY <1>3 DEF IngestInv, IngestType, BundlesInv
<1>6. g \in Files /\ g.out = {ingest.rows} /\ g.bundle = outputs[p].bundle /\ g.manifest = outputs[p].manifest
  BY <1>3, <1>5, FilesAre
<1>7. outputs' = [outputs EXCEPT ![p] = g]
  BY <1>1
<1> HIDE DEF g
<1>8. PICK next \in {"bundle", "manifest"} : next = IF ingest.evidence THEN "bundle" ELSE "manifest"
  OBVIOUS
<1>9. PICK h \in Files : h = g
  BY <1>6
<1>10. ingest' = [ingest EXCEPT !.phase = next] /\ ~(next # "bundle" /\ ingest.evidence)
  BY <1>1, <1>8
<1> QED  BY <1>1, <1>2, <1>4, <1>5, <1>6, <1>7, <1>9, <1>10, HistoryWrites

LEMMA BundleOf ==
  ASSUME IngestInv, ingest.phase = "bundle"
  PROVE  /\ Bundle(ingest) \in Bundles /\ Bundle(ingest).ids = ingest.rows /\ Bundle(ingest).due = DueRows
         /\ Authoritative(Bundle(ingest)) => DueRows \subseteq ingest.rows
<1>1. ingest \in LiveJobs \/ ingest \in HistoryJobs
  BY JobIs DEF IngestInv, Live
<1>2. /\ ingest.stop \in Stops /\ ingest.more \in BOOLEAN /\ ingest.errors \in BOOLEAN /\ ingest.rows \in SUBSET Lots
      /\ ingest.kind \in {"offset", "keyset", "kalshi", "history"}
  BY <1>1 DEF LiveJobs, HistoryJobs
<1>3. Complete(ingest) \in BOOLEAN
  <2>1. /\ (ingest.whole = Len(ingest.lanes)) \in BOOLEAN /\ (ingest.stop \in {"empty_page", "cursor_exhausted"}) \in BOOLEAN
        /\ (ingest.index = 0 /\ ingest.stop = "cursor_exhausted") \in BOOLEAN
    OBVIOUS
  <2>2. CASE ingest.kind = "offset"
    BY <2>2 DEF Complete
  <2>3. CASE ingest.kind = "keyset"
    BY <2>1, <2>3 DEF Complete
  <2>4. CASE ingest.kind = "kalshi"
    BY <2>1, <2>4 DEF Complete
  <2>5. CASE ingest.kind = "history"
    BY <2>1, <2>5 DEF Complete
  <2> QED  BY <1>2, <2>2, <2>3, <2>4, <2>5
<1>4. DueRows \in SUBSET Lots
  BY DEF IngestInv, IngestType, Listings, DueRows, SettledBefore, LotsIn
<1>5. PICK b : b = Bundle(ingest)
  OBVIOUS
<1>6. /\ b.ids = ingest.rows /\ b.artifact = ingest.rows /\ b.due = DueRows /\ b.complete = Complete(ingest)
      /\ b.stop = ingest.stop /\ b.more = ingest.more /\ b.errors = ingest.errors
  BY <1>5 DEF Bundle
<1>7. Bundle(ingest) \in Bundles
  <2>1. PICK c \in BOOLEAN, owed \in SUBSET Lots : c = Complete(ingest) /\ owed = DueRows
    BY <1>3, <1>4
  <2>2. PICK a : a = Authoritative([complete |-> c, stop |-> ingest.stop, more |-> ingest.more, errors |-> ingest.errors])
    OBVIOUS
  <2>3. a \in BOOLEAN
    BY <2>2 DEF Authoritative
  <2>4. Bundle(ingest) = [complete |-> c, stop |-> ingest.stop, more |-> ingest.more, errors |-> ingest.errors,
                          authoritative |-> a, ids |-> ingest.rows, artifact |-> ingest.rows, due |-> owed]
    BY <2>1, <2>2 DEF Bundle
  <2> QED  BY ONLY <1>2, <2>3, <2>4, c \in BOOLEAN, owed \in SUBSET Lots DEF Bundles
<1>8. ASSUME Authoritative(Bundle(ingest)) PROVE DueRows \subseteq ingest.rows
  <2>1. Complete(ingest) /\ ingest.stop \in {"cursor_exhausted", "empty_page"} /\ ~ingest.more
    BY <1>8, AuthorityIs
  <2>2. CASE ingest \in LiveJobs
    BY <1>8, <2>1, <2>2 DEF IngestInv, LiveInv
  <2>3. CASE ingest \in HistoryJobs
    <3>1. ingest.kind = "history" /\ ~Live
      BY <2>3, JobIs DEF IngestInv, HistoryJobs
    <3>2. ingest.index = 0
      BY <2>1, <3>1 DEF Complete
    <3>3. JobInv(ingest)
      BY <2>3 DEF IngestInv, HistoryInv
    <3>4. ingest.start = 0 /\ Collected(ingest)
      BY <3>2, <3>3 DEF JobInv, Follows, Linked
    <3>5. DueRows = SettledBefore(ingest.asof)
      BY <3>1 DEF DueRows
    <3>6. \A i \in SettledBefore(ingest.asof) : 0 < i /\ i <= ingest.cursor
      BY <2>1, <3>4, LotsAre DEF Collected, Exhausted, SettledBefore
    <3> QED  BY <3>4, <3>5, <3>6 DEF Collected, Between
  <2> QED  BY <1>1, <2>2, <2>3
<1> QED  BY <1>5, <1>6, <1>7, <1>8

LEMMA BundleWritten == ASSUME IngestInv, BundleIs(Bundle(ingest)) PROVE IngestInv'
<1>1. /\ ingest.phase = "bundle" /\ listing' = listing
      /\ outputs' = [outputs EXCEPT ![ingest.target].bundle = {Bundle(ingest)}]
      /\ ingest' = [ingest EXCEPT !.phase = "manifest"]
  BY DEF BundleIs
<1>2. PICK b \in Bundles : b = Bundle(ingest)
  BY <1>1, BundleOf
<1>3. b.ids = ingest.rows /\ (Authoritative(b) => b.due \subseteq b.ids)
  BY <1>1, <1>2, BundleOf
<1> DEFINE p == ingest.target
           g == [outputs[p] EXCEPT !.bundle = {b}]
<1>4. ingest \in LiveJobs \/ ingest \in HistoryJobs
  BY <1>1, JobIs DEF IngestInv, Live
<1>5. p \in 0 .. Targets
  <2>1. p = 0 \/ p \in 1 .. Targets
    BY <1>4 DEF LiveJobs, HistoryJobs
  <2> QED  BY <2>1, IngestBounds
<1>6. outputs[p] \in Files /\ outputs' = [outputs EXCEPT ![p] = g]
  BY <1>1, <1>2, <1>5 DEF IngestInv, IngestType
<1>7. g \in Files /\ g.out = outputs[p].out /\ g.bundle = {b} /\ g.manifest = outputs[p].manifest
  BY <1>6, FilesAre
<1> HIDE DEF g
<1>8. CASE ingest \in LiveJobs
  <2>1. p = 0 /\ \A q \in 1 .. Targets : q # 0 /\ q \in 0 .. Targets
    BY <1>8, IngestBounds DEF LiveJobs
  <2>2. SegmentsKept
    <3>1. \A q \in 1 .. Targets : outputs'[q] = outputs[q]
      BY <1>6, <2>1 DEF IngestInv, IngestType
    <3> QED  BY <1>1, <3>1 DEF SegmentsKept, Segments
  <2>3. SegmentsInv'
    BY <2>2, SegmentsStay DEF IngestInv
  <2>4. PICK j : j = [ingest EXCEPT !.phase = "manifest"]
    OBVIOUS
  <2>5. j \in LiveJobs /\ j.phase = "manifest" /\ j \notin HistoryJobs
    BY <1>8, <2>4 DEF LiveJobs, HistoryJobs
  <2>6. PICK h \in Files : h = g
    BY <1>7
  <2>7. ingest' = j /\ j = [ingest EXCEPT !.phase = j.phase] /\ ingest.phase # "pages" /\ j.phase # "pages"
    BY <1>1, <2>4, <2>5
  <2>8. outputs' = [outputs EXCEPT ![0] = h] /\ 0 \in 0 .. Targets /\ \A a \in h.bundle : Authoritative(a) => a.due \subseteq a.ids
    BY <1>3, <1>5, <1>6, <1>7, <2>1, <2>6
  <2> QED  BY <1>1, <1>8, <2>3, <2>5, <2>7, <2>8, Written
<1>9. CASE ingest \in HistoryJobs
  <2>1. Linked(ingest)
    BY <1>1, <1>9 DEF IngestInv, HistoryInv, JobInv
  <2>2. Collected(ingest) /\ g.out = {ingest.rows}
    BY <1>7, <2>1 DEF Linked
  <2>3. PICK h \in Files : h = g
    BY <1>7
  <2>4. /\ \A a \in h.bundle : Authoritative(a) => a.due \subseteq a.ids
        /\ \E a \in h.bundle : a.ids = ingest.rows
    BY <1>3, <1>7, <2>3
  <2>5. PICK next \in {"bundle", "manifest"} : next = "manifest"
    OBVIOUS
  <2> QED  BY <1>1, <1>6, <1>7, <1>9, <2>2, <2>3, <2>4, <2>5, HistoryWrites
<1> QED  BY <1>4, <1>8, <1>9

LEMMA ReplaceOutputs == ASSUME IngestInv, ReplaceOutput PROVE IngestInv'
<1>1. /\ Live /\ ingest.phase = "out" /\ listing' = listing
      /\ outputs' = [outputs EXCEPT ![0].out = {ingest.rows}]
      /\ ingest' = [ingest EXCEPT !.phase = IF ingest.evidence THEN "bundle" ELSE "manifest"]
  BY DEF ReplaceOutput
<1>2. ingest \in LiveJobs /\ ingest.rows \in SUBSET Lots
  BY <1>1, JobIs DEF IngestInv, LiveJobs
<1> DEFINE g == [outputs[0] EXCEPT !.out = {ingest.rows}]
<1>3. 0 \in 0 .. Targets /\ \A q \in 1 .. Targets : q # 0 /\ q \in 0 .. Targets
  BY IngestBounds
<1>4. /\ outputs[0] \in Files /\ outputs' = [outputs EXCEPT ![0] = g]
      /\ \A b \in outputs[0].bundle : Authoritative(b) => b.due \subseteq b.ids
  BY <1>1, <1>3 DEF IngestInv, IngestType, BundlesInv
<1>5. g \in Files /\ g.bundle = outputs[0].bundle
  BY <1>2, <1>4, FilesAre
<1> HIDE DEF g
<1>6. SegmentsKept
  <2>1. \A q \in 1 .. Targets : outputs'[q] = outputs[q]
    BY <1>3, <1>4 DEF IngestInv, IngestType
  <2> QED  BY <1>1, <2>1 DEF SegmentsKept, Segments
<1>7. SegmentsInv'
  BY <1>6, SegmentsStay DEF IngestInv
<1>8. PICK next \in {"bundle", "manifest"} : next = IF ingest.evidence THEN "bundle" ELSE "manifest"
  OBVIOUS
<1>9. PICK j : j = [ingest EXCEPT !.phase = next]
  OBVIOUS
<1>10. j \in LiveJobs /\ j.phase = next /\ j.phase # "pages" /\ j \notin HistoryJobs
  BY <1>2, <1>9 DEF LiveJobs, HistoryJobs
<1>11. ingest' = j /\ j = [ingest EXCEPT !.phase = j.phase] /\ ingest.phase # "pages"
  BY <1>1, <1>8, <1>9, <1>10
<1> QED  BY <1>1, <1>2, <1>3, <1>4, <1>5, <1>7, <1>10, <1>11, Written

LEMMA ReplaceManifests == ASSUME IngestInv, ReplaceManifest PROVE IngestInv'
<1>1. /\ Live /\ ingest.phase = "manifest" /\ listing' = listing /\ ingest' = NoIngest
      /\ outputs' = [outputs EXCEPT ![0].manifest = IF ingest.kind = "offset" THEN @ ELSE {LiveManifest}]
  BY DEF ReplaceManifest
<1>2. ingest \in LiveJobs /\ ingest.rows \in SUBSET Lots /\ ingest.stop \in Stops /\ ingest.kind \in {"offset", "keyset", "kalshi"}
  BY <1>1, JobIs DEF IngestInv, LiveJobs
<1>3. 0 \in 0 .. Targets /\ \A q \in 1 .. Targets : q # 0 /\ q \in 0 .. Targets
  BY IngestBounds
<1>4. outputs[0] \in Files /\ \A b \in outputs[0].bundle : Authoritative(b) => b.due \subseteq b.ids
  BY <1>3 DEF IngestInv, IngestType, BundlesInv
<1>5. LiveManifest \in LiveManifests
  <2>1. /\ (ingest.whole = Len(ingest.lanes)) \in BOOLEAN
        /\ (ingest.stop \in {"empty_page", "cursor_exhausted"}) \in BOOLEAN
    OBVIOUS
  <2>2. CASE ingest.kind = "offset"
    BY <1>2, <2>2 DEF Complete, LiveManifest, LiveManifests
  <2>3. CASE ingest.kind = "keyset"
    BY <1>2, <2>1, <2>3 DEF Complete, LiveManifest, LiveManifests
  <2>4. CASE ingest.kind = "kalshi"
    BY <1>2, <2>1, <2>4 DEF Complete, LiveManifest, LiveManifests
  <2> QED  BY <1>2, <2>2, <2>3, <2>4
<1>6. PICK m \in LiveManifests : m = LiveManifest
  BY <1>5
<1>7. PICK g \in Files : g.bundle = outputs[0].bundle /\ outputs' = [outputs EXCEPT ![0] = g]
  <2>1. CASE ingest.kind = "offset"
    <3>1. outputs' = [outputs EXCEPT ![0] = [outputs[0] EXCEPT !.manifest = outputs[0].manifest]]
      BY <1>1, <2>1
    <3>2. [outputs[0] EXCEPT !.manifest = outputs[0].manifest] = outputs[0]
      BY <1>4 DEF Files
    <3> QED  BY <1>4, <3>1, <3>2
  <2>2. CASE ingest.kind # "offset"
    <3>1. outputs' = [outputs EXCEPT ![0] = [outputs[0] EXCEPT !.manifest = {m}]]
      BY <1>1, <1>6, <2>2
    <3>2. [outputs[0] EXCEPT !.manifest = {m}] \in Files /\ [outputs[0] EXCEPT !.manifest = {m}].bundle = outputs[0].bundle
      BY <1>4, FilesAre
    <3> QED  BY <3>1, <3>2
  <2> QED  BY <2>1, <2>2
<1>8. SegmentsKept
  <2>1. \A q \in 1 .. Targets : outputs'[q] = outputs[q]
    BY <1>3, <1>7 DEF IngestInv, IngestType
  <2> QED  BY <1>1, <2>1 DEF SegmentsKept, Segments
<1>9. SegmentsInv'
  BY <1>8, SegmentsStay DEF IngestInv
<1>10. NoIngest \notin LiveJobs /\ NoIngest \notin HistoryJobs
  BY JobIs DEF IngestInv
<1>11. \A b \in g.bundle : Authoritative(b) => b.due \subseteq b.ids
  BY <1>4, <1>7
<1> QED  BY <1>1, <1>3, <1>7, <1>9, <1>10, <1>11, Written

LEMMA HistoryFailed == ASSUME IngestInv, HistoryFails PROVE IngestInv'
<1> DEFINE p == ingest.target
<1>1. listing' = listing /\ ingest' = NoIngest /\ outputs' = [outputs EXCEPT ![p] = NoFiles]
  BY DEF HistoryFails, Undone
<1>2. ingest \in HistoryJobs
  BY JobIs DEF IngestInv, HistoryFails
<1>3. p \in 1 .. Targets
  BY <1>2 DEF HistoryJobs
<1>4. p \in 0 .. Targets /\ p # 0
  BY <1>3, IngestBounds
<1>5. \A q \in Segments : ManifestOf(q).previous # p
  <2>1. JobInv(ingest)
    BY <1>2 DEF IngestInv, HistoryInv
  <2>2. CASE ingest.phase = "unstaging"
    BY <2>1, <2>2 DEF JobInv
  <2>3. CASE ingest.phase # "unstaging"
    <3>1. p \notin Segments
      BY <2>1, <2>3 DEF JobInv, Segments
    <3>2. \A q \in Segments : ManifestOf(q).previous \in Segments \cup {0}
      BY SegmentIs DEF IngestInv
    <3> QED  BY <1>4, <3>1, <3>2
  <2> QED  BY <2>2, <2>3
<1>6. SegmentsInv'
  BY <1>1, <1>3, <1>5, SegmentGone DEF IngestInv
<1>7. NoIngest \notin LiveJobs /\ NoIngest \notin HistoryJobs
  BY JobIs DEF IngestInv
<1>8. NoFiles \in Files /\ NoFiles.manifest = {} /\ NoFiles.bundle = {}
  BY DEF NoFiles, Files
<1> HIDE DEF p
<1>9. PICK g \in Files : g = NoFiles
  BY <1>8
<1>10. g.manifest \subseteq SegmentManifests /\ \A b \in g.bundle : Authoritative(b) => b.due \subseteq b.ids
  BY <1>8, <1>9
<1>11. PICK q \in 0 .. Targets : q = p
  BY <1>4
<1> QED  BY <1>1, <1>6, <1>7, <1>9, <1>10, <1>11, Written DEF p

LEMMA JobEnds == ASSUME IngestInv, HistoryEnds \/ JobDies PROVE IngestInv'
<1> USE DEF IngestInv
<1>1. ingest' = NoIngest /\ listing' = listing /\ outputs' = outputs
  BY DEF HistoryEnds, JobDies
<1>2. IngestType' /\ BundlesInv' /\ Held' = Held
  BY <1>1 DEF IngestType, BundlesInv, Held, Authoritative
<1>3. SegmentsKept
  BY <1>1 DEF SegmentsKept
<1>4. SegmentsInv'
  BY <1>3, SegmentsStay
<1>5. NoIngest \notin LiveJobs /\ NoIngest \notin HistoryJobs
  BY JobIs
<1>6. HistoryInv' /\ LiveInv'
  BY <1>1, <1>2, <1>5 DEF HistoryInv, LiveInv
<1> QED  BY <1>2, <1>4, <1>6

LEMMA LinkManifests == ASSUME IngestInv, LinkManifest PROVE IngestInv'
<1> DEFINE p == ingest.target
           j == [ingest EXCEPT !.phase = "unstaging"]
<1>1. /\ ~Live /\ ingest.phase = "manifest" /\ listing' = listing /\ ingest' = j
      /\ outputs' = [outputs EXCEPT ![p].manifest = {HistoryManifest}]
  BY DEF LinkManifest
<1>2. ingest \in HistoryJobs
  <2>1. ingest.phase # "idle"
    BY <1>1
  <2> QED  BY <1>1, <2>1, JobIs DEF IngestInv
<1>3. p \in 1 .. Targets /\ p \in 0 .. Targets /\ p # 0
  <2>1. p \in 1 .. Targets
    BY <1>2 DEF HistoryJobs
  <2> QED  BY ONLY <2>1, IngestBounds
<1>4. /\ JobInv(ingest) /\ Linked(ingest) /\ Collected(ingest) /\ Follows(ingest.previous, ingest)
      /\ outputs[p].manifest = {} /\ ingest.asof # 0
  BY <1>1, <1>2 DEF IngestInv, HistoryInv, JobInv, Linked
<1>5. PICK m : m = HistoryManifest
  OBVIOUS
<1>6. /\ m \in SegmentManifests /\ m.rows = ingest.rows /\ m.evidence = ingest.evidence /\ m.start = ingest.start
      /\ m.cursor = ingest.cursor /\ m.asof = ingest.asof /\ m.more = ingest.more /\ m.previous = ingest.previous
  <2>1. ingest.asof \in 1 .. 3
    BY <1>2, <1>4 DEF HistoryJobs
  <2> QED  BY <1>2, <1>5, <2>1 DEF HistoryManifest, HistoryJobs, SegmentManifests
<1> HIDE DEF p
<1>7. PICK q \in 1 .. Targets : q = p
  BY <1>3
<1>8. q \notin Segments
  BY <1>4, <1>7 DEF Segments
<1>9. /\ outputs' = [outputs EXCEPT ![q].manifest = {m}] /\ outputs[q].out = {m.rows}
      /\ m.evidence => \E b \in outputs[q].bundle : b.ids = m.rows
  BY <1>1, <1>4, <1>5, <1>6, <1>7 DEF Linked, p
<1>10. /\ m.start <= m.cursor /\ m.previous # q /\ m.rows = Between(m.start, m.cursor, m.asof)
       /\ ~m.more => Exhausted(m.cursor, m.asof)
  BY <1>1, <1>4, <1>6, <1>7 DEF JobInv, Collected, p
<1>11. Follows(m.previous, m)
  BY <1>4, <1>6 DEF Follows
<1>12. SegmentsInv'
  <2>1. PICK n \in SegmentManifests : n = m
    BY <1>6
  <2> QED  BY <1>1, <1>8, <1>9, <1>10, <1>11, <2>1, SegmentAdded DEF IngestInv
<1> DEFINE f == [outputs[q] EXCEPT !.manifest = {m}]
<1>13. q \in 0 .. Targets /\ outputs[q] \in Files /\ outputs \in [0 .. Targets -> Files]
  BY <1>3, <1>7 DEF IngestInv, IngestType
<1>14. f \in Files /\ f.bundle = outputs[q].bundle /\ f.manifest = {m} /\ f.out = outputs[q].out
  BY <1>6, <1>13, FilesAre
<1>15. outputs' = [outputs EXCEPT ![q] = f]
  BY <1>9
<1> HIDE DEF f
<1>16. PICK g \in Files : g = f
  BY <1>14
<1>17. \A r \in 0 .. Targets : outputs'[r] = IF r = q THEN g ELSE outputs[r]
  BY <1>13, <1>15, <1>16
<1>18. /\ j \in HistoryJobs /\ j.phase = "unstaging" /\ j.previous = ingest.previous /\ j.target = q
       /\ j.start = ingest.start /\ j.cursor = ingest.cursor /\ j.asof = ingest.asof /\ j.rows = ingest.rows
       /\ j.index = ingest.index /\ j.evidence = ingest.evidence /\ j.more = ingest.more
  BY <1>2, <1>7 DEF HistoryJobs, p
<1> HIDE DEF j
<1>19. /\ Segments' = Segments \cup {q} /\ \A r \in Segments : ManifestOf(r)' = ManifestOf(r) /\ r \in 1 .. Targets
       /\ ManifestOf(q)' = m
  <2>1. \A r \in 1 .. Targets : r \in 0 .. Targets
    BY IngestBounds
  <2>2. Segments' = Segments \cup {q}
    BY <1>14, <1>16, <1>17, <2>1 DEF Segments
  <2>3. \A r \in Segments : r # q /\ r \in 1 .. Targets
    BY <1>8 DEF Segments
  <2>4. \A r \in Segments : outputs'[r] = outputs[r]
    BY <1>17, <2>1, <2>3
  <2>5. outputs'[q].manifest = {m}
    BY <1>13, <1>14, <1>16, <1>17
  <2> QED  BY <2>2, <2>3, <2>4, <2>5 DEF ManifestOf
<1>20. JobInv(ingest)'
  <2>1. Follows(ingest.previous, ingest)'
    BY <1>1, <1>4, <1>18, <1>19 DEF Follows
  <2>2. Collected(ingest)'
    BY <1>1, <1>4, <1>18 DEF Collected, Between, Exhausted, SettledBefore
  <2>3. outputs'[q].out = outputs[q].out /\ outputs'[q].bundle = outputs[q].bundle
    BY <1>13, <1>14, <1>16, <1>17
  <2>4. Linked(ingest)'
    BY <1>1, <1>4, <1>7, <1>18, <2>2, <2>3 DEF Linked, p
  <2>5. \A r \in Segments' : ManifestOf(r)'.previous # q
    <3>1. \A r \in Segments : ManifestOf(r).previous \in Segments \cup {0}
      BY SegmentIs DEF IngestInv
    <3> QED  BY <1>3, <1>7, <1>8, <1>10, <1>19, <3>1
  <2> QED  BY <1>1, <1>4, <1>7, <1>18, <2>1, <2>4, <2>5 DEF JobInv, p
<1>21. PICK k : k = j
  OBVIOUS
<1>22. ingest' = k /\ k \in HistoryJobs /\ k \notin LiveJobs
  BY <1>1, <1>18, <1>21 DEF HistoryJobs, LiveJobs
<1>23. g.manifest \subseteq SegmentManifests /\ \A b \in g.bundle : Authoritative(b) => b.due \subseteq b.ids
  BY <1>6, <1>13, <1>14, <1>16 DEF IngestInv, BundlesInv
<1>24. outputs' = [outputs EXCEPT ![q] = g]
  BY <1>15, <1>16
<1> QED  BY <1>1, <1>12, <1>13, <1>20, <1>22, <1>23, <1>24, Written

LEMMA IngestSteps == IngestInv /\ [IngestNext]_ingestVars => IngestInv'
<1> SUFFICES ASSUME IngestInv, [IngestNext]_ingestVars PROVE IngestInv'
  OBVIOUS
<1>1. CASE \E i \in Lots, to \in {"open", "closed", "absent"} : LotMoves(i, to)
  BY <1>1, LotsMove
<1>2. CASE \E to \in 1 .. 3 : CutoffMoves(to)
  BY <1>2, CutoffMove
<1>3. CASE \E p \in 0 .. Targets : EvidenceReplaced(p)
  BY <1>3, EvidenceReplaces
<1>4. CASE StartOffset \/ StartKeyset \/ StartKalshi
  BY <1>4, LiveOnes
<1>5. CASE OffsetRead \/ OffsetRefused
  BY <1>5, OffsetReads
<1>6. CASE KeysetRead
  BY <1>6, KeysetReads
<1>7. CASE \E empty \in BOOLEAN : KalshiRead(empty)
  BY <1>7, KalshiReads
<1>8. CASE LiveReadFails \/ Cancelled
  BY <1>8, LiveStops
<1>9. CASE \E p, q \in 1 .. Targets, kept, complete \in BOOLEAN :
             FirstSegment(p, kept, complete) \/ NextSegment(p, q, kept, complete)
  BY <1>9, SegmentBegins
<1>10. CASE OpenHistory
  BY <1>10, HistoryOpens
<1>11. CASE HistoryRead
  BY <1>11, HistoryReads
<1>12. CASE LinkOutput
  BY <1>12, LinkOutputs
<1>13. CASE HistoryFails
  BY <1>13, HistoryFailed
<1>14. CASE ReplaceOutput
  BY <1>14, ReplaceOutputs
<1>15. CASE WriteBundle \/ FinishBundle
  BY <1>15, BundleWritten DEF WriteBundle, FinishBundle
<1>16. CASE ReplaceManifest
  BY <1>16, ReplaceManifests
<1>17. CASE LinkManifest
  BY <1>17, LinkManifests
<1>18. CASE HistoryEnds \/ JobDies
  BY <1>18, JobEnds
<1>19. CASE UNCHANGED ingestVars
  <2> USE DEF IngestInv
  <2>1. ingest' = ingest /\ listing' = listing /\ outputs' = outputs
    BY <1>19 DEF ingestVars
  <2>2. SegmentsKept
    BY <2>1 DEF SegmentsKept
  <2>3. SegmentsInv' /\ Segments' = Segments /\ \A p \in 1 .. Targets : ManifestOf(p)' = ManifestOf(p)
    BY <2>2, SegmentsStay
  <2>4. IngestType' /\ BundlesInv'
    BY <2>1 DEF IngestType, BundlesInv, Authoritative
  <2>5. CASE ingest = NoIngest
    BY <2>1, <2>3, <2>4, <2>5, JobIs DEF LiveInv, HistoryInv, Held
  <2>6. CASE ingest \in LiveJobs
    <3>1. /\ ingest.phase = "pages" /\ ingest.kind # "offset" => ReadSoFar(ingest)
          /\ ingest.phase # "pages" /\ Complete(ingest) /\ Authoritative(Bundle(ingest)) => DueRows \subseteq ingest.rows
      BY <2>6 DEF LiveInv
    <3> QED  BY <2>1, <2>6, <3>1, LiveGoesOn
  <2>7. CASE ingest \in HistoryJobs
    BY <2>1, <2>7, JobIs, HistoryGoesOn DEF HistoryInv
  <2> QED  BY <2>5, <2>6, <2>7 DEF IngestType
<1> QED  BY <1>1, <1>2, <1>3, <1>4, <1>5, <1>6, <1>7, <1>8, <1>9, <1>10, <1>11, <1>12, <1>13, <1>14, <1>15,
            <1>16, <1>17, <1>18, <1>19 DEF IngestNext

LEMMA IngestBegins == Init => IngestInit
  BY DEF Init

LEMMA IngestGoes == [Next]_commandVars => [IngestNext]_ingestVars
  BY DEF commandVars, Next, Capture, RunJobs, ResolveMarkets, SuperviseShard,
    ReadVenue, ReplayTape, UseRun, IngestMarkets, PollVenue, OpenCatalog,
    ObserveShard, EmitQuotes, StreamDatasets, ResolveBatch, PlanFeed, ReadSocket,
    ingestVars

(***************************************************************************)
(* What a collection claims to be, it is: a bundle that verifies as        *)
(* authoritative holds every market that was listed in its lanes all the   *)
(* time it was read, by offset or by cursor, whatever opened, closed or    *)
(* left meanwhile; and the segments that lead to an exhausted cursor hold  *)
(* every market settled before as_of exactly once, although the archive    *)
(* grew, segments failed and jobs died; for any listing, page size, cap    *)
(* and number of segments (cli/ingest.py, contract_evidence_manifest.py).  *)
(***************************************************************************)
THEOREM CollectionsStayWhole == Spec => []CollectionsAreWhole
<1>1. Init => IngestInv
  BY IngestBegins, IngestStarts
<1>2. IngestInv /\ [Next]_commandVars => IngestInv'
  BY IngestGoes, IngestSteps
<1> QED  BY <1>1, <1>2, IngestTold, PTL DEF Spec

-----------------------------------------------------------------------------
(* Lists read page by page, and a stream of frames.                         *)

-----------------------------------------------------------------------------
(* What a read has and what it has still to ask for. *)

OpenLanes == {"open", "closed"}
Partitions == [lanes : SUBSET OpenLanes, cursor : Nat]
Sites ==
  [lane : [Items -> Lanes], steady : SUBSET Items, kept : SUBSET Items, market : {"live", "both", "historical"}]
ListReads ==
  [kind : {"discover", "participants"}, stop : {"none", "page_limit", "result_limit", "source_exhausted"},
   attempt : Nat, pages : Nat, cut : BOOLEAN, seen : SUBSET Items, lanes : SUBSET OpenLanes,
   queue : Seq(Partitions)]
CandleReads ==
  [kind : {"candles"}, stop : {"none", "returned"}, attempt : Nat, auto : BOOLEAN, dataset : {"live", "historical"},
   window : Nat, payloads : SUBSET [window : Nat, dataset : {"live", "historical"}]]
Limited(r) == r.kind = "discover" /\ r.stop = "result_limit"

ReadType ==
  /\ site \in Sites /\ site.steady \subseteq Listed /\ site.kept \subseteq Listed
  /\ read = NoRead \/ read \in ListReads \/ read \in CandleReads \/ Limited(read)

\* A discovery has still to ask, in some partition, for each market that it has not seen and that stays.
ToDiscover(r, i) ==
  \E n \in DOMAIN r.queue : site.lane[i] \in r.queue[n].lanes /\ i > r.queue[n].cursor
DiscoverInv(r) ==
  /\ \A i \in site.kept : site.lane[i] \in r.lanes /\ i \notin r.seen => ToDiscover(r, i)
  /\ r.stop = "source_exhausted" => r.queue = <<>>

\* The open walk, then the closed one: what a walk left behind is closed and waits for the other.
WalkInv(r) ==
  /\ Len(r.queue) \in 0 .. 2
  /\ Len(r.queue) = 2 => r.queue[1].lanes = {"open"} /\ r.queue[2] = [lanes |-> {"closed"}, cursor |-> 0]
  /\ Len(r.queue) = 1 => r.queue[1].lanes = {"closed"}
  /\ r.stop = "none" => Len(r.queue) # 0
  /\ r.stop = "source_exhausted" => ~r.cut /\ Len(r.queue) = 0
  /\ ~r.cut => \A i \in site.steady \ r.seen :
       \/ Len(r.queue) = 2 /\ (site.lane[i] = "closed" \/ i > r.queue[1].cursor)
       \/ Len(r.queue) = 1 /\ site.lane[i] = "closed" /\ i > r.queue[1].cursor

CandleInv(r) ==
  /\ \A w \in 1 .. Windows : w < r.window => [window |-> w, dataset |-> r.dataset] \in r.payloads
  /\ r.window # 0
  /\ r.stop = "returned" => r.window = Windows + 1 /\ Windows \in Nat

ReadInv ==
  /\ ReadType
  /\ read \in ListReads /\ read.kind = "discover" /\ read.stop # "result_limit" => DiscoverInv(read)
  /\ read \in ListReads /\ read.kind = "participants" => WalkInv(read)
  /\ read \in CandleReads => CandleInv(read)

LEMMA ReadTold == ReadInv => CompleteReadsAreWhole
<1> SUFFICES ASSUME ReadInv PROVE CompleteReadsAreWhole
  OBVIOUS
<1> USE DEF ReadInv
<1>1. ASSUME read.kind = "discover", read.stop = "source_exhausted"
      PROVE  {i \in site.kept : site.lane[i] \in read.lanes} \subseteq read.seen
  <2>1. read \in ListReads
    BY <1>1 DEF ReadType, NoRead, CandleReads, Limited
  <2>2. DiscoverInv(read) /\ read.queue = <<>>
    BY <1>1, <2>1 DEF DiscoverInv
  <2>3. DOMAIN read.queue = {}
    BY <2>2
  <2> QED  BY <2>2, <2>3 DEF DiscoverInv, ToDiscover
<1>2. ASSUME read.kind = "participants", read.stop = "source_exhausted" PROVE site.steady \subseteq read.seen
  <2>1. read \in ListReads
    BY <1>2 DEF ReadType, NoRead, CandleReads, Limited
  <2> QED  BY <1>2, <2>1 DEF WalkInv
<1>3. ASSUME read.kind = "candles", read.stop = "returned"
      PROVE  \E dataset \in {"live", "historical"} :
               \A w \in 1 .. Windows : [window |-> w, dataset |-> dataset] \in read.payloads
  <2>1. read \in CandleReads
    BY <1>3 DEF ReadType, NoRead, ListReads, Limited
  <2>2. \A w \in 1 .. Windows : w < read.window
    BY <1>3, <2>1 DEF CandleInv
  <2> QED  BY <2>1, <2>2 DEF CandleInv, CandleReads
<1> QED  BY <1>1, <1>2, <1>3 DEF CompleteReadsAreWhole

LEMMA ReadStarts == ReadInit => ReadInv
<1> SUFFICES ASSUME ReadInit PROVE ReadInv
  OBVIOUS
<1>1. PICK lane \in [Items -> Lanes] : site = [lane |-> lane, steady |-> {}, kept |-> {}, market |-> "live"]
  BY DEF ReadInit
<1>2. read = NoRead /\ read \notin ListReads /\ read \notin CandleReads
  BY DEF ReadInit, NoRead, ListReads, CandleReads
<1> QED  BY <1>1, <1>2 DEF ReadInv, ReadType, Sites

LEMMA ItemMove == ASSUME ReadInv, NEW i \in Items, NEW to \in Lanes, ItemMoves(i, to) PROVE ReadInv'
<1> USE DEF ReadInv
<1> DEFINE s == [site EXCEPT !.lane[i] = to, !.kept = @ \ {i}, !.steady = IF to = "absent" THEN @ \ {i} ELSE @]
<1>1. site' = s /\ read' = read /\ site.lane[i] # to /\ ~(site.lane[i] = "closed" /\ to = "open")
  BY DEF ItemMoves
<1>2. /\ s \in Sites /\ s.kept = site.kept \ {i} /\ s.lane[i] = to /\ \A k \in Items : k # i => s.lane[k] = site.lane[k]
      /\ s.steady = IF to = "absent" THEN site.steady \ {i} ELSE site.steady
  <2>1. site \in Sites
    BY DEF ReadType
  <2>2. /\ s.kept = site.kept \ {i} /\ s.lane = [site.lane EXCEPT ![i] = to] /\ site.lane \in [Items -> Lanes]
        /\ s.steady = IF to = "absent" THEN site.steady \ {i} ELSE site.steady
    BY ONLY <2>1 DEF s, Sites
  <2>3. PICK lane : lane = [site.lane EXCEPT ![i] = to]
    OBVIOUS
  <2>4. lane \in [Items -> Lanes]
    BY ONLY <2>2, <2>3, i \in Items, to \in Lanes
  <2>5. s = [site EXCEPT !.lane = lane, !.kept = @ \ {i}, !.steady = IF to = "absent" THEN @ \ {i} ELSE @]
    BY ONLY <2>1, <2>3 DEF s, Sites
  <2>6. s \in Sites
    BY ONLY <2>1, <2>4, <2>5 DEF Sites
  <2> QED  BY ONLY <2>2, <2>6, i \in Items
<1> HIDE DEF s
<1>3. site.steady \subseteq Listed /\ site.kept \subseteq Listed /\ site.steady \subseteq Items /\ site.kept \subseteq Items
  BY DEF ReadType, Sites
<1>4. \A k \in s.kept : k \in site.kept /\ s.lane[k] = site.lane[k]
  BY <1>2, <1>3
<1>5. \A k \in s.steady : k \in site.steady /\ s.lane[k] # "absent" /\ (site.lane[k] = "closed" => s.lane[k] = "closed")
  <2> SUFFICES ASSUME NEW k \in s.steady
               PROVE  k \in site.steady /\ s.lane[k] # "absent" /\ (site.lane[k] = "closed" => s.lane[k] = "closed")
    OBVIOUS
  <2>1. k \in site.steady /\ k \in Items /\ site.lane[k] # "absent" /\ (k = i => to # "absent")
    BY <1>2, <1>3 DEF Listed
  <2>2. CASE k = i
    BY <1>1, <1>2, <2>1, <2>2 DEF Lanes
  <2>3. CASE k # i
    BY <1>2, <2>1, <2>3
  <2> QED  BY <2>2, <2>3
<1>6. ReadType'
  <2>1. \A k \in Items : (k \in s.kept \/ k \in s.steady) => s.lane[k] # "absent"
    BY <1>3, <1>4, <1>5 DEF Listed
  <2>2. s.steady \subseteq Items /\ s.kept \subseteq Items
    BY <1>2, <1>3
  <2> QED  BY <1>1, <1>2, <2>1, <2>2 DEF ReadType, Listed
<1>7. ASSUME DiscoverInv(read) PROVE DiscoverInv(read)'
  BY <1>1, <1>4, <1>7 DEF DiscoverInv, ToDiscover
<1>8. ASSUME WalkInv(read) PROVE WalkInv(read)'
  BY <1>1, <1>5, <1>8 DEF WalkInv
<1>9. CandleInv(read) => CandleInv(read)'
  BY <1>1 DEF CandleInv
<1> QED  BY <1>1, <1>6, <1>7, <1>8, <1>9

\* What a step of a read that leaves the venue alone has to keep.
LEMMA ReadGoes ==
  ASSUME ReadInv, UNCHANGED site, NEW r, read' = r, r = NoRead \/ r \in ListReads \/ r \in CandleReads \/ Limited(r),
         r \in ListReads /\ r.kind = "discover" /\ r.stop # "result_limit" => DiscoverInv(r),
         r \in ListReads /\ r.kind = "participants" => WalkInv(r),
         r \in CandleReads => CandleInv(r)
  PROVE  ReadInv'
<1>1. ReadType'
  BY DEF ReadInv, ReadType, Listed
<1>2. DiscoverInv(read)' = DiscoverInv(r) /\ WalkInv(read)' = WalkInv(r) /\ CandleInv(read)' = CandleInv(r)
  BY DEF DiscoverInv, ToDiscover, WalkInv, CandleInv
<1> QED  BY <1>1, <1>2 DEF ReadInv

LEMMA ReadEnds == ASSUME ReadInv, read' = NoRead, site' = Forgotten \/ site' = site PROVE ReadInv'
<1>1. NoRead \notin ListReads /\ NoRead \notin CandleReads
  BY DEF NoRead, ListReads, CandleReads
<1>2. Forgotten \in Sites /\ Forgotten.steady = {} /\ Forgotten.kept = {} /\ Forgotten.lane = site.lane
  BY DEF ReadInv, ReadType, Forgotten, Sites
<1>3. ReadType'
  BY <1>2 DEF ReadInv, ReadType, Listed
<1> QED  BY <1>1, <1>3 DEF ReadInv

LEMMA PageHas ==
  ASSUME NEW partition \in Partitions, NEW page, page = Page(partition)
  PROVE  /\ page.cursor \in Nat /\ page.more \in BOOLEAN /\ page.rows \in SUBSET Items
         /\ \A i \in Items : site.lane[i] \in partition.lanes /\ i > partition.cursor =>
              i \in page.rows \/ (page.more /\ i > page.cursor)
<1> DEFINE from == {i \in Items : site.lane[i] \in partition.lanes}
           rest == {i \in Items : site.lane[i] \in partition.lanes /\ i > partition.cursor}
           rows == {i \in rest : Cardinality({j \in rest : j <= i}) <= PageSize}
           end == IF rows = {} THEN partition.cursor ELSE Max(rows)
<1>1. page.rows = rows /\ page.more = (rows # rest) /\ page.cursor = end
  BY DEF Page
<1>2. partition.cursor \in Nat
  BY DEF Partitions
<1>3. rest = {i \in from : i > partition.cursor}
  OBVIOUS
<1>4. PICK all, r, some, e : all = from /\ r = rest /\ some = rows /\ e = end
  OBVIOUS
<1>5. Paged(all, partition.cursor, PageSize, r, some, e)
  BY <1>3, <1>4 DEF Paged
<1>6. all \in SUBSET (1 .. Places) /\ Places \in Nat /\ PageSize \in Nat \ {0}
  BY <1>4, ReadBounds DEF Items
<1>7. Turned(all, partition.cursor, r, some, e)
  BY <1>2, <1>5, <1>6, PageIs
<1>8. some \subseteq all /\ r \subseteq all
  BY <1>3, <1>4
<1>9. \A i \in Items : i \in all <=> site.lane[i] \in partition.lanes
  BY <1>4
<1>10. \A i \in all : i > partition.cursor <=> i \in r
  BY <1>3, <1>4
<1>11. (rows # rest) \in BOOLEAN
  OBVIOUS
<1> HIDE DEF from, rest, rows, end
<1>12. page.rows = some /\ page.more = (some # r) /\ page.cursor = e
  BY <1>1, <1>4
<1>13. all \subseteq Items /\ Items \subseteq Nat
  BY <1>6 DEF Items
<1>14. ASSUME NEW i \in Items, site.lane[i] \in partition.lanes, i > partition.cursor
       PROVE  i \in page.rows \/ (page.more /\ i > page.cursor)
  <2>1. i \in all /\ i \in r /\ i \in Nat
    BY <1>9, <1>10, <1>13, <1>14
  <2>2. CASE i <= e
    <3>1. partition.cursor < i
      BY ONLY <1>2, <1>14, <2>1
    <3>2. some = {k \in all : partition.cursor < k /\ k <= e}
      BY <1>7 DEF Turned
    <3>3. i \in some
      BY <2>1, <2>2, <3>1, <3>2
    <3>4. i \in page.rows
      BY <1>12, <3>3
    <3> QED  BY <3>4
  <2>3. CASE ~(i <= e)
    <3>1. some # r
      BY <1>7, <2>1, <2>3 DEF Turned
    <3>2. i > e
      BY <1>7, <2>1, <2>3 DEF Turned
    <3> QED  BY <1>12, <3>1, <3>2
  <2> QED  BY <2>2, <2>3
<1> QED  BY <1>1, <1>7, <1>8, <1>11, <1>12, <1>13, <1>14 DEF Turned

LEMMA ReadIs ==
  ASSUME ReadType
  PROVE  /\ read.kind \in {"discover", "participants"} => read \in ListReads \/ Limited(read)
         /\ read.kind = "candles" => read \in CandleReads
         /\ read.kind # "none" /\ read.stop = "none" => read \in ListReads \/ read \in CandleReads
         /\ read \in ListReads => read.kind \in {"discover", "participants"} /\ read \notin CandleReads
         /\ read \in CandleReads => read.kind = "candles" /\ read \notin ListReads
<1>1. NoRead.kind = "none"
  BY DEF NoRead
<1>2. read \in ListReads => read.kind \in {"discover", "participants"}
  BY DEF ListReads
<1>3. read \in CandleReads => read.kind = "candles"
  BY DEF CandleReads
<1> QED  BY <1>1, <1>2, <1>3 DEF ReadType, Limited

LEMMA AttemptFailed == ASSUME ReadInv, AttemptFails PROVE ReadInv'
<1> DEFINE r == [read EXCEPT !.attempt = @ + 1]
<1>1. read.kind # "none" /\ read.stop = "none" /\ read' = r /\ UNCHANGED site
  BY DEF AttemptFails
<1>2. CASE read \in ListReads
  <2>1. /\ r \in ListReads /\ r.kind = read.kind /\ r.stop = read.stop /\ r.queue = read.queue /\ r.seen = read.seen
        /\ r.lanes = read.lanes /\ r.cut = read.cut
    BY <1>2 DEF ListReads
  <2>2. r \notin CandleReads
    BY <2>1 DEF ListReads, CandleReads
  <2> HIDE DEF r
  <2>3. DiscoverInv(r) = DiscoverInv(read) /\ WalkInv(r) = WalkInv(read)
    BY <2>1 DEF DiscoverInv, ToDiscover, WalkInv
  <2> QED  BY <1>1, <1>2, <2>1, <2>2, <2>3, ReadGoes DEF ReadInv
<1>3. CASE read \in CandleReads
  <2>1. /\ r \in CandleReads /\ r.stop = read.stop /\ r.window = read.window /\ r.payloads = read.payloads
        /\ r.dataset = read.dataset
    BY <1>3 DEF CandleReads
  <2>2. r \notin ListReads
    BY <2>1 DEF ListReads, CandleReads
  <2> HIDE DEF r
  <2>3. CandleInv(r) = CandleInv(read)
    BY <2>1 DEF CandleInv
  <2> QED  BY <1>1, <1>3, <2>1, <2>2, <2>3, ReadGoes DEF ReadInv
<1> QED  BY <1>1, <1>2, <1>3, ReadIs DEF ReadInv

LEMMA Migrates == ASSUME ReadInv, MarketMigrates PROVE ReadInv'
<1> DEFINE s == [site EXCEPT !.market = IF @ = "live" THEN "both" ELSE "historical"]
<1>1. read.kind = "candles" /\ read' = read /\ site' = s
  BY DEF MarketMigrates
<1>2. /\ s \in Sites /\ s.lane = site.lane /\ s.steady = site.steady /\ s.kept = site.kept
  BY DEF ReadInv, ReadType, Sites
<1> HIDE DEF s
<1>3. ReadType'
  BY <1>1, <1>2 DEF ReadInv, ReadType, Listed
<1>4. read \in CandleReads /\ read \notin ListReads /\ CandleInv(read)' = CandleInv(read)
  BY <1>1, ReadIs DEF ReadInv, CandleInv
<1> QED  BY <1>1, <1>3, <1>4 DEF ReadInv

\* A new listing read.
LEMMA ListBegins ==
  ASSUME ReadInv, NEW r \in ListReads, read' = r, site' = [site EXCEPT !.steady = Listed, !.kept = Listed], r.stop = "none",
         r.kind = "discover" => DiscoverInv(r)', r.kind = "participants" => WalkInv(r)'
  PROVE  ReadInv'
<1>1. site' \in Sites /\ site'.lane = site.lane /\ site'.steady = Listed /\ site'.kept = Listed
  <2>1. Listed \subseteq Items
    BY DEF Listed
  <2> QED  BY <2>1 DEF ReadInv, ReadType, Sites
<1>2. ReadType'
  BY <1>1 DEF ReadType, Listed
<1>3. r \notin CandleReads
  BY DEF ListReads, CandleReads
<1>4. DiscoverInv(read)' = DiscoverInv(r)' /\ WalkInv(read)' = WalkInv(r)'
  BY DEF DiscoverInv, ToDiscover, WalkInv
<1> QED  BY <1>2, <1>3, <1>4 DEF ReadInv

Asked == {<< {"open"} >>, << {"open", "closed"} >>, << {"open"}, {"closed"} >>}

LEMMA BeginIs ==
  ASSUME NEW kind \in {"discover", "participants"},
         NEW lanes \in Asked,
         NEW r, r = Begin(kind, lanes)
  PROVE  /\ r \in ListReads /\ r.kind = kind /\ r.stop = "none" /\ r.seen = {} /\ ~r.cut
         /\ r.lanes = UNION Range(lanes) /\ DOMAIN r.queue = DOMAIN lanes /\ Len(r.queue) = Len(lanes)
         /\ \A n \in DOMAIN lanes : r.queue[n] = [lanes |-> lanes[n], cursor |-> 0]
<1>1. lanes \in Seq(SUBSET OpenLanes)
  <2>1. {"open"} \in SUBSET OpenLanes /\ {"closed"} \in SUBSET OpenLanes /\ {"open", "closed"} \in SUBSET OpenLanes
    BY DEF OpenLanes
  <2>2. PICK S : S = SUBSET OpenLanes
    OBVIOUS
  <2>3. \A a, b \in S : <<a>> \in Seq(S) /\ <<a, b>> \in Seq(S)
    OBVIOUS
  <2> QED  BY <2>1, <2>2, <2>3 DEF Asked
<1>2. PICK q : q = [n \in DOMAIN lanes |-> [lanes |-> lanes[n], cursor |-> 0]]
  OBVIOUS
<1>3. DOMAIN lanes = 1 .. Len(lanes) /\ Len(lanes) \in Nat /\ \A n \in DOMAIN lanes : lanes[n] \in SUBSET OpenLanes
  BY <1>1
<1>4. q \in Seq(Partitions) /\ DOMAIN q = DOMAIN lanes /\ Len(q) = Len(lanes)
  <2>1. \A n \in DOMAIN lanes : [lanes |-> lanes[n], cursor |-> 0] \in Partitions
    BY <1>3 DEF Partitions
  <2> QED  BY <1>2, <1>3, <2>1
<1>5. PICK all : all = UNION Range(lanes)
  OBVIOUS
<1>6. all \in SUBSET OpenLanes
  BY <1>3, <1>5 DEF Range
<1>7. r = [kind |-> kind, stop |-> "none", attempt |-> 1, pages |-> 0, cut |-> FALSE, seen |-> {}, lanes |-> all, queue |-> q]
  BY <1>2, <1>5 DEF Begin
<1>8. r \in ListReads
  BY ONLY <1>4, <1>6, <1>7, kind \in {"discover", "participants"} DEF ListReads
<1> QED  BY <1>2, <1>4, <1>5, <1>7, <1>8

LEMMA ReadsBegin == ASSUME ReadInv, Discover \/ Participants PROVE ReadInv'
<1>1. site' = [site EXCEPT !.steady = Listed, !.kept = Listed]
  BY DEF Discover, Participants
<1>2. site'.lane = site.lane /\ site'.steady = Listed /\ site'.kept = Listed
  BY <1>1 DEF ReadInv, ReadType, Sites
<1>3. \A i \in Items : i > 0
  BY ReadBounds DEF Items
<1>4. CASE Discover
  <2>1. PICK lanes \in Asked : read' = Begin("discover", lanes)
    BY <1>4 DEF Discover, Asked
  <2>2. PICK r : r = Begin("discover", lanes)
    OBVIOUS
  <2>3. /\ r \in ListReads /\ r.kind = "discover" /\ r.stop = "none" /\ r.lanes = UNION Range(lanes)
        /\ DOMAIN r.queue = DOMAIN lanes /\ \A n \in DOMAIN lanes : r.queue[n] = [lanes |-> lanes[n], cursor |-> 0]
    <3>1. PICK kind \in {"discover", "participants"} : kind = "discover"
      OBVIOUS
    <3>2. r = Begin(kind, lanes)
      BY <2>2, <3>1
    <3>3. /\ r \in ListReads /\ r.kind = kind /\ r.stop = "none" /\ r.seen = {} /\ ~r.cut
          /\ r.lanes = UNION Range(lanes) /\ DOMAIN r.queue = DOMAIN lanes /\ Len(r.queue) = Len(lanes)
          /\ \A n \in DOMAIN lanes : r.queue[n] = [lanes |-> lanes[n], cursor |-> 0]
      BY <2>1, <3>2, BeginIs
    <3> QED  BY <3>1, <3>3
  <2>4. ASSUME NEW i \in Listed, site.lane[i] \in r.lanes
        PROVE  \E n \in DOMAIN r.queue : site.lane[i] \in r.queue[n].lanes /\ i > r.queue[n].cursor
    <3>1. PICK n \in DOMAIN lanes : site.lane[i] \in lanes[n]
      BY <2>3, <2>4 DEF Range
    <3>2. n \in DOMAIN r.queue /\ r.queue[n].lanes = lanes[n] /\ r.queue[n].cursor = 0
      <4>1. n \in DOMAIN r.queue /\ r.queue[n] = [lanes |-> lanes[n], cursor |-> 0]
        BY <2>3, <3>1, Zenon
      <4> QED  BY <4>1
    <3>3. i > 0
      BY <1>3 DEF Listed
    <3> QED  BY <3>1, <3>2, <3>3
  <2>5. DiscoverInv(r)'
    BY <1>2, <2>3, <2>4 DEF DiscoverInv, ToDiscover
  <2> QED  BY <1>1, <2>1, <2>2, <2>3, <2>5, ListBegins
<1>5. CASE Participants
  <2>1. PICK lanes \in Asked : lanes = << {"open"}, {"closed"} >> /\ read' = Begin("participants", lanes)
    BY <1>5 DEF Participants, Asked
  <2>2. PICK r : r = Begin("participants", lanes)
    OBVIOUS
  <2>3. /\ r \in ListReads /\ r.kind = "participants" /\ r.stop = "none" /\ Len(r.queue) = Len(lanes)
        /\ \A n \in DOMAIN lanes : r.queue[n] = [lanes |-> lanes[n], cursor |-> 0]
    <3>1. PICK kind \in {"discover", "participants"} : kind = "participants"
      OBVIOUS
    <3> QED  BY <2>1, <2>2, <3>1, BeginIs
  <2>4. DOMAIN lanes = {1, 2} /\ Len(lanes) = 2 /\ lanes[1] = {"open"} /\ lanes[2] = {"closed"}
    BY <2>1
  <2>5. r.queue[1] = [lanes |-> {"open"}, cursor |-> 0] /\ r.queue[2] = [lanes |-> {"closed"}, cursor |-> 0] /\ Len(r.queue) = 2
    BY <2>3, <2>4
  <2>6. \A i \in Listed : i > r.queue[1].cursor
    BY <1>3, <2>5 DEF Listed
  <2>7. WalkInv(r)'
    BY <1>2, <2>3, <2>5, <2>6 DEF WalkInv
  <2> QED  BY <1>1, <2>1, <2>2, <2>3, <2>7, ListBegins
<1> QED  BY <1>4, <1>5

-----------------------------------------------------------------------------
(* Pages. *)

LEMMA DiscoverPages == ASSUME ReadInv, DiscoverPage PROVE ReadInv'
<1>1. read \in ListReads /\ read.kind = "discover" /\ read.stop = "none" /\ read.queue # <<>> /\ UNCHANGED site
  BY ReadIs DEF ReadInv, DiscoverPage, Limited
<1>2. DiscoverInv(read)
  BY <1>1 DEF ReadInv
<1>3. /\ read.queue \in Seq(Partitions) /\ read.seen \in SUBSET Items /\ read.pages \in Nat /\ Len(read.queue) \in Nat
      /\ Len(read.queue) # 0
  BY <1>1 DEF ListReads
<1>4. PICK first \in Partitions, others \in Seq(Partitions) : first = Head(read.queue) /\ others = Tail(read.queue)
  <2>1. Head(read.queue) \in Partitions
    BY <1>1, <1>3
  <2>2. Tail(read.queue) \in Seq(Partitions)
    BY <1>1, <1>3
  <2> QED  BY <2>1, <2>2
<1>5. PICK page : page = Page(first)
  OBVIOUS
<1>6. /\ page.cursor \in Nat /\ page.more \in BOOLEAN /\ page.rows \in SUBSET Items
      /\ \A i \in Items : site.lane[i] \in first.lanes /\ i > first.cursor =>
           i \in page.rows \/ (page.more /\ i > page.cursor)
  BY <1>5, PageHas
<1>7. PICK found : found = read.seen \cup page.rows
  OBVIOUS
<1>8. PICK seen : seen = IF Cardinality(found) <= MaxItems THEN found
                ELSE CHOOSE some \in SUBSET found :
                       /\ read.seen \subseteq some /\ Cardinality(some) = MaxItems
                       /\ \A i \in some \ read.seen, j \in found \ some : i < j
  OBVIOUS
<1>9. PICK queue : queue = Queue(others, first, page)
  OBVIOUS
<1>10. PICK stop : stop = IF Cardinality(found) >= MaxItems THEN "result_limit" ELSE read.stop
  OBVIOUS
<1> DEFINE r == [read EXCEPT !.pages = @ + 1, !.attempt = 1, !.seen = seen, !.stop = stop, !.queue = queue]
<1>11. read' = r
  BY <1>4, <1>5, <1>7, <1>8, <1>9, <1>10 DEF DiscoverPage
<1>12. r.kind = read.kind /\ r.stop = stop /\ r.seen = seen /\ r.queue = queue /\ r.lanes = read.lanes
  BY <1>1 DEF ListReads
<1>13. queue \in Seq(Partitions) /\ DOMAIN queue = 1 .. Len(queue)
  <2>1. [first EXCEPT !.cursor = page.cursor] \in Partitions
    BY <1>6 DEF Partitions
  <2> QED  BY <1>9, <2>1 DEF Queue
<1>14. CASE Cardinality(found) >= MaxItems
  <2>1. stop = "result_limit"
    BY <1>10, <1>14
  <2>2. Limited(r) /\ r.stop = "result_limit" /\ r.kind = "discover"
    BY <1>1, <1>12, <2>1 DEF Limited
  <2>3. r \notin CandleReads
    BY <2>2 DEF CandleReads
  <2> HIDE DEF r
  <2> QED  BY <1>1, <1>11, <2>2, <2>3, ReadGoes
<1>15. CASE ~(Cardinality(found) >= MaxItems)
  <2>1. IsFiniteSet(found) /\ found \in SUBSET Items
    <3>1. found \in SUBSET Items
      BY <1>3, <1>6, <1>7
    <3>2. IsFiniteSet(Items)
      BY ReadBounds, FS_Interval DEF Items
    <3> QED  BY <3>1, <3>2, FS_Subset
  <2>2. Cardinality(found) \in Nat
    BY <2>1, FS_CardinalityType
  <2>3. Cardinality(found) <= MaxItems
    BY <1>15, <2>2, ReadBounds
  <2>4. seen = found /\ stop = "none"
    <3>1. seen = found
      BY <1>8, <2>3
    <3>2. stop = "none"
      BY <1>1, <1>10, <1>15
    <3> QED  BY <3>1, <3>2
  <2>5. r \in ListReads
    <3>1. PICK pages \in Nat : pages = read.pages + 1
      BY <1>3
    <3>2. r = [read EXCEPT !.pages = pages, !.attempt = 1, !.seen = found, !.stop = "none", !.queue = queue]
      BY <2>4, <3>1
    <3> QED  BY ONLY <1>1, <1>13, <2>1, <3>2, pages \in Nat DEF ListReads
  <2>6. r \notin CandleReads /\ r.kind = "discover"
    BY <1>1, <1>12 DEF CandleReads
  <2> HIDE DEF r
  <2>7. DiscoverInv(r)
    <3> SUFFICES ASSUME NEW i \in site.kept, site.lane[i] \in read.lanes, i \notin found
                 PROVE  \E n \in DOMAIN queue : site.lane[i] \in queue[n].lanes /\ i > queue[n].cursor
      BY <1>12, <2>4 DEF DiscoverInv, ToDiscover
    <3>1. i \in Items /\ i \notin read.seen /\ i \notin page.rows
      BY <1>7 DEF ReadInv, ReadType, Sites
    <3>2. PICK n \in DOMAIN read.queue : site.lane[i] \in read.queue[n].lanes /\ i > read.queue[n].cursor
      BY <1>2, <3>1 DEF DiscoverInv, ToDiscover
    <3>3. CASE n = 1
      <4>1. read.queue[n] = first
        BY <1>1, <1>3, <1>4, <3>3
      <4>2. page.more /\ i > page.cursor
        BY <1>6, <3>1, <3>2, <4>1
      <4>3. queue = Append(others, [first EXCEPT !.cursor = page.cursor])
        BY <1>9, <4>2 DEF Queue
      <4>4. Len(others) + 1 \in DOMAIN queue /\ queue[Len(others) + 1] = [first EXCEPT !.cursor = page.cursor]
        BY <4>3
      <4>5. queue[Len(others) + 1].lanes = first.lanes /\ queue[Len(others) + 1].cursor = page.cursor
        BY <4>4 DEF Partitions
      <4> QED  BY <3>2, <4>1, <4>2, <4>4, <4>5
    <3>4. CASE n # 1
      <4>1. n - 1 \in 1 .. Len(others) /\ others[n - 1] = read.queue[n]
        BY <1>3, <1>4, <3>4
      <4>2. n - 1 \in DOMAIN queue /\ queue[n - 1] = others[n - 1]
        BY <1>9, <4>1 DEF Queue
      <4> QED  BY <3>2, <4>1, <4>2
    <3> QED  BY <3>3, <3>4
  <2> QED  BY <1>1, <1>11, <2>5, <2>6, <2>7, ReadGoes
<1> QED  BY <1>14, <1>15

LEMMA DiscoverEnds == ASSUME ReadInv, DiscoverStops PROVE ReadInv'
<1> DEFINE r == [read EXCEPT !.stop = IF read.queue # <<>> THEN "page_limit" ELSE "source_exhausted"]
<1>1. read \in ListReads /\ read.kind = "discover" /\ read.stop = "none" /\ read' = r /\ UNCHANGED site
  BY ReadIs DEF ReadInv, DiscoverStops, Limited
<1>2. /\ r \in ListReads /\ r.kind = "discover" /\ r.seen = read.seen /\ r.queue = read.queue /\ r.lanes = read.lanes
      /\ r.stop = "source_exhausted" => read.queue = <<>>
  BY <1>1 DEF ListReads
<1>3. r \notin CandleReads
  BY <1>2 DEF CandleReads
<1> HIDE DEF r
<1>4. DiscoverInv(r)
  BY <1>1, <1>2 DEF ReadInv, DiscoverInv, ToDiscover
<1> QED  BY <1>1, <1>2, <1>3, <1>4, ReadGoes

LEMMA WalkPages == ASSUME ReadInv, WalkPage PROVE ReadInv'
<1>1. read \in ListReads /\ read.kind = "participants" /\ read.stop = "none" /\ UNCHANGED site
  BY ReadIs DEF ReadInv, WalkPage, Limited
<1>2. WalkInv(read)
  BY <1>1 DEF ReadInv
<1>3. /\ read.queue \in Seq(Partitions) /\ read.seen \in SUBSET Items /\ read.pages \in Nat /\ Len(read.queue) \in {1, 2}
      /\ read.cut \in BOOLEAN
  BY <1>1, <1>2 DEF ListReads, WalkInv
<1>4. PICK first \in Partitions : first = read.queue[1] /\ first = Head(read.queue)
  BY <1>3
<1>5. PICK page : page = Page(first)
  OBVIOUS
<1>6. /\ page.cursor \in Nat /\ page.more \in BOOLEAN /\ page.rows \in SUBSET Items
      /\ \A i \in Items : site.lane[i] \in first.lanes /\ i > first.cursor =>
           i \in page.rows \/ (page.more /\ i > page.cursor)
  BY <1>5, PageHas
<1>7. PICK capped \in BOOLEAN, over \in BOOLEAN :
        capped = (page.more /\ read.pages + 1 = MaxPages) /\ over = (~page.more \/ capped)
  BY <1>6
<1>8. PICK queue : queue = IF over THEN Tail(read.queue) ELSE [read.queue EXCEPT ![1].cursor = page.cursor]
  OBVIOUS
<1>9. PICK stop : stop = IF ~over \/ Len(read.queue) > 1 THEN read.stop
                         ELSE IF capped \/ read.cut THEN "page_limit" ELSE "source_exhausted"
  OBVIOUS
<1>10. PICK seen : seen = read.seen \cup page.rows
  OBVIOUS
<1>11. PICK pages : pages = IF over THEN 0 ELSE read.pages + 1
  OBVIOUS
<1>12. PICK cut \in BOOLEAN : cut = (read.cut \/ capped)
  BY <1>3, <1>7
<1> DEFINE r == [read EXCEPT !.attempt = 1, !.seen = seen, !.pages = pages, !.queue = queue, !.cut = cut, !.stop = stop]
<1>13. read' = r
  BY <1>4, <1>5, <1>7, <1>8, <1>9, <1>10, <1>11, <1>12 DEF WalkPage
<1>14. [first EXCEPT !.cursor = page.cursor] \in Partitions
  BY <1>6 DEF Partitions
<1>15. ~over => /\ queue = [read.queue EXCEPT ![1] = [first EXCEPT !.cursor = page.cursor]] /\ queue \in Seq(Partitions)
                /\ Len(queue) = Len(read.queue)
  <2> SUFFICES ASSUME ~over
               PROVE  /\ queue = [read.queue EXCEPT ![1] = [first EXCEPT !.cursor = page.cursor]]
                      /\ queue \in Seq(Partitions) /\ Len(queue) = Len(read.queue)
    OBVIOUS
  <2>1. queue = [read.queue EXCEPT ![1] = [first EXCEPT !.cursor = page.cursor]]
    BY <1>4, <1>8
  <2>2. PICK p \in Partitions : p = [first EXCEPT !.cursor = page.cursor]
    BY <1>14
  <2>3. queue = [read.queue EXCEPT ![1] = p]
    BY <2>1, <2>2
  <2>4. queue \in Seq(Partitions) /\ Len(queue) = Len(read.queue)
    BY <1>3, <2>3
  <2> QED  BY <2>1, <2>4
<1>16. over => queue = Tail(read.queue) /\ queue \in Seq(Partitions) /\ Len(queue) = Len(read.queue) - 1
  <2>1. PICK s \in Seq(Partitions) : s = read.queue
    BY <1>3
  <2>2. PICK n \in {1, 2} : n = Len(s)
    BY <1>3, <2>1
  <2>3. s # <<>>
    <3>1. Len(<<>>) = 0
      OBVIOUS
    <3> QED  BY <2>2, <3>1
  <2>4. Tail(s) \in Seq(Partitions) /\ Len(Tail(s)) = Len(s) - 1
    BY <2>3
  <2> QED  BY <1>8, <2>1, <2>4
<1>17. stop \in {"none", "page_limit", "source_exhausted"} /\ pages \in Nat /\ seen \in SUBSET Items
       /\ queue \in Seq(Partitions)
  BY <1>1, <1>3, <1>6, <1>7, <1>9, <1>10, <1>11, <1>15, <1>16
<1>18. r \in ListReads /\ r.kind = "participants" /\ r.stop = stop /\ r.queue = queue /\ r.seen = seen /\ r.cut = cut
  BY ONLY <1>1, <1>17, cut \in BOOLEAN DEF ListReads
<1>19. r \notin CandleReads
  BY <1>18 DEF CandleReads
<1> HIDE DEF r
<1>20. ASSUME NEW i \in site.steady, i \notin seen, ~read.cut
       PROVE  /\ i \in Items /\ i \notin page.rows
              /\ Len(read.queue) = 2 => site.lane[i] = "closed" \/ (page.more /\ i > page.cursor)
              /\ Len(read.queue) = 1 => site.lane[i] = "closed" /\ page.more /\ i > page.cursor
  <2>1. i \in Items /\ i \notin page.rows /\ i \notin read.seen /\ site.lane[i] \in {"open", "closed"}
    BY <1>10, <1>20 DEF ReadInv, ReadType, Sites, Listed, Lanes
  <2>2. CASE Len(read.queue) = 2
    <3>1. first.lanes = {"open"} /\ (site.lane[i] = "closed" \/ i > first.cursor)
      BY <1>2, <1>4, <1>20, <2>1, <2>2 DEF WalkInv
    <3> QED  BY <1>6, <2>1, <2>2, <3>1
  <2>3. CASE Len(read.queue) = 1
    <3>1. first.lanes = {"closed"} /\ site.lane[i] = "closed" /\ i > first.cursor
      BY <1>2, <1>4, <1>20, <2>1, <2>3 DEF WalkInv
    <3> QED  BY <1>6, <2>1, <2>3, <3>1
  <2> QED  BY <1>3, <2>1, <2>2, <2>3
<1>21. CASE over
  <2>1. CASE Len(read.queue) = 2
    <3>1. read.queue[2] = [lanes |-> {"closed"}, cursor |-> 0] /\ Len(queue) = 1 /\ queue[1] = read.queue[2]
      BY <1>2, <1>3, <1>16, <1>21, <2>1 DEF WalkInv
    <3>2. queue[1].lanes = {"closed"} /\ queue[1].cursor = 0 /\ stop = "none"
      BY <1>1, <1>9, <2>1, <3>1
    <3>3. ASSUME ~cut, NEW i \in site.steady \ seen PROVE site.lane[i] = "closed" /\ i > 0
      <4>1. ~read.cut /\ ~page.more
        BY <1>7, <1>12, <1>21, <3>3
      <4>2. i > 0
        BY <1>20, <3>3, <4>1, ReadBounds DEF Items
      <4> QED  BY <1>20, <2>1, <3>3, <4>1, <4>2
    <3>4. WalkInv(r)
      BY <1>18, <3>1, <3>2, <3>3 DEF WalkInv
    <3> QED  BY <1>1, <1>13, <1>18, <1>19, <3>4, ReadGoes
  <2>2. CASE Len(read.queue) = 1
    <3>1. Len(queue) = 0 /\ stop # "none" /\ (stop = "source_exhausted" => ~cut)
      BY <1>9, <1>12, <1>16, <1>21, <2>2
    <3>2. ASSUME ~cut PROVE site.steady \ seen = {}
      <4>1. ~read.cut /\ ~page.more
        BY <1>7, <1>12, <1>21, <3>2
      <4> QED  BY <1>20, <2>2, <4>1
    <3>3. WalkInv(r)
      BY <1>18, <3>1, <3>2 DEF WalkInv
    <3> QED  BY <1>1, <1>13, <1>18, <1>19, <3>3, ReadGoes
  <2> QED  BY <1>3, <2>1, <2>2
<1>22. CASE ~over
  <2>1. /\ Len(queue) = Len(read.queue) /\ stop = "none" /\ page.more /\ cut = read.cut
        /\ queue = [read.queue EXCEPT ![1] = [first EXCEPT !.cursor = page.cursor]]
    BY <1>1, <1>3, <1>7, <1>9, <1>12, <1>15, <1>22
  <2>2. queue[1].lanes = first.lanes /\ queue[1].cursor = page.cursor
    BY <1>3, <1>14, <2>1 DEF Partitions
  <2>3. Len(read.queue) = 2 => queue[2] = read.queue[2]
    BY <1>3, <2>1
  <2>4. WalkInv(r)
    BY <1>2, <1>3, <1>4, <1>18, <1>20, <2>1, <2>2, <2>3 DEF WalkInv
  <2> QED  BY <1>1, <1>13, <1>18, <1>19, <2>4, ReadGoes
<1> QED  BY <1>21, <1>22

-----------------------------------------------------------------------------
(* Candles. *)

LEMMA CandlesBegin == ASSUME ReadInv, Candles PROVE ReadInv'
<1>1. UNCHANGED site
  BY DEF Candles
<1>2. PICK auto \in BOOLEAN, dataset \in {"live", "historical"} :
        read' = [kind |-> "candles", stop |-> "none", attempt |-> 1, auto |-> auto,
                 dataset |-> dataset, window |-> 1, payloads |-> {}]
  BY DEF Candles
<1>3. PICK r : r = [kind |-> "candles", stop |-> "none", attempt |-> 1, auto |-> auto,
                    dataset |-> dataset, window |-> 1, payloads |-> {}]
  OBVIOUS
<1>4. r \in CandleReads /\ r.window = 1 /\ r.stop = "none" /\ r.kind = "candles"
  BY <1>3 DEF CandleReads
<1>5. r \notin ListReads
  BY <1>4 DEF ListReads
<1>6. CandleInv(r)
  BY <1>4 DEF CandleInv
<1> QED  BY <1>1, <1>2, <1>3, <1>4, <1>5, <1>6, ReadGoes

LEMMA WindowRead == ASSUME ReadInv, CandleWindow PROVE ReadInv'
<1>1. read \in CandleReads /\ read.stop = "none" /\ UNCHANGED site /\ CandleInv(read)
  BY ReadIs DEF ReadInv, CandleWindow
<1>2. PICK w \in Nat, d \in {"live", "historical"} : w = read.window /\ d = read.dataset
  BY <1>1 DEF CandleReads
<1>3. PICK payloads : payloads = read.payloads \cup {[window |-> w, dataset |-> d]}
  OBVIOUS
<1>4. PICK stop : stop = IF w = Windows THEN "returned" ELSE read.stop
  OBVIOUS
<1>5. PICK next \in Nat : next = w + 1
  OBVIOUS
<1> DEFINE r == [read EXCEPT !.attempt = 1, !.window = next, !.payloads = payloads, !.stop = stop]
<1>6. read' = r
  BY <1>2, <1>3, <1>4, <1>5 DEF CandleWindow
<1>7. payloads \in SUBSET [window : Nat, dataset : {"live", "historical"}] /\ stop \in {"none", "returned"}
  BY <1>1, <1>3, <1>4 DEF CandleReads
<1>8. /\ r \in CandleReads /\ r.window = next /\ r.dataset = d /\ r.payloads = payloads /\ r.stop = stop
  BY ONLY <1>1, <1>2, <1>7, next \in Nat DEF CandleReads
<1> HIDE DEF r
<1>9. r \notin ListReads
  BY <1>8 DEF ListReads, CandleReads
<1>10. ASSUME NEW v \in 1 .. Windows, v < next PROVE [window |-> v, dataset |-> d] \in payloads
  <2>1. CASE v = w
    BY <1>3, <2>1
  <2>2. CASE v # w
    <3>1. v < w
      BY ONLY <1>5, <1>10, <2>2, w \in Nat
    <3> QED  BY <1>1, <1>2, <1>3, <3>1 DEF CandleInv
  <2> QED  BY <2>1, <2>2
<1>11. next # 0 /\ (stop = "returned" => next = Windows + 1 /\ Windows \in Nat)
  BY <1>1, <1>4, <1>5
<1>12. CandleInv(r)
  BY <1>8, <1>10, <1>11 DEF CandleInv
<1> QED  BY <1>1, <1>6, <1>8, <1>9, <1>12, ReadGoes

LEMMA WindowMissing == ASSUME ReadInv, CandlesMissing PROVE ReadInv'
<1>1. /\ read \in CandleReads /\ read.stop = "none" /\ site' = site
      /\ read' = IF read.auto THEN Restarted([read EXCEPT !.attempt = 1]) ELSE NoRead
  BY ReadIs DEF ReadInv, CandlesMissing
<1>2. CASE ~read.auto
  BY <1>1, <1>2, ReadEnds
<1>3. CASE read.auto
  <2>1. PICK r : r = Restarted([read EXCEPT !.attempt = 1])
    OBVIOUS
  <2>2. [read EXCEPT !.attempt = 1] \in CandleReads /\ [read EXCEPT !.attempt = 1].stop = "none"
    BY <1>1 DEF CandleReads
  <2>3. PICK s \in CandleReads : s = [read EXCEPT !.attempt = 1] /\ s.stop = "none"
    BY <2>2
  <2>4. r = [s EXCEPT !.auto = FALSE, !.dataset = Other(@), !.window = 1]
    BY <2>1, <2>3 DEF Restarted
  <2>5. r \in CandleReads /\ r.window = 1 /\ r.stop = "none" /\ r.kind = "candles"
    BY <2>3, <2>4 DEF CandleReads, Other
  <2>6. r \notin ListReads
    BY <2>5 DEF ListReads
  <2>7. CandleInv(r)
    BY <2>5 DEF CandleInv
  <2> QED  BY <1>1, <1>3, <2>1, <2>5, <2>6, <2>7, ReadGoes
<1> QED  BY <1>2, <1>3

LEMMA ReadSteps == ReadInv /\ [ReadNext]_readVars => ReadInv'
<1> SUFFICES ASSUME ReadInv, [ReadNext]_readVars PROVE ReadInv'
  OBVIOUS
<1>1. CASE \E i \in Items, to \in Lanes : ItemMoves(i, to)
  BY <1>1, ItemMove
<1>2. CASE MarketMigrates
  BY <1>2, Migrates
<1>3. CASE AttemptFails
  BY <1>3, AttemptFailed
<1>4. CASE ReadRaises \/ ReadReturns
  BY <1>4, ReadEnds DEF ReadRaises, ReadReturns
<1>5. CASE Discover \/ Participants
  BY <1>5, ReadsBegin
<1>6. CASE DiscoverPage
  BY <1>6, DiscoverPages
<1>7. CASE DiscoverStops
  BY <1>7, DiscoverEnds
<1>8. CASE WalkPage
  BY <1>8, WalkPages
<1>9. CASE Candles
  BY <1>9, CandlesBegin
<1>10. CASE CandleWindow
  BY <1>10, WindowRead
<1>11. CASE CandlesMissing
  BY <1>11, WindowMissing
<1>12. CASE UNCHANGED readVars
  <2>1. read' = read /\ site' = site
    BY <1>12 DEF readVars
  <2>2. PICK r : r = read
    OBVIOUS
  <2>3. /\ r = NoRead \/ r \in ListReads \/ r \in CandleReads \/ Limited(r)
        /\ r \in ListReads /\ r.kind = "discover" /\ r.stop # "result_limit" => DiscoverInv(r)
        /\ r \in ListReads /\ r.kind = "participants" => WalkInv(r)
        /\ r \in CandleReads => CandleInv(r)
    BY <2>2 DEF ReadInv, ReadType
  <2> QED  BY <2>1, <2>2, <2>3, ReadGoes
<1> QED  BY <1>1, <1>2, <1>3, <1>4, <1>5, <1>6, <1>7, <1>8, <1>9, <1>10, <1>11, <1>12 DEF ReadNext

LEMMA VenueReadBegins == Init => ReadInit
  BY DEF Init

LEMMA VenueReadGoes == [Next]_commandVars => [ReadNext]_readVars
  BY DEF commandVars, Next, Capture, RunJobs, ResolveMarkets, SuperviseShard,
    ReadVenue, ReplayTape, UseRun, IngestMarkets, PollVenue, OpenCatalog,
    ObserveShard, EmitQuotes, StreamDatasets, ResolveBatch, PlanFeed, ReadSocket,
    readVars

Raws == [kind : {"frame", "ping", "pong"}, n : Nat]
HandedFrames == [number : Nat, n : Nat]
Links == [number : Nat, up : BOOLEAN, wire : Seq(Raws), sent : Nat, asked : BOOLEAN]
Clients == [ws : BOOLEAN, frames : Seq(Nat), event : BOOLEAN, error : BOOLEAN, pending : BOOLEAN]
SocketWorkers == [receiver : {"none", "taking", "putting", "done", "failed", "cancelled"}, hand : Nat,
            heartbeat : {"none", "beating", "closing", "done"}]
Readings == [at : {"opening", "held", "asleep", "left", "retrying", "over"}, used : Nat,
             why : {"none", "heartbeat", "clean", "receiver", "closed"}, handed : Seq(HandedFrames)]

SocketType ==
  /\ link \in Links /\ client \in Clients /\ socketTasks \in SocketWorkers /\ reading \in Readings

\* The frames of s follow one another, a connection's from its first one.
ByTurn(s) ==
  \A i \in DOMAIN s : s[i].n = IF i > 1 /\ s[i - 1].number = s[i].number THEN s[i - 1].n + 1 ELSE 1

\* What the consumer was handed.
HandedInOrder ==
  /\ ByTurn(reading.handed)
  /\ \A i, j \in DOMAIN reading.handed : i < j => reading.handed[i].number <= reading.handed[j].number
  /\ \A i \in DOMAIN reading.handed : reading.handed[i].number <= link.number

\* What is between the socket and the consumer.
QueueFollows ==
  /\ \A i \in DOMAIN client.frames : client.frames[i] = Handed + i
  /\ Blocked => socketTasks.hand = Taken
WireFollows ==
  /\ Taken <= link.sent /\ {link.wire[i].n : i \in FramesOnWire} = Taken + 1 .. link.sent
  /\ \A i, j \in FramesOnWire : i < j => link.wire[i].n < link.wire[j].n

\* Who is at work: a receiver only beside a socket the client holds, and nobody between two
\* connections.
WorkersStand ==
  /\ client.ws => socketTasks.receiver # "cancelled" /\ ~client.error
  /\ ReceiverAlive => client.ws
  /\ reading.at \in {"held", "asleep", "left"} => (client.ws \/ client.error) /\ reading.why = "none"
  /\ reading.at = "opening" => reading.why = "none"
  /\ reading.at \in {"opening", "retrying", "over"} =>
       ~client.ws /\ ~ReceiverAlive /\ socketTasks.heartbeat = "none"
  /\ reading.why \in {"clean", "receiver"} => client.frames = <<>>
  /\ reading.at = "asleep" /\ ~client.event /\ ReceiverAlive => client.frames = <<>> /\ ~client.error

SocketInv ==
  /\ SocketType /\ HandedInOrder /\ WorkersStand
  /\ client.ws => QueueFollows /\ WireFollows

LEMMA SocketTold == SocketInv => StreamIsWhole
<1> SUFFICES ASSUME SocketInv PROVE StreamIsWhole
  OBVIOUS
<1>1. HandedInOrder /\ WorkersStand
  BY DEF SocketInv
<1>2. client.ws => QueueFollows /\ WireFollows
  BY DEF SocketInv
<1>3. ASSUME client.ws
      PROVE  /\ \A i \in DOMAIN client.frames : client.frames[i] = Handed + i
             /\ Blocked => socketTasks.hand = Taken
             /\ Taken <= link.sent /\ {link.wire[i].n : i \in FramesOnWire} = Taken + 1 .. link.sent
             /\ \A i, j \in FramesOnWire : i < j => link.wire[i].n < link.wire[j].n
  BY <1>2, <1>3 DEF QueueFollows, WireFollows
<1>4. /\ reading.why \in {"clean", "receiver"} => client.frames = <<>>
      /\ reading.at = "asleep" /\ ~client.event /\ ReceiverAlive => client.frames = <<>> /\ ~client.error
      /\ reading.at \in {"retrying", "over"} => ~ReceiverAlive /\ socketTasks.heartbeat = "none"
  BY <1>1 DEF WorkersStand
<1> QED  BY <1>1, <1>3, <1>4 DEF StreamIsWhole, HandedInOrder, ByTurn

LEMMA SocketStarts == SocketInit => SocketInv
<1> SUFFICES ASSUME SocketInit PROVE SocketInv
  OBVIOUS
<1>1. link \in Links /\ client \in Clients /\ socketTasks \in SocketWorkers
  BY DEF SocketInit, NoLink, NoClient, NoWorkers, Links, Clients, SocketWorkers
<1>2. reading \in Readings
  BY DEF SocketInit, Readings
<1>3. HandedInOrder
  BY DEF SocketInit, HandedInOrder, ByTurn
<1>4. WorkersStand
  BY DEF SocketInit, WorkersStand, NoClient, NoWorkers, ReceiverAlive
<1>5. ~client.ws
  BY DEF SocketInit, NoClient
<1> QED  BY <1>1, <1>2, <1>3, <1>4, <1>5 DEF SocketInv, SocketType

\* What the parts depend on.
LEMMA HandedSame == HandedInOrder /\ reading'.handed = reading.handed /\ link'.number = link.number
                      => HandedInOrder'
  BY DEF HandedInOrder

LEMMA QueueSame ==
  QueueFollows /\ reading'.handed = reading.handed /\ link'.number = link.number
    /\ client'.frames = client.frames
    /\ socketTasks'.receiver = socketTasks.receiver /\ socketTasks'.hand = socketTasks.hand
    => QueueFollows' /\ Taken' = Taken /\ Handed' = Handed
  BY DEF QueueFollows, Taken, Handed, Blocked

LEMMA WireSame ==
  WireFollows /\ link'.wire = link.wire /\ link'.sent = link.sent /\ Taken' = Taken => WireFollows'
  BY DEF WireFollows, FramesOnWire

LEMMA FramesCounted == SocketType => Handed \in Nat /\ Taken \in Nat /\ Len(client.frames) \in Nat
<1> SUFFICES ASSUME SocketType PROVE Handed \in Nat /\ Taken \in Nat /\ Len(client.frames) \in Nat
  OBVIOUS
<1>1. reading.handed \in Seq(HandedFrames) /\ client.frames \in Seq(Nat)
  BY DEF SocketType, Readings, Clients
<1>2. Len(client.frames) \in Nat
  BY <1>1
<1>3. Handed \in Nat
  <2>1. CASE Len(reading.handed) > 0
    <3>1. reading.handed[Len(reading.handed)] \in HandedFrames
      BY <1>1, <2>1
    <3> QED  BY <3>1 DEF Handed, HandedFrames
  <2>2. CASE ~ (Len(reading.handed) > 0)
    BY <2>2 DEF Handed
  <2> QED  BY <2>1, <2>2
<1>4. Taken = Handed + Len(client.frames) + 1 \/ Taken = Handed + Len(client.frames) + 0
  BY DEF Taken
<1> QED  BY <1>2, <1>3, <1>4

-----------------------------------------------------------------------------
\* The venue.

LEMMA VenueKeeps == SocketInv /\ (VenueSends \/ VenueBeats \/ LinkBreaks) => SocketInv'
<1> SUFFICES ASSUME SocketInv, VenueSends \/ VenueBeats \/ LinkBreaks PROVE SocketInv'
  OBVIOUS
<1>t. SocketType /\ HandedInOrder /\ WorkersStand /\ (client.ws => QueueFollows /\ WireFollows)
  BY DEF SocketInv
<1>u. link \in Links /\ link.wire \in Seq(Raws) /\ link.sent \in Nat
  BY <1>t DEF SocketType, Links
<1>n. Taken \in Nat
  BY <1>t, FramesCounted
<1>1. UNCHANGED <<client, socketTasks, reading>>
  BY DEF VenueSends, VenueBeats, LinkBreaks
<1>2. link'.number = link.number
  BY <1>u DEF VenueSends, VenueBeats, LinkBreaks, Links
<1>3. HandedInOrder'
  BY <1>t, <1>1, <1>2, HandedSame
<1>4. WorkersStand'
  BY <1>t, <1>1 DEF WorkersStand, ReceiverAlive
<1>5. QueueFollows => QueueFollows' /\ Taken' = Taken
  BY <1>1, <1>2, QueueSame
<1>6. link' \in Links /\ (WireFollows /\ Taken' = Taken => WireFollows')
  <2>1. CASE VenueSends
    <3> DEFINE raw == WireFrame(link.sent + 1)
    <3>1. raw \in Raws /\ raw.kind = "frame" /\ raw.n = link.sent + 1
      BY <1>u DEF WireFrame, Raws
    <3> HIDE DEF raw
    <3>2. link' = [link EXCEPT !.sent = link.sent + 1, !.wire = Append(link.wire, raw)]
      BY <2>1 DEF VenueSends, raw
    <3>3. Append(link.wire, raw) \in Seq(Raws)
      BY <1>u, <3>1
    <3>4. link' \in Links /\ link'.wire = Append(link.wire, raw) /\ link'.sent = link.sent + 1
      <4>1. PICK w \in Seq(Raws) : w = Append(link.wire, raw)
        BY <3>3
      <4>2. PICK n \in Nat : n = link.sent + 1
        BY <1>u
      <4>3. link' = [link EXCEPT !.sent = n, !.wire = w]
        BY <3>2, <4>1, <4>2
      <4>4. link' \in Links /\ link'.wire = w /\ link'.sent = n
        BY ONLY <1>u, <4>1, <4>2, <4>3 DEF Links
      <4> QED  BY <4>1, <4>2, <4>4
    <3>5. ASSUME WireFollows, Taken' = Taken PROVE WireFollows'
      <4> DEFINE m == Len(link.wire)
      <4>1. m \in Nat /\ DOMAIN link.wire = 1 .. m /\ DOMAIN link'.wire = 1 .. m + 1
        BY <1>u, <3>1, <3>4
      <4>2. link'.wire[m + 1] = raw /\ \A i \in 1 .. m : link'.wire[i] = link.wire[i]
        BY <1>u, <3>1, <3>4
      <4> HIDE DEF m
      <4>3. FramesOnWire' = FramesOnWire \cup {m + 1} /\ FramesOnWire \subseteq 1 .. m
        BY <3>1, <4>1, <4>2 DEF FramesOnWire
      <4>4. \A i \in FramesOnWire : link.wire[i].n \in Taken + 1 .. link.sent
        BY <3>5 DEF WireFollows
      <4>5. Taken <= link.sent /\ {link.wire[i].n : i \in FramesOnWire} = Taken + 1 .. link.sent
        BY <3>5 DEF WireFollows
      <4>6. Taken + 1 .. link.sent + 1 = (Taken + 1 .. link.sent) \cup {link.sent + 1}
        BY <1>n, <1>u, <4>5
      <4>7. {link'.wire[i].n : i \in FramesOnWire'} = {link.wire[i].n : i \in FramesOnWire} \cup {link.sent + 1}
        BY <3>1, <4>2, <4>3
      <4>8. Taken' <= link'.sent /\ {link'.wire[i].n : i \in FramesOnWire'} = Taken' + 1 .. link'.sent
        <5>1. Taken' = Taken /\ link'.sent = link.sent + 1
          BY <3>4, <3>5
        <5>2. Taken <= link.sent + 1
          BY <1>n, <1>u, <4>5
        <5> QED  BY <4>5, <4>6, <4>7, <5>1, <5>2
      <4>9. \A i, j \in FramesOnWire' : i < j => link'.wire[i].n < link'.wire[j].n
        <5> SUFFICES ASSUME NEW i \in FramesOnWire', NEW j \in FramesOnWire', i < j
                     PROVE  link'.wire[i].n < link'.wire[j].n
          OBVIOUS
        <5>1. i \in FramesOnWire /\ i \in 1 .. m
          BY <4>1, <4>3
        <5>2. CASE j = m + 1
          BY <1>u, <1>n, <3>1, <4>2, <4>4, <5>1, <5>2
        <5>3. CASE j \in FramesOnWire
          BY <3>5, <4>2, <4>3, <5>1, <5>3 DEF WireFollows
        <5> QED  BY <4>3, <5>2, <5>3
      <4> QED  BY <4>8, <4>9 DEF WireFollows
    <3> QED  BY <3>4, <3>5
  <2>2. CASE VenueBeats
    <3>1. PICK kind \in {"ping", "pong"} :
            link' = [link EXCEPT !.wire = Append(link.wire, Token(kind)), !.asked = link.asked /\ kind # "pong"]
      BY <2>2 DEF VenueBeats
    <3> DEFINE raw == Token(kind)
    <3>2. raw \in Raws /\ raw.kind # "frame"
      BY DEF Token, Raws
    <3> HIDE DEF raw
    <3>3. Append(link.wire, raw) \in Seq(Raws)
      BY <1>u, <3>2
    <3>4. link' \in Links /\ link'.wire = Append(link.wire, raw) /\ link'.sent = link.sent
      <4> DEFINE asked == link.asked /\ kind # "pong"
      <4>1. (asked) \in BOOLEAN
        OBVIOUS
      <4>2. link' = [link EXCEPT !.wire = Append(link.wire, raw), !.asked = asked]
        BY <3>1 DEF raw
      <4> HIDE DEF asked
      <4> QED  BY <1>u, <3>3, <4>1, <4>2 DEF Links
    <3>5. FramesOnWire' = FramesOnWire /\ \A i \in FramesOnWire : link'.wire[i] = link.wire[i]
      <4> DEFINE m == Len(link.wire)
      <4>1. m \in Nat /\ DOMAIN link.wire = 1 .. m /\ DOMAIN link'.wire = 1 .. m + 1
        BY <1>u, <3>2, <3>4
      <4>2. link'.wire[m + 1] = raw /\ \A i \in 1 .. m : link'.wire[i] = link.wire[i]
        BY <1>u, <3>2, <3>4
      <4> HIDE DEF m
      <4> QED  BY <3>2, <4>1, <4>2 DEF FramesOnWire
    <3>6. {link'.wire[i].n : i \in FramesOnWire'} = {link.wire[i].n : i \in FramesOnWire}
      BY <3>5
    <3>7. ASSUME WireFollows, Taken' = Taken PROVE WireFollows'
      BY <3>4, <3>5, <3>6, <3>7 DEF WireFollows
    <3> QED  BY <3>4, <3>7
  <2>3. CASE LinkBreaks
    <3>1. link' \in Links /\ link'.wire = link.wire /\ link'.sent = link.sent
      BY <1>u, <2>3 DEF LinkBreaks, Links
    <3> QED  BY <3>1, WireSame
  <2> QED  BY <2>1, <2>2, <2>3
<1>7. client'.ws = client.ws
  BY <1>1
<1>8. client'.ws => QueueFollows' /\ WireFollows'
  BY <1>t, <1>5, <1>6, <1>7
<1>9. SocketType'
  BY <1>t, <1>1, <1>6 DEF SocketType
<1> QED  BY <1>3, <1>4, <1>8, <1>9 DEF SocketInv

-----------------------------------------------------------------------------
\* The receiver.

\* The head of the wire, if it is a frame, is the next one; the rest follows it.
LEMMA HeadIsNext ==
  ASSUME SocketType, WireFollows, link.wire # <<>>, link'.wire = Tail(link.wire), link'.sent = link.sent,
         Taken' = IF Head(link.wire).kind = "frame" THEN Taken + 1 ELSE Taken
  PROVE  WireFollows' /\ (Head(link.wire).kind = "frame" => Head(link.wire).n = Taken + 1)
<1>u. link.wire \in Seq(Raws) /\ link.sent \in Nat /\ Taken \in Nat
  BY FramesCounted DEF SocketType, Links
<1>t. PICK taken \in Nat : taken = Taken
  BY <1>u
<1>s. PICK sent \in Nat : sent = link.sent
  BY <1>u
<1> DEFINE m == Len(link.wire)
<1>1. m \in Nat /\ m > 0 /\ DOMAIN link.wire = 1 .. m /\ DOMAIN link'.wire = 1 .. m - 1
      /\ Head(link.wire) = link.wire[1] /\ \A i \in 1 .. m - 1 : link'.wire[i] = link.wire[i + 1]
  BY <1>u
<1> HIDE DEF m
<1>2. \A i \in FramesOnWire' : i + 1 \in FramesOnWire /\ link'.wire[i] = link.wire[i + 1] /\ i \in Nat
  BY <1>1 DEF FramesOnWire
<1>3. \A i \in FramesOnWire : i \in 1 .. m /\ (i # 1 => i - 1 \in FramesOnWire' /\ link'.wire[i - 1] = link.wire[i])
  BY <1>1 DEF FramesOnWire
<1>4. \A i, j \in FramesOnWire' : i < j => link'.wire[i].n < link'.wire[j].n
  <2> SUFFICES ASSUME NEW i \in FramesOnWire', NEW j \in FramesOnWire', i < j
               PROVE  link'.wire[i].n < link'.wire[j].n
    OBVIOUS
  <2>1. i + 1 \in FramesOnWire /\ j + 1 \in FramesOnWire /\ i + 1 < j + 1
    BY <1>2
  <2> QED  BY <1>2, <2>1 DEF WireFollows
<1> DEFINE Unread == {link.wire[i].n : i \in FramesOnWire}
           UnreadAfter == {link'.wire[i].n : i \in FramesOnWire'}
<1>5. Unread = taken + 1 .. sent /\ taken <= sent
  BY <1>t, <1>s DEF WireFollows
<1>6. \A i \in FramesOnWire : link.wire[i].n \in Unread
  OBVIOUS
<1>7. \A n \in UnreadAfter : \E i \in FramesOnWire : i # 1 /\ n = link.wire[i].n
  <2> SUFFICES ASSUME NEW n \in UnreadAfter PROVE \E i \in FramesOnWire : i # 1 /\ n = link.wire[i].n
    OBVIOUS
  <2>1. PICK i \in FramesOnWire' : n = link'.wire[i].n
    OBVIOUS
  <2>2. i + 1 \in FramesOnWire /\ i + 1 # 1 /\ n = link.wire[i + 1].n
    BY <1>1, <1>2, <2>1 DEF FramesOnWire
  <2> QED  BY <2>2
<1>8. \A i \in FramesOnWire : i # 1 => link.wire[i].n \in UnreadAfter
  BY <1>3
<1>9. CASE Head(link.wire).kind = "frame"
  <2>1. 1 \in FramesOnWire /\ link.wire[1].n \in Unread
    BY <1>1, <1>9 DEF FramesOnWire
  <2>2. \A i \in FramesOnWire : i # 1 => link.wire[1].n < link.wire[i].n
    BY <1>3, <2>1 DEF WireFollows
  <2>3. link.wire[1].n = taken + 1
    <3>0. link.wire[1].n \in taken + 1 .. sent
      BY <1>5, <2>1
    <3>1. taken + 1 \in Unread
      <4>1. taken + 1 \in taken + 1 .. sent
        BY <3>0
      <4> QED  BY <1>5, <4>1
    <3>2. PICK i \in FramesOnWire : link.wire[i].n = taken + 1
      BY <3>1
    <3>3. PICK n \in Nat : n = link.wire[1].n /\ n >= taken + 1
      BY <3>0
    <3>4. i = 1 \/ n < taken + 1
      BY <2>2, <3>2, <3>3
    <3> QED  BY <3>2, <3>3, <3>4
  <2>4. taken + 1 <= sent
    <3>1. taken + 1 \in taken + 1 .. sent
      BY <1>5, <2>1, <2>3
    <3> QED  BY <3>1
  <2>5. UnreadAfter = taken + 2 .. sent
    <3>1. \A n \in UnreadAfter : n \in taken + 2 .. sent
      <4> SUFFICES ASSUME NEW n \in UnreadAfter PROVE n \in taken + 2 .. sent
        OBVIOUS
      <4>1. PICK i \in FramesOnWire : i # 1 /\ n = link.wire[i].n
        BY <1>7
      <4>2. taken + 1 < n
        BY <2>2, <2>3, <4>1
      <4>3. n \in taken + 1 .. sent
        BY <1>5, <1>6, <4>1
      <4> QED  BY <4>2, <4>3
    <3>2. ASSUME NEW n \in taken + 2 .. sent PROVE n \in UnreadAfter
      <4>1. n \in Unread /\ n # taken + 1
        BY <1>5
      <4>2. PICK i \in FramesOnWire : link.wire[i].n = n
        BY <4>1
      <4>3. i # 1
        BY <2>3, <4>1, <4>2
      <4> QED  BY <1>8, <4>2, <4>3
    <3> QED  BY <3>1, <3>2
  <2>6. Taken' = taken + 1
    BY <1>9, <1>t
  <2>7. Taken' <= link'.sent /\ UnreadAfter = Taken' + 1 .. link'.sent
    <3>1. link'.sent = sent
      BY <1>s
    <3>2. taken + 1 + 1 = taken + 2
      OBVIOUS
    <3> QED  BY <2>4, <2>5, <2>6, <3>1, <3>2
  <2> QED  BY <1>1, <1>t, <1>4, <2>3, <2>7 DEF WireFollows
<1>10. CASE Head(link.wire).kind # "frame"
  <2>1. 1 \notin FramesOnWire
    BY <1>1, <1>10 DEF FramesOnWire
  <2>2. UnreadAfter = Unread
    BY <1>6, <1>7, <1>8, <2>1
  <2> QED  BY <1>t, <1>s, <1>4, <1>5, <1>10, <2>2 DEF WireFollows
<1> QED  BY <1>9, <1>10

LEMMA Lengthened ==
  ASSUME NEW S, NEW s \in Seq(S), NEW e \in S
  PROVE  \E q \in Seq(S) : /\ q = Append(s, e) /\ Len(q) = Len(s) + 1 /\ DOMAIN q = 1 .. Len(s) + 1
                           /\ q[Len(s) + 1] = e /\ \A i \in 1 .. Len(s) : q[i] = s[i] /\ i \in DOMAIN s
<1>1. Append(s, e) \in Seq(S) /\ Len(Append(s, e)) = Len(s) + 1 /\ DOMAIN Append(s, e) = 1 .. Len(s) + 1
  OBVIOUS
<1>2. Append(s, e)[Len(s) + 1] = e
  OBVIOUS
<1>3. \A i \in 1 .. Len(s) : Append(s, e)[i] = s[i] /\ i \in DOMAIN s
  OBVIOUS
<1> QED  BY <1>1, <1>2, <1>3

LEMMA QueueLengthened ==
  ASSUME NEW s \in Seq(Nat), NEW e \in Nat
  PROVE  \E q \in Seq(Nat) : /\ q = Append(s, e) /\ Len(q) = Len(s) + 1 /\ DOMAIN q = 1 .. Len(s) + 1
                             /\ q[Len(s) + 1] = e /\ \A i \in 1 .. Len(s) : q[i] = s[i] /\ i \in DOMAIN s
<1>1. Append(s, e) \in Seq(Nat) /\ Len(Append(s, e)) = Len(s) + 1 /\ DOMAIN Append(s, e) = 1 .. Len(s) + 1
  OBVIOUS
<1>2. Append(s, e)[Len(s) + 1] = e
  OBVIOUS
<1>3. \A i \in 1 .. Len(s) : Append(s, e)[i] = s[i] /\ i \in DOMAIN s
  OBVIOUS
<1> QED  BY <1>1, <1>2, <1>3

LEMMA ReceiverMoves ==
  ASSUME SocketInv, ReceiverAlive, link' \in Links, client' \in Clients, socketTasks' \in SocketWorkers,
         reading' = reading, link'.number = link.number, client'.ws = client.ws, client'.error = client.error,
         socketTasks'.heartbeat = socketTasks.heartbeat, socketTasks'.receiver # "cancelled",
         client'.event \/ (client'.frames = client.frames /\ client'.event = client.event),
         QueueFollows', WireFollows'
  PROVE  SocketInv'
<1>1. SocketType /\ HandedInOrder /\ WorkersStand
  BY DEF SocketInv
<1>2. SocketType'
  BY <1>1 DEF SocketType
<1>3. HandedInOrder'
  BY <1>1, HandedSame
<1>4. client.ws /\ ~client.error /\ reading.at \in {"held", "asleep", "left"} /\ reading.why = "none"
  <2>1. reading.at \in {"opening", "held", "asleep", "left", "retrying", "over"}
    BY <1>1 DEF SocketType, Readings
  <2>2. client.ws /\ reading.at \notin {"opening", "retrying", "over"}
    BY <1>1 DEF WorkersStand
  <2>3. ~client.error
    BY <1>1, <2>2 DEF WorkersStand
  <2> QED  BY <1>1, <2>1, <2>2, <2>3 DEF WorkersStand
<1>5. WorkersStand'
  <2>1. reading'.at = "asleep" /\ ~client'.event /\ ReceiverAlive' => client'.frames = <<>> /\ ~client'.error
    BY <1>1, <1>4 DEF WorkersStand
  <2> QED  BY <1>4, <2>1 DEF WorkersStand, ReceiverAlive
<1> QED  BY <1>2, <1>3, <1>5 DEF SocketInv

LEMMA ReceiverTook == SocketInv /\ ReceiverTakes => SocketInv'
<1> SUFFICES ASSUME SocketInv, ReceiverTakes PROVE SocketInv'
  OBVIOUS
<1>t. SocketType /\ WorkersStand
  BY DEF SocketInv
<1>r. socketTasks.receiver = "taking" /\ ReceiverAlive /\ ~Blocked /\ link.wire # <<>> /\ reading' = reading
  BY DEF ReceiverTakes, ReceiverAlive, Blocked
<1>q. client.ws /\ QueueFollows /\ WireFollows
  BY <1>t, <1>r DEF SocketInv, WorkersStand
<1>u. link \in Links /\ link.wire \in Seq(Raws) /\ client \in Clients /\ client.frames \in Seq(Nat)
      /\ socketTasks \in SocketWorkers
  BY <1>t DEF SocketType, Links, Clients
<1>n. Taken \in Nat /\ Handed \in Nat /\ Len(client.frames) \in Nat /\ Taken = Handed + Len(client.frames)
  <2>1. Taken = Handed + Len(client.frames) + 0
    BY <1>r DEF Taken
  <2> QED  BY <1>t, <2>1, FramesCounted
<1>h. PICK raw \in Raws : raw = Head(link.wire)
  BY <1>u, <1>r
<1>w. Tail(link.wire) \in Seq(Raws)
  BY <1>u, <1>r
<1>l. link' \in Links /\ link'.wire = Tail(link.wire) /\ link'.sent = link.sent /\ link'.number = link.number
  <2>1. PICK w \in Seq(Raws) : w = Tail(link.wire)
    BY <1>w
  <2>2. link' = [link EXCEPT !.wire = w]
    BY <2>1 DEF ReceiverTakes
  <2> QED  BY <1>u, <2>1, <2>2 DEF Links
<1>1. CASE raw.kind # "frame"
  <2>1. /\ client' \in {client, [client EXCEPT !.pending = FALSE]}
        /\ socketTasks' \in {socketTasks, [socketTasks EXCEPT !.receiver = "failed"]}
    BY <1>h, <1>1 DEF ReceiverTakes
  <2>2. client' \in Clients /\ client'.ws = client.ws /\ client'.error = client.error
        /\ client'.frames = client.frames /\ client'.event = client.event
    BY <1>u, <2>1 DEF Clients
  <2>3. socketTasks' \in SocketWorkers /\ socketTasks'.heartbeat = socketTasks.heartbeat
        /\ socketTasks'.receiver \in {"taking", "failed"} /\ socketTasks'.hand = socketTasks.hand
    BY <1>u, <1>r, <2>1 DEF SocketWorkers
  <2>4. ~Blocked' /\ Handed' = Handed
    BY <1>r, <1>l, <2>3 DEF Blocked, Handed
  <2>5. Taken' = Taken
    BY <1>r, <2>2, <2>4 DEF Taken
  <2>6. QueueFollows'
    BY <1>q, <2>2, <2>4 DEF QueueFollows
  <2>7. WireFollows'
    BY <1>t, <1>q, <1>r, <1>l, <1>h, <1>1, <2>5, HeadIsNext
  <2> QED  BY <1>r, <1>l, <2>2, <2>3, <2>6, <2>7, ReceiverMoves
<1>2. CASE raw.kind = "frame" /\ Len(client.frames) < QueueSize
  <2>1. client' = [client EXCEPT !.frames = Append(client.frames, raw.n), !.event = TRUE]
        /\ socketTasks' = socketTasks
    BY <1>h, <1>n, <1>2, SocketAssumption DEF ReceiverTakes
  <2>2. raw.n \in Nat
    BY DEF Raws
  <2>3. PICK q \in Seq(Nat) :
          /\ q = Append(client.frames, raw.n) /\ Len(q) = Len(client.frames) + 1
          /\ DOMAIN q = 1 .. Len(client.frames) + 1 /\ q[Len(client.frames) + 1] = raw.n
          /\ \A i \in 1 .. Len(client.frames) : q[i] = client.frames[i] /\ i \in DOMAIN client.frames
    <3>1. PICK s \in Seq(Nat) : s = client.frames
      BY <1>u
    <3>2. PICK e \in Nat : e = raw.n
      BY <2>2
    <3>3. PICK q1 \in Seq(Nat) :
            /\ q1 = Append(s, e) /\ Len(q1) = Len(s) + 1 /\ DOMAIN q1 = 1 .. Len(s) + 1
            /\ q1[Len(s) + 1] = e /\ \A i \in 1 .. Len(s) : q1[i] = s[i] /\ i \in DOMAIN s
      BY QueueLengthened
    <3> QED  BY <3>1, <3>2, <3>3
  <2>4. client' \in Clients /\ client'.ws = client.ws /\ client'.error = client.error
        /\ client'.frames = q /\ client'.event
    BY <1>u, <2>1, <2>3 DEF Clients
  <2>5. ~Blocked' /\ Handed' = Handed
    BY <1>r, <1>l, <2>1 DEF Blocked, Handed
  <2>6. Len(q) = Len(client.frames) + 1
    BY <2>3
  <2>7. Taken' = Taken + 1
    <3>1. Taken' = Handed + (Len(client.frames) + 1) + 0
      BY <2>4, <2>5, <2>6 DEF Taken
    <3> QED  BY <1>n, <3>1
  <2>8. WireFollows' /\ raw.n = Taken + 1
    BY <1>t, <1>q, <1>r, <1>l, <1>h, <1>2, <2>7, HeadIsNext
  <2>9. QueueFollows'
    <3>1. ASSUME NEW i \in DOMAIN q PROVE q[i] = Handed + i
      <4>1. i \in 1 .. Len(client.frames) + 1
        BY <2>3
      <4>2. CASE i = Len(client.frames) + 1
        <5>1. q[i] = raw.n
          BY <2>3, <4>2
        <5> QED  BY <1>n, <2>8, <4>2, <5>1
      <4>3. CASE i \in 1 .. Len(client.frames)
        <5>1. q[i] = client.frames[i] /\ i \in DOMAIN client.frames
          BY <2>3, <4>3
        <5> QED  BY <1>q, <5>1 DEF QueueFollows
      <4>4. i \in 1 .. Len(client.frames) \/ i = Len(client.frames) + 1
        BY <1>n, <4>1
      <4> QED  BY <4>2, <4>3, <4>4
    <3> QED  BY <2>4, <2>5, <3>1 DEF QueueFollows
  <2>10. socketTasks' \in SocketWorkers /\ socketTasks'.receiver # "cancelled" /\ socketTasks'.heartbeat = socketTasks.heartbeat
    BY <1>u, <1>r, <2>1
  <2> QED  BY <1>r, <1>l, <2>4, <2>8, <2>9, <2>10, ReceiverMoves
<1>3. CASE raw.kind = "frame" /\ Len(client.frames) = QueueSize
  <2>1. client' = client /\ socketTasks' = [socketTasks EXCEPT !.receiver = "putting", !.hand = raw.n]
    BY <1>h, <1>n, <1>3, SocketAssumption DEF ReceiverTakes
  <2>2. raw.n \in Nat
    BY DEF Raws
  <2>3. socketTasks' \in SocketWorkers /\ socketTasks'.receiver = "putting" /\ socketTasks'.hand = raw.n
        /\ socketTasks'.heartbeat = socketTasks.heartbeat
    BY <1>u, <2>1, <2>2 DEF SocketWorkers
  <2>4. Blocked' /\ Handed' = Handed
    BY <1>r, <1>l, <2>3 DEF Blocked, Handed
  <2>5. Taken' = Taken + 1
    <3>1. Taken' = Handed + Len(client.frames) + 1
      BY <2>1, <2>4 DEF Taken
    <3> QED  BY <1>n, <3>1
  <2>6. WireFollows' /\ raw.n = Taken + 1
    BY <1>t, <1>q, <1>r, <1>l, <1>h, <1>3, <2>5, HeadIsNext
  <2>7. QueueFollows'
    BY <1>q, <2>1, <2>3, <2>4, <2>5, <2>6 DEF QueueFollows
  <2> QED  BY <1>u, <1>r, <1>l, <2>1, <2>3, <2>6, <2>7, ReceiverMoves
<1>4. raw.kind = "frame" => Len(client.frames) < QueueSize \/ Len(client.frames) = QueueSize
  BY <1>h DEF ReceiverTakes
<1> QED  BY <1>1, <1>2, <1>3, <1>4

LEMMA ReceiverPut == SocketInv /\ ReceiverPuts => SocketInv'
<1> SUFFICES ASSUME SocketInv, ReceiverPuts PROVE SocketInv'
  OBVIOUS
<1>t. SocketType /\ WorkersStand
  BY DEF SocketInv
<1>r. Blocked /\ ReceiverAlive /\ reading' = reading /\ link' = link
  BY DEF ReceiverPuts, Blocked, ReceiverAlive
<1>q. QueueFollows /\ WireFollows
  BY <1>t, <1>r DEF SocketInv, WorkersStand
<1>u. client \in Clients /\ client.frames \in Seq(Nat) /\ socketTasks \in SocketWorkers /\ socketTasks.hand \in Nat
  BY <1>t DEF SocketType, Clients, SocketWorkers
<1>n. Handed \in Nat /\ Len(client.frames) \in Nat /\ Taken = Handed + Len(client.frames) + 1
  <2>1. Taken = Handed + Len(client.frames) + 1
    BY <1>r DEF Taken
  <2> QED  BY <1>t, <2>1, FramesCounted
<1>1. PICK q \in Seq(Nat) :
        /\ q = Append(client.frames, socketTasks.hand) /\ Len(q) = Len(client.frames) + 1
        /\ DOMAIN q = 1 .. Len(client.frames) + 1 /\ q[Len(client.frames) + 1] = socketTasks.hand
        /\ \A i \in 1 .. Len(client.frames) : q[i] = client.frames[i] /\ i \in DOMAIN client.frames
  <2>1. PICK s \in Seq(Nat) : s = client.frames
    BY <1>u
  <2>2. PICK e \in Nat : e = socketTasks.hand
    BY <1>u
  <2>3. PICK q1 \in Seq(Nat) :
          /\ q1 = Append(s, e) /\ Len(q1) = Len(s) + 1 /\ DOMAIN q1 = 1 .. Len(s) + 1
          /\ q1[Len(s) + 1] = e /\ \A i \in 1 .. Len(s) : q1[i] = s[i] /\ i \in DOMAIN s
    BY QueueLengthened
  <2> QED  BY <2>1, <2>2, <2>3
<1>2. client' \in Clients /\ client'.ws = client.ws /\ client'.error = client.error
      /\ client'.frames = q /\ client'.event
  BY <1>u, <1>1 DEF ReceiverPuts, Clients
<1>3. socketTasks' \in SocketWorkers /\ socketTasks'.receiver = "taking" /\ socketTasks'.heartbeat = socketTasks.heartbeat
  BY <1>u DEF ReceiverPuts, SocketWorkers
<1>4. ~Blocked' /\ Handed' = Handed
  BY <1>r, <1>3 DEF Blocked, Handed
<1>5. Len(q) = Len(client.frames) + 1
  BY <1>1
<1>6. Taken' = Taken
  <2>1. Taken' = Handed + (Len(client.frames) + 1) + 0
    BY <1>2, <1>4, <1>5 DEF Taken
  <2> QED  BY <1>n, <2>1
<1>7. QueueFollows'
  <2>1. ASSUME NEW i \in DOMAIN q PROVE q[i] = Handed + i
    <3>1. i \in 1 .. Len(client.frames) + 1
      BY <1>1
    <3>2. CASE i = Len(client.frames) + 1
      <4>1. q[i] = socketTasks.hand
        BY <1>1, <3>2
      <4>2. socketTasks.hand = Taken
        BY <1>q, <1>r DEF QueueFollows
      <4> QED  BY <1>n, <3>2, <4>1, <4>2
    <3>3. CASE i \in 1 .. Len(client.frames)
      <4>1. q[i] = client.frames[i] /\ i \in DOMAIN client.frames
        BY <1>1, <3>3
      <4> QED  BY <1>q, <4>1 DEF QueueFollows
    <3>4. i \in 1 .. Len(client.frames) \/ i = Len(client.frames) + 1
      BY <1>n, <3>1
    <3> QED  BY <3>2, <3>3, <3>4
  <2> QED  BY <1>2, <1>4, <2>1 DEF QueueFollows
<1>8. WireFollows'
  BY <1>q, <1>r, <1>6, WireSame
<1>9. link' \in Links
  BY <1>t, <1>r DEF SocketType
<1>10. link'.number = link.number /\ socketTasks'.receiver # "cancelled"
  BY <1>r, <1>3
<1> QED  BY <1>r, <1>2, <1>3, <1>7, <1>8, <1>9, <1>10, ReceiverMoves

LEMMA ReceiverEnded == SocketInv /\ ReceiverEnds => SocketInv'
<1> SUFFICES ASSUME SocketInv, ReceiverEnds PROVE SocketInv'
  OBVIOUS
<1>t. SocketType /\ WorkersStand
  BY DEF SocketInv
<1>r. ~Blocked /\ ReceiverAlive /\ reading' = reading /\ link' = link /\ client' = client
  BY DEF ReceiverEnds, Blocked, ReceiverAlive
<1>q. QueueFollows /\ WireFollows
  BY <1>t, <1>r DEF SocketInv, WorkersStand
<1>1. PICK end \in {"done", "failed"} : socketTasks' = [socketTasks EXCEPT !.receiver = end]
  BY DEF ReceiverEnds
<1>2. socketTasks' \in SocketWorkers /\ socketTasks'.receiver \in {"done", "failed"}
      /\ socketTasks'.heartbeat = socketTasks.heartbeat
  BY <1>t, <1>1 DEF SocketType, SocketWorkers
<1>3. ~Blocked' /\ Handed' = Handed
  BY <1>r, <1>2 DEF Blocked, Handed
<1>4. Taken' = Taken
  BY <1>r, <1>3 DEF Taken
<1>5. QueueFollows' /\ WireFollows'
  <2>1. QueueFollows'
    BY <1>q, <1>r, <1>3 DEF QueueFollows
  <2> QED  BY <1>q, <1>r, <1>4, <2>1, WireSame
<1>6. link' \in Links /\ client' \in Clients
  BY <1>t, <1>r DEF SocketType
<1> QED  BY <1>r, <1>2, <1>5, <1>6, ReceiverMoves

-----------------------------------------------------------------------------
\* The heartbeat.

LEMMA HeartbeatKeeps == SocketInv /\ (HeartbeatPings \/ HeartbeatEnds) => SocketInv'
<1> SUFFICES ASSUME SocketInv, HeartbeatPings \/ HeartbeatEnds PROVE SocketInv'
  OBVIOUS
<1>t. SocketType /\ HandedInOrder /\ WorkersStand /\ (client.ws => QueueFollows /\ WireFollows)
  BY DEF SocketInv
<1>u. link \in Links /\ client \in Clients /\ socketTasks \in SocketWorkers /\ reading \in Readings
  BY <1>t DEF SocketType
<1>1. /\ reading' = reading
      /\ link' \in Links /\ link'.number = link.number /\ link'.wire = link.wire /\ link'.sent = link.sent
      /\ client' \in Clients /\ client'.ws = client.ws /\ client'.frames = client.frames
      /\ client'.event = client.event /\ client'.error = client.error
      /\ socketTasks' \in SocketWorkers /\ socketTasks'.receiver = socketTasks.receiver
      /\ socketTasks'.hand = socketTasks.hand
      /\ socketTasks.heartbeat # "none"
  <2>1. CASE HeartbeatPings
    <3>1. link' = [link EXCEPT !.asked = TRUE] /\ client' = [client EXCEPT !.pending = TRUE]
          /\ socketTasks' = socketTasks /\ reading' = reading /\ socketTasks.heartbeat = "beating"
      BY <2>1 DEF HeartbeatPings
    <3>2. link' \in Links /\ link'.number = link.number /\ link'.wire = link.wire /\ link'.sent = link.sent
      BY <1>u, <3>1 DEF Links
    <3>3. client' \in Clients /\ client'.ws = client.ws /\ client'.frames = client.frames
          /\ client'.event = client.event /\ client'.error = client.error
      BY <1>u, <3>1 DEF Clients
    <3> QED  BY <1>u, <3>1, <3>2, <3>3
  <2>2. CASE HeartbeatEnds
    <3>1. PICK up \in BOOLEAN : link' = [link EXCEPT !.up = up]
      <4>1. (link.up /\ socketTasks.heartbeat = "beating") \in BOOLEAN
        OBVIOUS
      <4> QED  BY <2>2, <4>1 DEF HeartbeatEnds
    <3>2. link' \in Links /\ link'.number = link.number /\ link'.wire = link.wire /\ link'.sent = link.sent
      BY <1>u, <3>1 DEF Links
    <3>3. socketTasks' = [socketTasks EXCEPT !.heartbeat = "done"] /\ client' = client /\ reading' = reading
          /\ socketTasks.heartbeat # "none"
      BY <2>2 DEF HeartbeatEnds
    <3>4. socketTasks' \in SocketWorkers /\ socketTasks'.receiver = socketTasks.receiver
          /\ socketTasks'.hand = socketTasks.hand
      BY <1>u, <3>3 DEF SocketWorkers
    <3> QED  BY <1>u, <3>2, <3>3, <3>4
  <2> QED  BY <2>1, <2>2
<1>2. HandedInOrder'
  BY <1>t, <1>1, HandedSame
<1>3. client'.ws => QueueFollows' /\ WireFollows'
  BY <1>t, <1>1, QueueSame, WireSame
<1>4. WorkersStand'
  <2>1. reading.at \notin {"opening", "retrying", "over"}
    BY <1>t, <1>1 DEF WorkersStand
  <2> QED  BY <1>t, <1>1, <2>1 DEF WorkersStand, ReceiverAlive
<1>5. SocketType'
  BY <1>u, <1>1 DEF SocketType
<1> QED  BY <1>2, <1>3, <1>4, <1>5 DEF SocketInv

LEMMA WithoutIsDead ==
  SocketType => /\ WithoutReceiver(socketTasks) \in SocketWorkers
                /\ WithoutReceiver(socketTasks).receiver \notin {"taking", "putting"}
                /\ \A h \in {"none", "closing"} :
                     /\ [WithoutReceiver(socketTasks) EXCEPT !.heartbeat = h] \in SocketWorkers
                     /\ [WithoutReceiver(socketTasks) EXCEPT !.heartbeat = h].receiver
                          \notin {"taking", "putting"}
                     /\ [WithoutReceiver(socketTasks) EXCEPT !.heartbeat = h].heartbeat = h
<1> SUFFICES ASSUME SocketType PROVE  /\ WithoutReceiver(socketTasks) \in SocketWorkers
                /\ WithoutReceiver(socketTasks).receiver \notin {"taking", "putting"}
                /\ \A h \in {"none", "closing"} :
                     /\ [WithoutReceiver(socketTasks) EXCEPT !.heartbeat = h] \in SocketWorkers
                     /\ [WithoutReceiver(socketTasks) EXCEPT !.heartbeat = h].receiver
                          \notin {"taking", "putting"}
                     /\ [WithoutReceiver(socketTasks) EXCEPT !.heartbeat = h].heartbeat = h
  OBVIOUS
<1>1. WithoutReceiver(socketTasks) \in SocketWorkers /\ WithoutReceiver(socketTasks).receiver \notin {"taking", "putting"}
  BY DEF SocketType, WithoutReceiver, SocketWorkers
<1>2. PICK w \in SocketWorkers : w = WithoutReceiver(socketTasks)
  BY <1>1
<1>3. \A h \in {"none", "closing"} :
        [w EXCEPT !.heartbeat = h] \in SocketWorkers /\ [w EXCEPT !.heartbeat = h].receiver = w.receiver
        /\ [w EXCEPT !.heartbeat = h].heartbeat = h
  BY DEF SocketWorkers
<1> QED  BY <1>1, <1>2, <1>3

LEMMA HeartbeatFailed == SocketInv /\ HeartbeatFails => SocketInv'
<1> SUFFICES ASSUME SocketInv, HeartbeatFails PROVE SocketInv'
  OBVIOUS
<1>t. SocketType /\ HandedInOrder /\ WorkersStand
  BY DEF SocketInv
<1>1. link' = link /\ reading' = reading /\ client.ws
      /\ client' = [client EXCEPT !.ws = FALSE, !.error = TRUE]
      /\ socketTasks' = [WithoutReceiver(socketTasks) EXCEPT !.heartbeat = "closing"]
  BY DEF HeartbeatFails
<1>2. client' \in Clients /\ ~client'.ws /\ client'.error
  BY <1>t, <1>1 DEF SocketType, Clients
<1>3. socketTasks' \in SocketWorkers /\ ~ReceiverAlive'
  BY <1>t, <1>1, WithoutIsDead DEF ReceiverAlive
<1>4. reading.at \in {"held", "asleep", "left"} /\ reading.why = "none"
  <2>1. reading.at \in {"opening", "held", "asleep", "left", "retrying", "over"}
    BY <1>t DEF SocketType, Readings
  <2> QED  BY <1>t, <1>1, <2>1 DEF WorkersStand
<1>5. WorkersStand'
  BY <1>1, <1>2, <1>3, <1>4 DEF WorkersStand
<1>6. HandedInOrder'
  BY <1>t, <1>1, HandedSame
<1>7. SocketType'
  BY <1>t, <1>1, <1>2, <1>3 DEF SocketType
<1> QED  BY <1>2, <1>5, <1>6, <1>7 DEF SocketInv

-----------------------------------------------------------------------------
\* The generator.

LEMMA ClientClosed ==
  ASSUME SocketInv, NEW at \in {"retrying", "over"}, NEW why \in {"heartbeat", "clean", "receiver", "closed"},
         why \in {"clean", "receiver"} => client.frames = <<>>, ClientCloses(at, why)
  PROVE  SocketInv'
<1>t. SocketType /\ HandedInOrder
  BY DEF SocketInv
<1>1. reading' \in Readings /\ reading'.at = at /\ reading'.why = why /\ reading'.handed = reading.handed
  BY <1>t DEF SocketType, ClientCloses, Readings
<1>2. client' \in Clients /\ ~client'.ws /\ client'.frames = client.frames
  BY <1>t DEF SocketType, ClientCloses, Clients
<1>3. link' \in Links /\ link'.number = link.number
  BY <1>t DEF SocketType, ClientCloses, Links
<1>4. socketTasks' \in SocketWorkers /\ ~ReceiverAlive' /\ socketTasks'.heartbeat = "none"
  <2>1. socketTasks' = [WithoutReceiver(socketTasks) EXCEPT !.heartbeat = "none"]
    BY DEF ClientCloses
  <2> QED  BY <1>t, <2>1, WithoutIsDead DEF ReceiverAlive
<1>5. WorkersStand'
  BY <1>1, <1>2, <1>4 DEF WorkersStand
<1>6. HandedInOrder'
  BY <1>t, <1>1, <1>3, HandedSame
<1>7. SocketType'
  BY <1>1, <1>2, <1>3, <1>4 DEF SocketType
<1> QED  BY <1>2, <1>5, <1>6, <1>7 DEF SocketInv

LEMMA StreamEnded ==
  ASSUME SocketInv, NEW why \in {"heartbeat", "clean", "receiver"},
         why \in {"clean", "receiver"} => client.frames = <<>>, StreamEnds(why)
  PROVE  SocketInv'
<1>1. PICK at \in {"retrying", "over"} : at = IF reading.used < MaxRetries THEN "retrying" ELSE "over"
  OBVIOUS
<1>2. ClientCloses(at, why)
  BY <1>1 DEF StreamEnds
<1> QED  BY <1>2, ClientClosed

\* The frame at the head of the queue is the next of its connection.
LEMMA FrameHanded ==
  ASSUME SocketInv, reading.at \in {"held", "asleep", "left"}, ~client.error, client.frames # <<>>,
         client' = [client EXCEPT !.frames = Tail(client.frames)],
         reading' = [reading EXCEPT !.at = "held",
                       !.handed = Append(reading.handed, [number |-> link.number, n |-> Head(client.frames)])],
         UNCHANGED <<link, socketTasks>>
  PROVE  SocketInv'
<1>t. SocketType /\ HandedInOrder /\ WorkersStand
  BY DEF SocketInv
<1>w. client.ws /\ reading.why = "none" /\ socketTasks.receiver # "cancelled"
  BY <1>t DEF WorkersStand
<1>q. QueueFollows /\ WireFollows
  BY <1>w DEF SocketInv
<1>u. /\ link \in Links /\ link.number \in Nat /\ client \in Clients /\ client.frames \in Seq(Nat)
      /\ socketTasks \in SocketWorkers /\ reading \in Readings /\ reading.handed \in Seq(HandedFrames)
  BY <1>t DEF SocketType, Links, Clients, Readings
<1>n. Handed \in Nat /\ Taken \in Nat /\ Len(client.frames) \in Nat
  BY <1>t, FramesCounted
<1>0. PICK q \in Seq(Nat) : q = Tail(client.frames)
  <2>1. Tail(client.frames) \in Seq(Nat)
    BY <1>u
  <2> QED  BY <2>1
<1>1. PICK next \in Nat : next = Head(client.frames)
  BY <1>u
<1>2. PICK h \in HandedFrames : h = [number |-> link.number, n |-> next]
  BY <1>u DEF HandedFrames
<1> DEFINE m == Len(reading.handed)
<1>3. PICK given \in Seq(HandedFrames) :
        /\ given = Append(reading.handed, h) /\ Len(given) = m + 1 /\ DOMAIN given = 1 .. m + 1
        /\ given[m + 1] = h /\ \A i \in 1 .. m : given[i] = reading.handed[i] /\ i \in DOMAIN reading.handed
  <2>1. \E q1 \in Seq(HandedFrames) :
          /\ q1 = Append(reading.handed, h) /\ Len(q1) = m + 1 /\ DOMAIN q1 = 1 .. m + 1
          /\ q1[m + 1] = h /\ \A i \in 1 .. m : q1[i] = reading.handed[i] /\ i \in DOMAIN reading.handed
    BY <1>u, Lengthened
  <2> QED  BY <2>1
<1>4. client' \in Clients /\ client'.ws = client.ws /\ client'.frames = q /\ client'.error = client.error
  <2>1. client' = [client EXCEPT !.frames = q]
    BY <1>0
  <2> QED  BY <1>u, <2>1 DEF Clients
<1>5. reading' \in Readings /\ reading'.at = "held" /\ reading'.handed = given /\ reading'.why = reading.why
  <2>1. reading' = [reading EXCEPT !.at = "held", !.handed = given]
    BY <1>1, <1>2, <1>3
  <2> QED  BY <1>u, <2>1 DEF Readings
<1>6. client.frames[1] = next /\ Len(client.frames) > 0
      /\ Len(q) = Len(client.frames) - 1 /\ \A i \in 1 .. Len(q) : q[i] = client.frames[i + 1]
  BY <1>u, <1>0, <1>1
<1>7. next = Handed + 1
  <2>1. 1 \in DOMAIN client.frames
    BY <1>u, <1>6
  <2> QED  BY <1>q, <1>6, <2>1 DEF QueueFollows
<1>8. m \in Nat /\ DOMAIN reading.handed = 1 .. m /\ DOMAIN given = 1 .. m + 1 /\ Len(given) = m + 1
      /\ given[m + 1] = h /\ \A i \in 1 .. m : given[i] = reading.handed[i]
  BY <1>u, <1>3
<1>9. Handed = IF m > 0 /\ reading.handed[m].number = link.number THEN reading.handed[m].n ELSE 0
  BY DEF Handed
<1> HIDE DEF m
<1>10. h.number = link.number /\ h.n = next
  BY <1>2
<1>11. Handed' = next
  <2>1. Len(reading'.handed) = m + 1 /\ link' = link /\ m + 1 > 0
    <3>1. Len(reading'.handed) = m + 1
      BY <1>5, <1>8
    <3>2. m + 1 > 0
      BY <1>8
    <3> QED  BY <3>1, <3>2
  <2>2. reading'.handed[m + 1] = h
    BY <1>5, <1>8
  <2> QED  BY <1>10, <2>1, <2>2 DEF Handed
<1>12. Taken' = Taken
  <2>1. Blocked' = Blocked /\ client'.frames = q
    BY <1>4 DEF Blocked
  <2>2. PICK b \in Nat : b = IF Blocked THEN 1 ELSE 0
    OBVIOUS
  <2>3. Taken = Handed + Len(client.frames) + b /\ Taken' = Handed' + Len(q) + b
    BY <2>1, <2>2 DEF Taken
  <2>4. PICK n \in Nat : n = Len(client.frames) /\ n > 0 /\ Len(q) = n - 1
    BY <1>n, <1>6
  <2>5. PICK done \in Nat : done = Handed
    BY <1>n
  <2>6. Taken = done + n + b /\ Taken' = (done + 1) + (n - 1) + b
    BY <1>7, <1>11, <2>3, <2>4, <2>5
  <2> QED  BY <2>6
<1>13. QueueFollows'
  <2>1. ASSUME NEW i \in DOMAIN q PROVE q[i] = next + i
    <3>1. i \in 1 .. Len(q) /\ i + 1 \in DOMAIN client.frames
      <4>1. DOMAIN q = 1 .. Len(q) /\ DOMAIN client.frames = 1 .. Len(client.frames)
        BY <1>u
      <4>2. PICK n \in Nat : n = Len(client.frames) /\ n > 0 /\ Len(q) = n - 1
        BY <1>n, <1>6
      <4> QED  BY <4>1, <4>2
    <3>2. q[i] = Handed + (i + 1)
      BY <1>q, <1>6, <3>1 DEF QueueFollows
    <3> QED  BY <1>n, <1>7, <3>1, <3>2
  <2>2. Blocked' => socketTasks'.hand = Taken'
    BY <1>q, <1>12 DEF QueueFollows, Blocked
  <2> QED  BY <1>4, <1>11, <2>1, <2>2 DEF QueueFollows
<1>14. WireFollows'
  BY <1>q, <1>12, WireSame
<1>15. HandedInOrder'
  <2>1. \A i \in 1 .. m : reading.handed[i].number <= link.number /\ reading.handed[i].number \in Nat
    <3>1. ASSUME NEW i \in 1 .. m PROVE reading.handed[i] \in HandedFrames /\ i \in DOMAIN reading.handed
      BY <1>u, <1>8
    <3> QED  BY <1>t, <3>1 DEF HandedInOrder, HandedFrames
  <2>2. ASSUME NEW i \in 1 .. m + 1
        PROVE  given[i].n = IF i > 1 /\ given[i - 1].number = given[i].number THEN given[i - 1].n + 1 ELSE 1
    <3>1. CASE i \in 1 .. m
      <4>1. given[i] = reading.handed[i] /\ (i > 1 => given[i - 1] = reading.handed[i - 1])
        BY <1>8, <3>1
      <4> QED  BY <1>8, <1>t, <3>1, <4>1 DEF HandedInOrder, ByTurn
    <3>2. CASE i = m + 1
      <4>1. CASE m > 0
        <5>1. given[i] = h /\ given[i - 1] = reading.handed[m] /\ i > 1
          BY <1>8, <3>2, <4>1
        <5> QED  BY <1>7, <1>9, <1>10, <4>1, <5>1
      <4>2. CASE m = 0
        <5>1. ~ (i > 1) /\ given[i] = h /\ Handed = 0
          BY <1>8, <1>9, <3>2, <4>2
        <5> QED  BY <1>7, <1>10, <5>1
      <4> QED  BY <1>8, <4>1, <4>2
    <3> QED  BY <1>8, <3>1, <3>2
  <2>3. ASSUME NEW i \in 1 .. m + 1, NEW j \in 1 .. m + 1, i < j PROVE given[i].number <= given[j].number
    <3>1. i \in 1 .. m /\ given[i] = reading.handed[i]
      <4>1. i \in 1 .. m
        BY <1>8, <2>3
      <4> QED  BY <1>8, <4>1
    <3>2. CASE j = m + 1
      <4>1. given[j] = h
        BY <1>8, <3>2
      <4> QED  BY <1>10, <2>1, <3>1, <4>1
    <3>3. CASE j \in 1 .. m
      <4>1. given[j] = reading.handed[j] /\ i \in DOMAIN reading.handed /\ j \in DOMAIN reading.handed
        BY <1>8, <3>1, <3>3
      <4> QED  BY <1>t, <2>3, <3>1, <4>1 DEF HandedInOrder
    <3> QED  BY <1>8, <3>2, <3>3
  <2>4. ASSUME NEW i \in 1 .. m + 1 PROVE given[i].number <= link.number
    <3>1. CASE i \in 1 .. m
      BY <1>8, <2>1, <3>1
    <3>2. CASE i = m + 1
      BY <1>8, <1>10, <1>u, <3>2
    <3>3. i \in 1 .. m \/ i = m + 1
      BY <1>8
    <3> QED  BY <3>1, <3>2, <3>3
  <2>5. reading'.handed = given /\ DOMAIN given = 1 .. m + 1 /\ link' = link
    BY <1>5, <1>8
  <2>6. ByTurn(given)
    BY <2>2, <2>5 DEF ByTurn
  <2>7. \A i, j \in DOMAIN given : i < j => given[i].number <= given[j].number
    BY <2>3, <2>5
  <2>8. \A i \in DOMAIN given : given[i].number <= link.number
    BY <2>4, <2>5
  <2>9. ByTurn(reading'.handed)
    BY <2>5, <2>6
  <2>10. \A i, j \in DOMAIN reading'.handed : i < j => reading'.handed[i].number <= reading'.handed[j].number
    BY <2>5, <2>7
  <2>11. \A i \in DOMAIN reading'.handed : reading'.handed[i].number <= link'.number
    BY <2>5, <2>8
  <2> QED  BY <2>9, <2>10, <2>11 DEF HandedInOrder
<1>16. WorkersStand'
  BY <1>t, <1>w, <1>4, <1>5 DEF WorkersStand, ReceiverAlive
<1>17. SocketType'
  BY <1>u, <1>4, <1>5 DEF SocketType
<1> QED  BY <1>13, <1>14, <1>15, <1>16, <1>17 DEF SocketInv

LEMMA FallsAsleep ==
  ASSUME SocketInv, reading.at \in {"held", "asleep", "left"}, ~client.error, client.frames = <<>>,
         client' = [client EXCEPT !.event = FALSE], reading' = [reading EXCEPT !.at = "asleep"],
         socketTasks' = [socketTasks EXCEPT !.receiver =
                           IF socketTasks.receiver = "none" THEN "taking" ELSE socketTasks.receiver],
         link' = link
  PROVE  SocketInv'
<1>t. SocketType /\ HandedInOrder /\ WorkersStand
  BY DEF SocketInv
<1>w. client.ws /\ reading.why = "none" /\ socketTasks.receiver # "cancelled"
  BY <1>t DEF WorkersStand
<1>q. QueueFollows /\ WireFollows
  BY <1>w DEF SocketInv
<1>1. client' \in Clients /\ client'.ws = client.ws /\ client'.frames = client.frames /\ client'.error = client.error
  BY <1>t DEF SocketType, Clients
<1>2. reading' \in Readings /\ reading'.at = "asleep" /\ reading'.handed = reading.handed /\ reading'.why = reading.why
  BY <1>t DEF SocketType, Readings
<1>3. socketTasks' \in SocketWorkers /\ socketTasks'.hand = socketTasks.hand
      /\ socketTasks'.receiver = IF socketTasks.receiver = "none" THEN "taking" ELSE socketTasks.receiver
  BY <1>t DEF SocketType, SocketWorkers
<1>4. Blocked' = Blocked /\ Handed' = Handed
  BY <1>2, <1>3 DEF Blocked, Handed
<1>5. Taken' = Taken
  BY <1>1, <1>4 DEF Taken
<1>6. QueueFollows'
  BY <1>q, <1>1, <1>3, <1>4, <1>5 DEF QueueFollows
<1>7. WireFollows'
  BY <1>q, <1>5, WireSame
<1>8. HandedInOrder'
  BY <1>t, <1>2, HandedSame
<1>9. WorkersStand'
  BY <1>w, <1>1, <1>2, <1>3 DEF WorkersStand, ReceiverAlive
<1>10. SocketType'
  BY <1>t, <1>1, <1>2, <1>3 DEF SocketType
<1> QED  BY <1>6, <1>7, <1>8, <1>9, <1>10 DEF SocketInv

LEMMA HandsOut == SocketInv /\ reading.at \in {"held", "asleep", "left"} /\ HandOut => SocketInv'
<1> SUFFICES ASSUME SocketInv, reading.at \in {"held", "asleep", "left"}, HandOut PROVE SocketInv'
  OBVIOUS
<1>1. CASE client.error
  <2>1. StreamEnds("heartbeat")
    BY <1>1 DEF HandOut
  <2> QED  BY <2>1, StreamEnded
<1>2. CASE ~client.error /\ client.frames # <<>>
  BY <1>2, FrameHanded DEF HandOut
<1>3. CASE ~client.error /\ client.frames = <<>> /\ socketTasks.receiver = "done"
  <2>1. StreamEnds("clean")
    BY <1>3 DEF HandOut
  <2> QED  BY <1>3, <2>1, StreamEnded
<1>4. CASE ~client.error /\ client.frames = <<>> /\ socketTasks.receiver = "failed"
  <2>1. StreamEnds("receiver")
    BY <1>4 DEF HandOut
  <2> QED  BY <1>4, <2>1, StreamEnded
<1>5. CASE ~client.error /\ client.frames = <<>> /\ socketTasks.receiver \notin {"done", "failed"}
  BY <1>5, FallsAsleep DEF HandOut
<1> QED  BY <1>1, <1>2, <1>3, <1>4, <1>5

LEMMA GaveUp == SocketInv /\ GiveUpWaiting => SocketInv'
<1> SUFFICES ASSUME SocketInv, GiveUpWaiting PROVE SocketInv'
  OBVIOUS
<1>t. SocketType /\ HandedInOrder /\ WorkersStand /\ (client.ws => QueueFollows /\ WireFollows)
  BY DEF SocketInv
<1>1. reading.at = "asleep" /\ link' = link /\ client' = client /\ socketTasks' = socketTasks
  BY DEF GiveUpWaiting
<1>2. reading' \in Readings /\ reading'.at = "left" /\ reading'.handed = reading.handed /\ reading'.why = reading.why
  BY <1>t DEF GiveUpWaiting, SocketType, Readings
<1>3. HandedInOrder'
  BY <1>t, <1>1, <1>2, HandedSame
<1>4. client'.ws => QueueFollows' /\ WireFollows'
  BY <1>t, <1>1, <1>2, QueueSame, WireSame
<1>5. WorkersStand'
  BY <1>t, <1>1, <1>2 DEF WorkersStand, ReceiverAlive
<1>6. SocketType'
  BY <1>t, <1>1, <1>2 DEF SocketType
<1> QED  BY <1>3, <1>4, <1>5, <1>6 DEF SocketInv

LEMMA SocketOpened == SocketInv /\ SocketOpens => SocketInv'
<1> SUFFICES ASSUME SocketInv, SocketOpens PROVE SocketInv'
  OBVIOUS
<1>t. SocketType /\ HandedInOrder /\ WorkersStand
  BY DEF SocketInv
<1>1. PICK number \in Nat : number = link.number + 1
  BY <1>t DEF SocketType, Links
<1>2. link' = [number |-> number, up |-> TRUE, wire |-> <<>>, sent |-> 0, asked |-> FALSE]
  BY <1>1 DEF SocketOpens, NoLink
<1>3. link' \in Links
  <2>1. NoLink \in Links
    <3>1. <<>> \in Seq(Raws)
      OBVIOUS
    <3> QED  BY <3>1 DEF NoLink, Links
  <2>2. PICK l \in Links : l = NoLink
    BY <2>1
  <2>3. link' = [l EXCEPT !.number = number, !.up = TRUE]
    BY <1>1, <2>2 DEF SocketOpens
  <2>4. \A n \in Nat : [l EXCEPT !.number = n, !.up = TRUE] \in Links
    BY <2>2 DEF Links
  <2> QED  BY <1>1, <2>3, <2>4
<1>4. client' \in Clients /\ client'.ws /\ client'.frames = <<>> /\ ~client'.error
  <2>1. NoClient \in Clients /\ NoClient.frames = <<>> /\ ~NoClient.error
    <3>1. <<>> \in Seq(Nat)
      OBVIOUS
    <3> QED  BY <3>1 DEF NoClient, Clients
  <2>2. PICK c \in Clients : c = NoClient
    BY <2>1
  <2>3. client' = [c EXCEPT !.ws = TRUE]
    BY <2>2 DEF SocketOpens
  <2>4. client' \in Clients /\ client'.ws /\ client'.frames = c.frames /\ client'.error = c.error
    BY <2>2, <2>3 DEF Clients
  <2> QED  BY <2>1, <2>2, <2>4
<1>5. socketTasks' \in SocketWorkers /\ socketTasks'.receiver = "none"
  BY DEF SocketOpens, NoWorkers, SocketWorkers
<1>6. reading' \in Readings /\ reading'.at = "held" /\ reading'.why = "none" /\ reading'.handed = reading.handed
  <2>1. PICK used \in Nat : used = IF reading.at = "retrying" THEN reading.used + 1 ELSE reading.used
    BY <1>t DEF SocketType, Readings
  <2>2. reading' = [reading EXCEPT !.at = "held", !.why = "none", !.used = used]
    BY <2>1 DEF SocketOpens
  <2> QED  BY <1>t, <2>2 DEF SocketType, Readings
<1>7. \A i \in DOMAIN reading.handed : reading.handed[i].number < number /\ reading.handed[i].number \in Nat
  <2>1. reading.handed \in Seq(HandedFrames) /\ link.number \in Nat
    BY <1>t DEF SocketType, Readings, Links
  <2>2. \A i \in DOMAIN reading.handed : reading.handed[i].number <= link.number /\ reading.handed[i].number \in Nat
    <3>1. \A i \in DOMAIN reading.handed : reading.handed[i] \in HandedFrames
      BY <2>1
    <3> QED  BY <1>t, <3>1 DEF HandedInOrder, HandedFrames
  <2> QED  BY <1>1, <2>1, <2>2
<1>8. HandedInOrder'
  <2>1. \A i \in DOMAIN reading.handed : reading.handed[i].number <= link'.number
    BY <1>2, <1>7
  <2> QED  BY <1>t, <1>6, <2>1 DEF HandedInOrder
<1>9. Handed' = 0
  <2>1. reading.handed \in Seq(HandedFrames)
    BY <1>t DEF SocketType, Readings
  <2>2. PICK m \in Nat : m = Len(reading.handed) /\ DOMAIN reading.handed = 1 .. m
    BY <2>1
  <2>3. m > 0 => reading.handed[m].number # number
    BY <1>7, <2>2
  <2> QED  BY <1>2, <1>6, <2>2, <2>3 DEF Handed
<1>10. ~Blocked' /\ Taken' = 0
  <2>1. ~Blocked'
    BY <1>5 DEF Blocked
  <2> QED  BY <1>4, <1>9, <2>1 DEF Taken
<1>11. QueueFollows' /\ WireFollows'
  <2>1. QueueFollows'
    BY <1>4, <1>10 DEF QueueFollows
  <2>2. FramesOnWire' = {}
    BY <1>2 DEF FramesOnWire
  <2> QED  BY <1>2, <1>10, <2>1, <2>2 DEF WireFollows
<1>12. WorkersStand'
  BY <1>4, <1>5, <1>6 DEF WorkersStand, ReceiverAlive
<1>13. SocketType'
  BY <1>3, <1>4, <1>5, <1>6 DEF SocketType
<1> QED  BY <1>8, <1>11, <1>12, <1>13 DEF SocketInv

LEMMA CouldNotOpen == SocketInv /\ SocketCannotOpen => SocketInv'
<1> SUFFICES ASSUME SocketInv, SocketCannotOpen PROVE SocketInv'
  OBVIOUS
<1>t. SocketType /\ HandedInOrder /\ WorkersStand
  BY DEF SocketInv
<1>1. reading.at \in {"opening", "retrying"} /\ link' = link /\ client' = client /\ socketTasks' = socketTasks
  BY DEF SocketCannotOpen
<1>2. reading' \in Readings /\ reading'.at \in {"retrying", "over"} /\ reading'.handed = reading.handed
      /\ reading'.why = reading.why
  <2>1. PICK used \in Nat : used = reading.used + (IF reading.at = "retrying" THEN 1 ELSE 0)
    BY <1>t DEF SocketType, Readings
  <2>2. PICK at \in {"retrying", "over"} : at = IF used < MaxRetries THEN "retrying" ELSE "over"
    OBVIOUS
  <2>3. reading' = [reading EXCEPT !.used = used, !.at = at]
    BY <2>1, <2>2 DEF SocketCannotOpen
  <2> QED  BY <1>t, <2>3 DEF SocketType, Readings
<1>3. HandedInOrder'
  BY <1>t, <1>1, <1>2, HandedSame
<1>4. WorkersStand'
  BY <1>t, <1>1, <1>2 DEF WorkersStand, ReceiverAlive
<1>5. ~client'.ws
  BY <1>t, <1>1 DEF WorkersStand
<1>6. SocketType'
  BY <1>t, <1>1, <1>2 DEF SocketType
<1> QED  BY <1>3, <1>4, <1>5, <1>6 DEF SocketInv

LEMMA SocketSteps == SocketInv /\ [SocketNext]_socketVars => SocketInv'
<1> SUFFICES ASSUME SocketInv, [SocketNext]_socketVars PROVE SocketInv'
  OBVIOUS
<1>1. CASE VenueSends \/ VenueBeats \/ LinkBreaks
  BY <1>1, VenueKeeps
<1>2. CASE ReceiverTakes \/ ReceiverPuts \/ ReceiverEnds
  BY <1>2, ReceiverTook, ReceiverPut, ReceiverEnded
<1>3. CASE HeartbeatPings \/ HeartbeatFails \/ HeartbeatEnds
  BY <1>3, HeartbeatKeeps, HeartbeatFailed
<1>4. CASE AskNext \/ ReaderWakes \/ IterateAnew
  BY <1>4, HandsOut DEF AskNext, ReaderWakes, IterateAnew
<1>5. CASE GiveUpWaiting
  BY <1>5, GaveUp
<1>6. CASE SocketOpens \/ SocketCannotOpen
  BY <1>6, SocketOpened, CouldNotOpen
<1>7. CASE SocketClosed
  <2>1. ClientCloses("over", "closed")
    BY <1>7 DEF SocketClosed
  <2> QED  BY <2>1, ClientClosed
<1>8. CASE UNCHANGED socketVars
  <2>1. link' = link /\ client' = client /\ socketTasks' = socketTasks /\ reading' = reading
    BY <1>8 DEF socketVars
  <2>2. SocketType' /\ HandedInOrder' /\ WorkersStand'
    BY <2>1 DEF SocketInv, SocketType, HandedInOrder, WorkersStand, ReceiverAlive
  <2>3. client.ws => QueueFollows /\ WireFollows
    BY DEF SocketInv
  <2>4. client'.ws => QueueFollows' /\ WireFollows'
    BY <2>1, <2>3, QueueSame, WireSame
  <2> QED  BY <2>2, <2>4 DEF SocketInv
<1> QED  BY <1>1, <1>2, <1>3, <1>4, <1>5, <1>6, <1>7, <1>8 DEF SocketNext

LEMMA SocketBegins == Init => SocketInit
  BY DEF Init

LEMMA SocketGoes == [Next]_commandVars => [SocketNext]_socketVars
  BY DEF commandVars, Next, Capture, RunJobs, ResolveMarkets, SuperviseShard,
    ReadVenue, ReplayTape, UseRun, IngestMarkets, PollVenue, OpenCatalog,
    ObserveShard, EmitQuotes, StreamDatasets, ResolveBatch, PlanFeed, ReadSocket,
    socketVars

(***************************************************************************)
(* What a read calls complete is complete, although the venue changed      *)
(* between its pages: a discovery that exhausted its source saw every      *)
(* market of its lanes that was listed all the time and stayed in its      *)
(* lane, two walks that ended saw every position that was there all the    *)
(* time, and a candle history that is returned read every window of one    *)
(* dataset; and a stream hands out the frames of each connection from the  *)
(* first one, in order and without a hole, none lost between the socket    *)
(* and the consumer; for any places, page sizes, caps, frames and queue    *)
(* (gamma.py, kalshi/client.py, ws.py).                                    *)
(***************************************************************************)
THEOREM ReadsStayWhole == Spec => []ReadsAreWhole
<1>1. Init => ReadInv /\ SocketInv
  BY VenueReadBegins, ReadStarts, SocketBegins, SocketStarts
<1>2. ReadInv /\ SocketInv /\ [Next]_commandVars => ReadInv' /\ SocketInv'
  BY VenueReadGoes, ReadSteps, SocketGoes, SocketSteps
<1>3. ReadInv /\ SocketInv => ReadsAreWhole
  BY ReadTold, SocketTold DEF ReadsAreWhole
<1> QED  BY <1>1, <1>2, <1>3, PTL DEF Spec
=============================================================================
