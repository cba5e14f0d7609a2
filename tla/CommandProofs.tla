---------------------------- MODULE CommandProofs ----------------------------
(***************************************************************************)
(* What the other commands keep: labels of a resolution cache, a batch of  *)
(* resolutions, the health of a supervised shard, the evidence of a        *)
(* capture, the quotes of a stream; for any bounds, markets, instruments   *)
(* and changes.                                                            *)
(***************************************************************************)
EXTENDS MCCommands, SequenceTheorems, FunctionTheorems, FiniteSetTheorems, WellFoundedInduction, TLAPS

-----------------------------------------------------------------------------
(* The resolution cache.                                                    *)

RowStates == {"weak", "open", "disputed", "inconsistent", "conflict", "final"}
RowType == [state : RowStates, label : Labels \cup {"none"}, assumed : BOOLEAN, old : BOOLEAN]
SomeRows == UNION {[S -> RowType] : S \in SUBSET Platforms}

VenueType ==
  [paid : BOOLEAN, first : Labels, status : {"active", "determined", "disputed", "finalized"},
   value : Labels, settled : SUBSET Labels, archived : BOOLEAN, moves : Nat, runs : Nat]
CacheType == [readable : BOOLEAN, rows : [Platforms -> RowType]]
AskingType ==
  [at : {"asking", "clob", "chain", "historical"}, live : RowType, named : BOOLEAN,
   existing : SomeRows, found : SomeRows, asked : SUBSET Platforms]
WritingType == [at : {"writing"}, live : {Weak}, named : {FALSE}, rows : [Platforms -> RowType]]

\* A row hands out no label but a true one.
TrueRow(platform, row) ==
  Eligible(row) => IF platform = "polymarket" THEN venue.paid /\ row.label = venue.first
                   ELSE row.label \in venue.settled
TrueRows(rows) == \A p \in DOMAIN rows : TrueRow(p, rows[p])

\* Two rows that hand out labels hand out the same.
SameLabel(row, next) == Eligible(row) /\ Eligible(next) => next.label = row.label

ResolutionInv ==
  /\ venue \in VenueType /\ cache \in CacheType
  /\ lookup \in {NoLookup} \cup AskingType \cup WritingType
  /\ venue.status = "finalized" => venue.value \in venue.settled
  /\ TrueRows(cache.rows)
  /\ lookup \in AskingType =>
       /\ \A p \in DOMAIN lookup.existing : lookup.existing[p] = cache.rows[p]
       /\ lookup.asked \subseteq DOMAIN lookup.existing
       /\ DOMAIN lookup.found \subseteq Platforms
       /\ TrueRows(lookup.found) /\ TrueRow("kalshi", lookup.live)
  /\ lookup \in WritingType =>
       TrueRows(lookup.rows) /\ \A p \in Platforms : SameLabel(cache.rows[p], lookup.rows[p])

\* No label of a file contradicts that of the file before it.
KeepsLabels == \A p \in Platforms : SameLabel(cache.rows[p], cache'.rows[p])

\* The kinds of a run are told apart by where it is.
LEMMA LookupKinds ==
  ASSUME NEW l
  PROVE  /\ l = NoLookup => l.at = "none"
         /\ l \in AskingType => l.at \in {"asking", "clob", "chain", "historical"}
         /\ l \in WritingType => l.at = "writing"
<1>1. l = NoLookup => l.at = "none"
  BY DEF NoLookup
<1>2. l \in AskingType => l.at \in {"asking", "clob", "chain", "historical"}
  BY DEF AskingType
<1>3. l \in WritingType => l.at = "writing"
  BY DEF WritingType
<1> QED  BY <1>1, <1>2, <1>3

LEMMA RowTypes ==
  /\ Weak \in RowType /\ Conflict \in RowType /\ ~Eligible(Weak) /\ ~Eligible(Conflict)
  /\ \A s \in RowStates, l \in Labels \cup {"none"} :
       Row(s, l) \in RowType /\ Row(s, l).state = s /\ Row(s, l).label = l
<1>1. ASSUME NEW s \in RowStates, NEW l \in Labels \cup {"none"}
      PROVE  Row(s, l) \in RowType /\ Row(s, l).state = s /\ Row(s, l).label = l
  BY DEF Row, RowType
<1>2. "weak" \in RowStates /\ "conflict" \in RowStates
  BY DEF RowStates
<1> QED  BY <1>1, <1>2 DEF Weak, Conflict, Eligible

\* A row but for one of its marks.
LEMMA MarkedRow ==
  ASSUME NEW row \in RowType, NEW b \in BOOLEAN
  PROVE  /\ [row EXCEPT !.assumed = b] \in RowType /\ [row EXCEPT !.assumed = b].label = row.label
         /\ [row EXCEPT !.assumed = b].assumed = b
         /\ [row EXCEPT !.old = b] \in RowType /\ [row EXCEPT !.old = b].old = b
  BY DEF RowType

\* What the sources say hands out no label but a true one.
LEMMA PayloadTrue ==
  ASSUME venue \in VenueType, venue.status = "finalized" => venue.value \in venue.settled,
         NEW there \in BOOLEAN, NEW row \in Payload(there)
  PROVE  row \in RowType /\ TrueRow("kalshi", row)
<1>1. venue.value \in Labels /\ "none" \in Labels \cup {"none"}
  BY DEF VenueType
<1>2. CASE row = Weak
  <2>1. ~Eligible(Weak) /\ Weak \in RowType
    BY RowTypes
  <2> QED  BY <1>2, <2>1 DEF TrueRow
<1>3. CASE venue.status = "finalized" /\ row = Row("final", venue.value)
  BY <1>1, <1>3, RowTypes DEF TrueRow, RowStates
<1>4. ASSUME NEW s \in {"disputed", "open"}, row = Row(s, "none")
      PROVE  row \in RowType /\ TrueRow("kalshi", row)
  <2>1. row \in RowType /\ row.state = s
    BY <1>1, <1>4, RowTypes DEF RowStates
  <2>2. ~Eligible(row)
    BY <2>1 DEF Eligible
  <2> QED  BY <2>1, <2>2 DEF TrueRow
<1>5. \/ row = Weak \/ (venue.status = "finalized" /\ row = Row("final", venue.value))
      \/ row = Row("disputed", "none") \/ row = Row("open", "none")
  BY DEF Payload
<1> QED  BY <1>2, <1>3, <1>4, <1>5

LEMMA KalshiTrue ==
  ASSUME NEW live \in RowType, NEW historical \in RowType,
         TrueRow("kalshi", live), TrueRow("kalshi", historical)
  PROVE  Kalshi(live, historical) \in RowType /\ TrueRow("kalshi", Kalshi(live, historical))
<1>1. Kalshi(live, historical) \in {Row("inconsistent", "none"), Weak, live, historical}
  BY DEF Kalshi
<1>2. /\ Row("inconsistent", "none") \in RowType
      /\ TrueRow("kalshi", Row("inconsistent", "none")) /\ TrueRow("kalshi", Weak)
  BY RowTypes DEF TrueRow, Eligible, RowStates
<1> QED  BY <1>1, <1>2, RowTypes

LEMMA PolymarketTrue ==
  ASSUME venue \in VenueType, NEW named \in BOOLEAN, NEW answered \in BOOLEAN
  PROVE  /\ Polymarket(named, answered) \in RowType
         /\ TrueRow("polymarket", Polymarket(named, answered))
<1>1. venue.first \in Labels /\ "yes" \in Labels /\ "final" \in RowStates
  BY DEF VenueType, Labels, RowStates
<1>2. CASE ~Vector(answered)
  BY <1>2, RowTypes DEF Polymarket, TrueRow
<1>3. CASE Vector(answered)
  <2>1. Polymarket(named, answered) = [Row("final", FirstLabel(named)) EXCEPT !.assumed = ~named]
    BY <1>3 DEF Polymarket
  <2>2. FirstLabel(named) \in Labels /\ (named => FirstLabel(named) = venue.first)
    BY <1>1 DEF FirstLabel
  <2>3. (~named) \in BOOLEAN /\ venue.paid
    BY <1>3 DEF Vector
  <2>4. Row("final", FirstLabel(named)) \in RowType
        /\ Row("final", FirstLabel(named)).label = FirstLabel(named)
    BY <1>1, <2>2, RowTypes
  <2>5. ASSUME NEW row \in RowType, row.label = FirstLabel(named), NEW b \in BOOLEAN, b = ~named
        PROVE  /\ [row EXCEPT !.assumed = b] \in RowType
               /\ TrueRow("polymarket", [row EXCEPT !.assumed = b])
    <3> DEFINE new == [row EXCEPT !.assumed = b]
    <3>1. new \in RowType /\ new.label = row.label /\ new.assumed = b
      BY MarkedRow
    <3> HIDE DEF new
    <3>2. TrueRow("polymarket", new)
      BY <2>2, <2>3, <2>5, <3>1 DEF TrueRow, Eligible
    <3> QED  BY <3>1, <3>2 DEF new
  <2> QED  BY <2>1, <2>3, <2>4, <2>5
<1> QED  BY <1>2, <1>3

\* A row that replaces one of the file.
LEMMA MergedTrue ==
  ASSUME NEW p \in Platforms, NEW row \in RowType, NEW new \in RowType,
         TrueRow(p, row), TrueRow(p, new)
  PROVE  /\ Merged(row, new) \in RowType /\ TrueRow(p, Merged(row, new))
         /\ SameLabel(row, Merged(row, new))
<1>1. CASE row.state = "conflict" /\ new.state \notin {"disputed", "inconsistent"}
  <2>1. Merged(row, new) = row
    BY <1>1 DEF Merged, Contradicts, Current
  <2> QED  BY <2>1 DEF SameLabel
<1>2. CASE Contradicts(row, new)
  <2>1. Merged(row, new) = Conflict
    BY <1>2 DEF Merged, Contradicts, Current
  <2> QED  BY <2>1, RowTypes DEF SameLabel, TrueRow
<1>3. CASE ~Contradicts(row, new) /\ Merged(row, new) \in {row, new}
  BY <1>3 DEF SameLabel, Contradicts, Eligible
<1>4. Merged(row, new) \in {row, new} \/ Contradicts(row, new)
  BY DEF Merged, Contradicts, Current
<1> QED  BY <1>1, <1>2, <1>3, <1>4

ResolutionOK == ResolutionInv' /\ KeepsLabels

\* The venue pays, determines or settles: true labels stay true.
LEMMA VenueMoves ==
  ASSUME ResolutionInv, venue' \in VenueType, venue'.first = venue.first,
         venue.paid => venue'.paid, venue.settled \subseteq venue'.settled,
         venue'.status = "finalized" => venue'.value \in venue'.settled,
         UNCHANGED <<cache, lookup>>
  PROVE  ResolutionOK
<1>1. \A p, row : TrueRow(p, row) => TrueRow(p, row)'
  BY DEF TrueRow, Eligible
<1>2. \A rows : TrueRows(rows) => (\A p \in DOMAIN rows : TrueRow(p, rows[p])')
  BY <1>1 DEF TrueRows
<1>3. TrueRows(cache.rows)' /\ KeepsLabels
  BY <1>2 DEF ResolutionInv, TrueRows, KeepsLabels, SameLabel
<1>4. lookup \in AskingType => TrueRows(lookup.found)' /\ TrueRow("kalshi", lookup.live)'
  BY <1>1, <1>2 DEF ResolutionInv, TrueRows
<1>5. lookup \in WritingType =>
        TrueRows(lookup.rows)' /\ \A p \in Platforms : SameLabel(cache.rows[p], lookup.rows[p])'
  BY <1>2 DEF ResolutionInv, TrueRows, SameLabel
<1> QED  BY <1>3, <1>4, <1>5 DEF ResolutionOK, ResolutionInv

\* What a move of the venue may not do.
NoLabelLost(next) ==
  /\ next.first = venue.first /\ venue.settled \subseteq next.settled
  /\ venue.paid => next.paid
  /\ next.status = "finalized" => next.value \in next.settled

LEMMA MovesStep ==
  ASSUME ResolutionInv, NEW next \in VenueType, NoLabelLost(next), Moves(next)
  PROVE  ResolutionOK
<1>1. venue' = [next EXCEPT !.moves = @ + 1] /\ UNCHANGED <<cache, lookup>>
  BY DEF Moves
<1>2. /\ venue' \in VenueType /\ venue'.first = next.first /\ venue'.paid = next.paid
      /\ venue'.settled = next.settled /\ venue'.status = next.status /\ venue'.value = next.value
  BY <1>1 DEF VenueType
<1> QED  BY <1>1, <1>2, VenueMoves DEF NoLabelLost

\* The run goes on, and the venue and the file stay.
LEMMA LookupSteps ==
  ASSUME ResolutionInv, lookup \in AskingType, UNCHANGED <<venue, cache>>,
         lookup' \in AskingType, lookup'.existing = lookup.existing, lookup'.asked = lookup.asked,
         TrueRows(lookup'.found), TrueRow("kalshi", lookup'.live), DOMAIN lookup'.found \subseteq Platforms
  PROVE  ResolutionOK
<1>1. \A p, row : TrueRow(p, row) <=> TrueRow(p, row)'
  BY DEF TrueRow, Eligible
<1>2. lookup' \notin WritingType /\ lookup' # NoLookup
  BY LookupKinds
<1>3. TrueRows(cache.rows)' /\ KeepsLabels
  BY <1>1 DEF ResolutionInv, TrueRows, KeepsLabels, SameLabel
<1>4. TrueRows(lookup.found)' /\ TrueRow("kalshi", lookup.live)'
  BY <1>1 DEF TrueRows
<1>5. /\ \A p \in DOMAIN lookup'.existing : lookup'.existing[p] = cache'.rows[p]
      /\ lookup'.asked \subseteq DOMAIN lookup'.existing
  BY DEF ResolutionInv
<1> QED  BY <1>2, <1>3, <1>4, <1>5 DEF ResolutionOK, ResolutionInv

\* A market is resolved as far as the run is concerned.
LEMMA FoundKeeps ==
  ASSUME ResolutionInv, lookup \in AskingType, UNCHANGED <<venue, cache>>, NEW platform \in Platforms,
         NEW record \in RowType, TrueRow(platform, record), lookup' = Found(platform, record)
  PROVE  ResolutionOK
<1> DEFINE found == [p \in DOMAIN lookup.found \cup {platform} |->
                       IF p = platform THEN record ELSE lookup.found[p]]
<1>1. lookup' = [at |-> "asking", live |-> Weak, named |-> FALSE, existing |-> lookup.existing,
                 found |-> found, asked |-> lookup.asked]
  BY DEF Found, AskingType
<1>2. /\ DOMAIN lookup.found \subseteq Platforms /\ TrueRows(lookup.found)
      /\ \A p \in DOMAIN lookup.found : lookup.found[p] \in RowType
  BY DEF ResolutionInv, AskingType, SomeRows
<1>3. found \in SomeRows /\ TrueRows(found) /\ DOMAIN found \subseteq Platforms
  <2>1. DOMAIN found = DOMAIN lookup.found \cup {platform}
    OBVIOUS
  <2>2. \A p \in DOMAIN found : found[p] \in RowType /\ TrueRow(p, found[p])
    BY <1>2 DEF TrueRows
  <2>3. found \in [DOMAIN found -> RowType] /\ DOMAIN found \in SUBSET Platforms
    BY <1>2, <2>1, <2>2
  <2> HIDE DEF found
  <2> QED  BY <2>2, <2>3 DEF SomeRows, TrueRows
<1>4. TrueRow("kalshi", Weak) /\ Weak \in RowType
  BY RowTypes DEF TrueRow
<1> HIDE DEF found
<1>5. /\ lookup' \in AskingType /\ lookup'.existing = lookup.existing
      /\ lookup'.asked = lookup.asked /\ lookup'.found = found /\ lookup'.live = Weak
  BY <1>1, <1>3, <1>4 DEF AskingType
<1> QED  BY <1>3, <1>4, <1>5, LookupSteps

LEMMA ResolveStep ==
  ASSUME ResolutionInv, NEW scope \in SUBSET Platforms, NEW refresh \in BOOLEAN, Resolve(scope, refresh)
  PROVE  ResolutionOK
<1> DEFINE existing == Restrict(cache.rows, scope)
           asked == {p \in scope : refresh \/ ~Current(cache.rows[p])}
<1>1. /\ lookup' = [at |-> "asking", live |-> Weak, named |-> FALSE, existing |-> existing,
                    found |-> << >>, asked |-> asked]
      /\ venue' = [venue EXCEPT !.runs = @ + 1] /\ cache' = cache
  BY DEF Resolve
<1>2. venue \in VenueType /\ cache.rows \in [Platforms -> RowType]
  BY DEF ResolutionInv, CacheType
<1>3. venue' \in VenueType /\ venue'.first = venue.first /\ venue'.paid = venue.paid
      /\ venue'.settled = venue.settled /\ venue'.status = venue.status /\ venue'.value = venue.value
  BY <1>1, <1>2 DEF VenueType
<1>4. existing \in SomeRows /\ DOMAIN existing = scope /\ \A p \in scope : existing[p] = cache.rows[p]
  BY <1>2 DEF Restrict, SomeRows
<1>5. << >> \in SomeRows /\ DOMAIN << >> = {} /\ asked \subseteq scope
  BY DEF SomeRows
<1> HIDE DEF existing, asked
<1>6. TrueRow("kalshi", Weak) /\ Weak \in RowType
  BY RowTypes DEF TrueRow
<1>7. /\ lookup' \in AskingType /\ lookup'.existing = existing /\ lookup'.asked = asked
      /\ lookup'.found = << >> /\ lookup'.live = Weak
  BY <1>1, <1>4, <1>5, <1>6 DEF AskingType
<1>8. lookup' \notin WritingType /\ lookup' # NoLookup
  BY <1>7, LookupKinds
<1>9. \A p, row : TrueRow(p, row) <=> TrueRow(p, row)'
  BY <1>3 DEF TrueRow, Eligible
<1>10. TrueRows(cache.rows)' /\ KeepsLabels
  BY <1>1, <1>9 DEF ResolutionInv, TrueRows, KeepsLabels, SameLabel
<1>11. TrueRows(lookup.found)' /\ TrueRow("kalshi", lookup.live)'
  BY <1>5, <1>6, <1>7, <1>9 DEF TrueRows
<1> QED
  BY <1>1, <1>2, <1>3, <1>4, <1>5, <1>7, <1>8, <1>10, <1>11 DEF ResolutionOK, ResolutionInv

\* Between the answers of two sources.
LEMMA AskingStep ==
  ASSUME ResolutionInv, lookup \in AskingType, UNCHANGED <<venue, cache>>,
         NEW at \in {"asking", "clob", "chain", "historical"}, NEW live \in RowType,
         NEW named \in BOOLEAN, TrueRow("kalshi", live),
         lookup' = [lookup EXCEPT !.at = at, !.live = live, !.named = named]
  PROVE  ResolutionOK
<1>1. /\ lookup' \in AskingType /\ lookup'.existing = lookup.existing
      /\ lookup'.asked = lookup.asked /\ lookup'.found = lookup.found /\ lookup'.live = live
  BY DEF AskingType
<1> QED  BY <1>1, LookupSteps DEF ResolutionInv

LEMMA MergeRowsStep ==
  ASSUME ResolutionInv, MergeRows
  PROVE  ResolutionOK
<1> DEFINE next(p) == CASE p \in lookup.asked -> Merged(lookup.existing[p], lookup.found[p])
                        [] p \in DOMAIN lookup.existing \ lookup.asked -> lookup.existing[p]
                        [] OTHER -> cache.rows[p]
           rows == [p \in Platforms |-> next(p)]
<1>1. /\ lookup.at = "asking" /\ lookup.asked = DOMAIN lookup.found /\ venue' = venue
      /\ lookup' = [at |-> "writing", live |-> Weak, named |-> FALSE, rows |-> rows]
      /\ cache' = [cache EXCEPT !.readable = FALSE]
  BY DEF MergeRows
<1>2. lookup \in AskingType /\ cache \in CacheType
  BY <1>1, LookupKinds DEF ResolutionInv
<1>3. cache' \in CacheType /\ cache'.rows = cache.rows
  BY <1>1, <1>2 DEF CacheType
<1>4. ASSUME NEW p \in Platforms
      PROVE  next(p) \in RowType /\ TrueRow(p, next(p)) /\ SameLabel(cache.rows[p], next(p))
  <2>1. cache.rows[p] \in RowType /\ TrueRow(p, cache.rows[p]) /\ DOMAIN cache.rows = Platforms
    BY <1>2 DEF ResolutionInv, TrueRows, CacheType
  <2>2. p \in DOMAIN lookup.existing => lookup.existing[p] = cache.rows[p]
    BY <1>2 DEF ResolutionInv
  <2>3. CASE p \in lookup.asked
    <3>1. next(p) = Merged(cache.rows[p], lookup.found[p])
      BY <1>2, <2>2, <2>3 DEF ResolutionInv
    <3>2. lookup.found[p] \in RowType /\ TrueRow(p, lookup.found[p])
      BY <1>1, <1>2, <2>3 DEF ResolutionInv, TrueRows, AskingType, SomeRows
    <3> QED  BY <2>1, <3>1, <3>2, MergedTrue
  <2>4. CASE p \notin lookup.asked
    <3>1. next(p) = cache.rows[p]
      BY <2>2, <2>4
    <3> QED  BY <2>1, <3>1 DEF SameLabel
  <2> QED  BY <2>3, <2>4
<1> HIDE DEF next
<1>5. /\ lookup' \in WritingType /\ lookup'.rows = rows
      /\ rows \in [Platforms -> RowType] /\ \A p \in Platforms : rows[p] = next(p)
  BY <1>1, <1>4 DEF WritingType
<1> HIDE DEF rows
<1>6. lookup' \notin AskingType
  BY <1>5, LookupKinds
<1>7. \A p, row : TrueRow(p, row) <=> TrueRow(p, row)'
  BY <1>1 DEF TrueRow, Eligible
<1>8. TrueRows(cache.rows)' /\ KeepsLabels
  BY <1>3, <1>7 DEF ResolutionInv, TrueRows, KeepsLabels, SameLabel
<1>9. TrueRows(lookup.rows)' /\ \A p \in Platforms : SameLabel(cache.rows[p], lookup.rows[p])'
  BY <1>3, <1>4, <1>5, <1>7 DEF TrueRows, SameLabel
<1> QED  BY <1>1, <1>3, <1>5, <1>6, <1>8, <1>9 DEF ResolutionOK, ResolutionInv

\* The run ends, and its rows, or those there were, are what the file says.
LEMMA LookupEnds ==
  ASSUME ResolutionInv, lookup' = NoLookup, venue' = venue, cache' \in CacheType,
         cache'.rows = cache.rows \/ (lookup \in WritingType /\ cache'.rows = lookup.rows)
  PROVE  ResolutionOK
<1>1. \A p, row : TrueRow(p, row) <=> TrueRow(p, row)'
  BY DEF TrueRow, Eligible
<1>2. TrueRows(cache'.rows)
  BY DEF ResolutionInv
<1>3. TrueRows(cache.rows)'
  BY <1>1, <1>2 DEF TrueRows
<1>4. KeepsLabels
  BY DEF ResolutionInv, KeepsLabels, SameLabel
<1>5. lookup' \notin AskingType /\ lookup' \notin WritingType
  BY LookupKinds
<1> QED  BY <1>3, <1>4, <1>5 DEF ResolutionOK, ResolutionInv

LEMMA ResolutionStarts == ResolutionInit => ResolutionInv
<1> SUFFICES ASSUME ResolutionInit PROVE ResolutionInv
  OBVIOUS
<1>1. PICK first \in Labels, value \in Labels :
        venue = [paid |-> FALSE, first |-> first, status |-> "active", value |-> value,
                 settled |-> {}, archived |-> FALSE, moves |-> 0, runs |-> 0]
  BY DEF ResolutionInit
<1>2. venue \in VenueType /\ venue.status = "active"
  BY <1>1 DEF VenueType
<1>3. PICK kalshi \in {Weak, [Row("final", "yes") EXCEPT !.old = TRUE]} :
        cache = [readable |-> TRUE, rows |-> [polymarket |-> Weak, kalshi |-> kalshi]]
  BY DEF ResolutionInit
<1>4. kalshi \in RowType /\ ~Eligible(kalshi)
  <2>1. Row("final", "yes") \in RowType
    BY RowTypes DEF RowStates, Labels
  <2>2. [Row("final", "yes") EXCEPT !.old = TRUE] \in RowType
        /\ [Row("final", "yes") EXCEPT !.old = TRUE].old = TRUE
    BY <2>1, MarkedRow
  <2> QED  BY <1>3, <2>2, RowTypes DEF Eligible
<1>5. cache \in CacheType /\ cache.rows["polymarket"] = Weak /\ cache.rows["kalshi"] = kalshi
      /\ DOMAIN cache.rows = Platforms
  BY <1>3, <1>4, RowTypes DEF CacheType, Platforms
<1>6. TrueRows(cache.rows)
  BY <1>4, <1>5, RowTypes DEF TrueRows, TrueRow, Platforms
<1>7. lookup = NoLookup /\ lookup \notin AskingType /\ lookup \notin WritingType
  BY LookupKinds DEF ResolutionInit
<1> QED  BY <1>2, <1>5, <1>6, <1>7 DEF ResolutionInv

LEMMA ResolutionSteps == ResolutionInv /\ [ResolutionNext]_resolutionVars => ResolutionOK
<1> SUFFICES ASSUME ResolutionInv, [ResolutionNext]_resolutionVars PROVE ResolutionOK
  OBVIOUS
<1>0. venue \in VenueType /\ cache \in CacheType /\ Platforms = {"polymarket", "kalshi"}
      /\ \A row : ~Eligible(row) => \A p : TrueRow(p, row)
  BY DEF ResolutionInv, Platforms, TrueRow
<1>1. CASE UNCHANGED resolutionVars
  BY <1>0, <1>1, VenueMoves DEF resolutionVars, ResolutionInv
<1>2. CASE ChainPays
  <2> DEFINE next == [venue EXCEPT !.paid = TRUE]
  <2>1. next \in VenueType /\ NoLabelLost(next)
    BY <1>0, <1>2 DEF ChainPays, NoLabelLost, VenueType, ResolutionInv
  <2> HIDE DEF next
  <2> QED  BY <1>2, <2>1, MovesStep DEF ChainPays, next
<1>3. ASSUME NEW value \in Labels, KalshiDetermines(value) PROVE ResolutionOK
  <2> DEFINE next == [venue EXCEPT !.status = "determined", !.value = value]
  <2>1. next \in VenueType /\ NoLabelLost(next)
    BY <1>0, <1>3 DEF KalshiDetermines, NoLabelLost, VenueType, ResolutionInv
  <2> HIDE DEF next
  <2> QED  BY <1>3, <2>1, MovesStep DEF KalshiDetermines, next
<1>4. CASE KalshiDisputes
  <2> DEFINE next == [venue EXCEPT !.status = "disputed"]
  <2>1. next \in VenueType /\ NoLabelLost(next)
    BY <1>0, <1>4 DEF KalshiDisputes, NoLabelLost, VenueType, ResolutionInv
  <2> HIDE DEF next
  <2> QED  BY <1>4, <2>1, MovesStep DEF KalshiDisputes, next
<1>5. CASE KalshiSettles
  <2> DEFINE next == [venue EXCEPT !.status = "finalized", !.settled = @ \cup {venue.value}]
  <2>1. next \in VenueType /\ NoLabelLost(next)
    BY <1>0, <1>5 DEF KalshiSettles, NoLabelLost, VenueType, ResolutionInv
  <2> HIDE DEF next
  <2> QED  BY <1>5, <2>1, MovesStep DEF KalshiSettles, next
<1>6. CASE KalshiArchives
  <2> DEFINE next == [venue EXCEPT !.archived = TRUE]
  <2>1. next \in VenueType /\ NoLabelLost(next)
    BY <1>0, <1>6 DEF KalshiArchives, NoLabelLost, VenueType, ResolutionInv
  <2> HIDE DEF next
  <2> QED  BY <1>6, <2>1, MovesStep DEF KalshiArchives, next
<1>7. ASSUME NEW condition \in BOOLEAN, NEW named \in BOOLEAN, AskGamma(condition, named)
      PROVE  ResolutionOK
  <2>1. lookup \in AskingType /\ UNCHANGED <<venue, cache>>
    BY <1>7, LookupKinds DEF AskGamma, ResolutionInv
  <2>2. CASE condition
    <3>1. lookup' = [lookup EXCEPT !.at = "clob", !.live = lookup.live, !.named = named]
      BY <1>7, <2>1, <2>2 DEF AskGamma, AskingType
    <3>2. lookup.live \in RowType /\ TrueRow("kalshi", lookup.live)
      BY <2>1 DEF ResolutionInv, AskingType
    <3> QED  BY <2>1, <3>1, <3>2, AskingStep
  <2>3. CASE ~condition
    BY <1>0, <1>7, <2>1, <2>3, RowTypes, FoundKeeps DEF AskGamma
  <2> QED  BY <2>2, <2>3
<1>8. CASE AskClob
  <2>1. lookup \in AskingType /\ UNCHANGED <<venue, cache>>
    BY <1>8, LookupKinds DEF AskClob, ResolutionInv
  <2>2. lookup' = [lookup EXCEPT !.at = "chain", !.live = lookup.live, !.named = lookup.named]
    BY <1>8, <2>1 DEF AskClob, AskingType
  <2>3. lookup.live \in RowType /\ TrueRow("kalshi", lookup.live) /\ lookup.named \in BOOLEAN
    BY <2>1 DEF ResolutionInv, AskingType
  <2> QED  BY <2>1, <2>2, <2>3, AskingStep
<1>9. ASSUME NEW answered \in BOOLEAN, AskChain(answered) PROVE ResolutionOK
  <2>1. lookup \in AskingType /\ UNCHANGED <<venue, cache>>
    BY <1>9, LookupKinds DEF AskChain, ResolutionInv
  <2>2. lookup.named \in BOOLEAN
    BY <2>1 DEF AskingType
  <2> QED  BY <1>0, <1>9, <2>1, <2>2, PolymarketTrue, FoundKeeps DEF AskChain
<1>10. CASE AskKalshiLive
  <2>1. lookup \in AskingType /\ UNCHANGED <<venue, cache>> /\ (~venue.archived) \in BOOLEAN
    BY <1>10, LookupKinds DEF AskKalshiLive, ResolutionInv
  <2>2. PICK live \in Payload(~venue.archived) :
          lookup' = [lookup EXCEPT !.at = "historical", !.live = live]
    BY <1>10 DEF AskKalshiLive
  <2>3. lookup' = [lookup EXCEPT !.at = "historical", !.live = live, !.named = lookup.named]
    BY <2>1, <2>2 DEF AskingType
  <2>4. live \in RowType /\ TrueRow("kalshi", live) /\ lookup.named \in BOOLEAN
    BY <1>0, <2>1, PayloadTrue DEF ResolutionInv, AskingType
  <2> QED  BY <2>1, <2>3, <2>4, AskingStep
<1>11. CASE AskKalshiHistorical
  <2>1. lookup \in AskingType /\ UNCHANGED <<venue, cache>> /\ venue.archived \in BOOLEAN
    BY <1>0, <1>11, LookupKinds DEF AskKalshiHistorical, ResolutionInv, VenueType
  <2>2. PICK historical \in Payload(venue.archived) :
          lookup' = Found("kalshi", Kalshi(lookup.live, historical))
    BY <1>11 DEF AskKalshiHistorical
  <2>3. historical \in RowType /\ TrueRow("kalshi", historical)
    BY <1>0, <2>1, PayloadTrue DEF ResolutionInv
  <2>4. lookup.live \in RowType /\ TrueRow("kalshi", lookup.live)
    BY <2>1 DEF ResolutionInv, AskingType
  <2> QED  BY <1>0, <2>1, <2>2, <2>3, <2>4, KalshiTrue, FoundKeeps
<1>12. CASE WriteCache
  <2>1. lookup \in WritingType /\ cache' = [readable |-> TRUE, rows |-> lookup.rows]
        /\ lookup' = NoLookup /\ venue' = venue
    BY <1>12, LookupKinds DEF WriteCache, ResolutionInv
  <2>2. cache' \in CacheType /\ cache'.rows = lookup.rows
    BY <2>1 DEF CacheType, WritingType
  <2> QED  BY <2>1, <2>2, LookupEnds
<1>13. CASE LookupDies
  BY <1>0, <1>13, LookupEnds DEF LookupDies
<1> QED
  BY <1>1, <1>2, <1>3, <1>4, <1>5, <1>6, <1>7, <1>8, <1>9, <1>10, <1>11, <1>12, <1>13,
     ResolveStep, MergeRowsStep DEF ResolutionNext

LEMMA ResolutionBegins == Init => ResolutionInit
  BY DEF Init

LEMMA ResolutionGoes == [Next]_commandVars => [ResolutionNext]_resolutionVars
  BY DEF commandVars, Next, Capture, RunJobs, ResolveMarkets, SuperviseShard,
    ReadVenue, ReplayTape, UseRun, IngestMarkets, PollVenue, OpenCatalog,
    ObserveShard, EmitQuotes, StreamDatasets, ResolveBatch, PlanFeed, ReadSocket,
    resolutionVars

LEMMA ResolutionTold == ResolutionInv => LabelIsTrue
<1> SUFFICES ASSUME ResolutionInv PROVE LabelIsTrue
  OBVIOUS
<1>1. DOMAIN cache.rows = Platforms /\ "polymarket" \in Platforms /\ "kalshi" \in Platforms
  BY DEF ResolutionInv, CacheType, Platforms
<1>2. TrueRow("polymarket", cache.rows["polymarket"]) /\ TrueRow("kalshi", cache.rows["kalshi"])
  BY <1>1 DEF ResolutionInv, TrueRows
<1> QED  BY <1>2 DEF TrueRow, LabelIsTrue

(***************************************************************************)
(* A label a file hands out is never contradicted by a later file over the *)
(* same cache (resolution/kalshi.py, polymarket.py: merge and write).      *)
(***************************************************************************)
THEOREM LabelsNeverFlip == Spec => LabelNeverFlips
<1>1. Init => ResolutionInv
  BY ResolutionBegins, ResolutionStarts
<1>2. ResolutionInv /\ [Next]_commandVars => ResolutionInv'
  BY ResolutionGoes, ResolutionSteps DEF ResolutionOK
<1>3. ResolutionInv /\ [Next]_commandVars
        => [\A p \in Platforms : Eligible(cache.rows[p]) /\ Eligible(cache'.rows[p])
                                 => cache'.rows[p].label = cache.rows[p].label]_resolutionVars
  BY ResolutionGoes, ResolutionSteps DEF ResolutionOK, KeepsLabels, SameLabel
<1> QED  BY <1>1, <1>2, <1>3, PTL DEF Spec, LabelNeverFlips

-----------------------------------------------------------------------------
(* A batch of resolutions.                                                  *)

Phases == {"preparing", "creating", "waiting", "draining", "returned", "raised"}
BatchType ==
  /\ batch \in [phase : Phases, next : 1 .. BatchSize + 1, results : SUBSET Inputs, expired : BOOLEAN]
  /\ crew \in [Workers -> [at : {"none", "ready", "reading", "cancelling", "done", "failed"},
                           item : 0 .. BatchSize]]
  /\ begun \in [Inputs -> {0, 1}]

\* The index divides the markets begun from the others.
BatchInv ==
  /\ BatchType
  /\ \A i \in Inputs : begun[i] = 1 <=> i < batch.next
  /\ \A i \in batch.results : i < batch.next
  /\ \A w \in Workers :
       /\ crew[w].item < batch.next
       /\ crew[w].at = "reading" => crew[w].item # 0
  /\ batch.phase \in {"preparing", "creating"} => \A w \in Workers : crew[w] = NoWorker
  /\ batch.phase \in {"returned", "raised"} => Busy = {}
  /\ batch.phase = "returned" => batch.results = Inputs /\ ~batch.expired

LEMMA BatchFits == BatchSize \in Nat \ {0} /\ Inputs = 1 .. BatchSize
  BY BatchAssumption DEF Inputs

LEMMA BatchTold == BatchInv => BatchIsWhole
  BY BatchFits DEF BatchInv, BatchType, BatchIsWhole

LEMMA BatchStarts == BatchInit => BatchInv
<1> SUFFICES ASSUME BatchInit PROVE BatchInv
  OBVIOUS
<1>1. NoWorker \in [at : {"none", "ready", "reading", "cancelling", "done", "failed"},
                    item : 0 .. BatchSize]
  BY BatchFits DEF NoWorker
<1>2. BatchType
  BY <1>1, BatchFits DEF BatchInit, BatchType, Phases
<1> QED  BY <1>2, BatchFits DEF BatchInit, BatchInv, NoWorker

\* A worker that is taken out of the loop keeps its market.
LEMMA CancellingKeeps ==
  ASSUME NEW n \in 1 .. BatchSize + 1,
         NEW workers \in [Workers -> [at : {"none", "ready", "reading", "cancelling", "done", "failed"},
                                      item : 0 .. BatchSize]],
         \A w \in Workers : workers[w].item < n
  PROVE  /\ Cancelling(workers) \in [Workers -> [at : {"none", "ready", "reading", "cancelling", "done", "failed"},
                                                 item : 0 .. BatchSize]]
         /\ \A w \in Workers : Cancelling(workers)[w].item < n /\ Cancelling(workers)[w].at # "reading"
<1>1. ASSUME NEW w \in Workers
      PROVE  /\ Cancelling(workers)[w] \in [at : {"none", "ready", "reading", "cancelling", "done", "failed"},
                                            item : 0 .. BatchSize]
             /\ Cancelling(workers)[w].item < n /\ Cancelling(workers)[w].at # "reading"
  <2>1. workers[w] \in [at : {"none", "ready", "reading", "cancelling", "done", "failed"},
                        item : 0 .. BatchSize]
    OBVIOUS
  <2>2. CASE workers[w].at \in AtEnd
    BY <2>1, <2>2 DEF Cancelling, AtEnd
  <2>3. CASE workers[w].at \notin AtEnd
    BY <2>1, <2>3 DEF Cancelling
  <2> QED  BY <2>2, <2>3
<1> QED  BY <1>1 DEF Cancelling

\* A worker takes the next market, or comes to the end.
LEMMA TakeNextKeeps ==
  ASSUME BatchInv, NEW w \in Workers, NEW results \in SUBSET Inputs,
         \A i \in results : i < batch.next, crew[w].at \notin AtEnd, TakeNext(w, results)
  PROVE  BatchInv'
<1>1. /\ batch.next \in 1 .. BatchSize + 1 /\ batch.next \in Nat /\ BatchSize \in Nat
      /\ batch.phase \notin {"returned", "raised"} /\ batch.phase \notin {"preparing", "creating"}
  BY BatchFits DEF BatchInv, BatchType, Busy, NoWorker, AtEnd
<1>2. CASE batch.expired \/ batch.next > BatchSize
  <2>1. /\ crew' = [crew EXCEPT ![w] = [NoWorker EXCEPT !.at = IF batch.expired THEN "failed" ELSE "done"]]
        /\ batch' = [batch EXCEPT !.results = results] /\ begun' = begun
    BY <1>2 DEF TakeNext
  <2>2. /\ batch'.next = batch.next /\ batch'.phase = batch.phase /\ batch'.results = results
        /\ batch' \in [phase : Phases, next : 1 .. BatchSize + 1, results : SUBSET Inputs, expired : BOOLEAN]
    BY <2>1 DEF BatchInv, BatchType
  <2>3. /\ crew'[w].at \in {"failed", "done"} /\ crew'[w].item = 0
        /\ \A v \in Workers \ {w} : crew'[v] = crew[v]
        /\ crew' \in [Workers -> [at : {"none", "ready", "reading", "cancelling", "done", "failed"},
                                  item : 0 .. BatchSize]]
    <3>1. [NoWorker EXCEPT !.at = IF batch.expired THEN "failed" ELSE "done"]
            \in [at : {"failed", "done"}, item : {0}]
      BY DEF NoWorker
    <3> QED  BY <1>1, <2>1, <3>1 DEF BatchInv, BatchType
  <2> QED  BY <1>1, <2>1, <2>2, <2>3 DEF BatchInv, BatchType
<1>3. CASE ~batch.expired /\ batch.next <= BatchSize
  <2>1. /\ crew' = [crew EXCEPT ![w] = [at |-> "reading", item |-> batch.next]]
        /\ batch' = [batch EXCEPT !.results = results, !.next = @ + 1]
        /\ begun' = [begun EXCEPT ![batch.next] = @ + 1]
    BY <1>1, <1>3 DEF TakeNext
  <2>2. /\ batch'.next = batch.next + 1 /\ batch'.phase = batch.phase /\ batch'.results = results
        /\ batch' \in [phase : Phases, next : 1 .. BatchSize + 1, results : SUBSET Inputs, expired : BOOLEAN]
    <3>1. batch.next + 1 \in 1 .. BatchSize + 1
      BY <1>1, <1>3
    <3>2. batch \in [phase : Phases, next : 1 .. BatchSize + 1, results : SUBSET Inputs, expired : BOOLEAN]
      BY DEF BatchInv, BatchType
    <3> DEFINE following == [batch EXCEPT !.results = results]
    <3>3. /\ following \in [phase : Phases, next : 1 .. BatchSize + 1, results : SUBSET Inputs,
                            expired : BOOLEAN]
          /\ following.next = batch.next /\ following.phase = batch.phase /\ following.results = results
      BY <3>2
    <3>4. batch' = [following EXCEPT !.next = batch.next + 1]
      BY <2>1, <3>2, <3>3
    <3> HIDE DEF following
    <3> QED  BY <3>1, <3>3, <3>4
  <2>3. /\ crew'[w] = [at |-> "reading", item |-> batch.next]
        /\ \A v \in Workers \ {w} : crew'[v] = crew[v]
        /\ crew' \in [Workers -> [at : {"none", "ready", "reading", "cancelling", "done", "failed"},
                                  item : 0 .. BatchSize]]
    BY <1>1, <1>3, <2>1 DEF BatchInv, BatchType
  <2>4. /\ begun' \in [Inputs -> {0, 1}] /\ begun'[batch.next] = 1
        /\ \A i \in Inputs \ {batch.next} : begun'[i] = begun[i]
    BY <1>1, <1>3, <2>1, BatchFits DEF BatchInv, BatchType
  <2>5. \A i \in Inputs : i < batch.next + 1 <=> (i < batch.next \/ i = batch.next)
    BY <1>1, BatchFits
  <2>6. \A v \in Workers : crew'[v].item < batch'.next /\ (crew'[v].at = "reading" => crew'[v].item # 0)
    BY <1>1, <2>2, <2>3 DEF BatchInv, BatchType
  <2>7. (\A i \in Inputs : begun'[i] = 1 <=> i < batch'.next) /\ \A i \in results : i < batch'.next
    BY <2>2, <2>4, <2>5 DEF BatchInv
  <2> QED  BY <1>1, <2>2, <2>3, <2>4, <2>6, <2>7 DEF BatchInv, BatchType
<1> QED  BY <1>1, <1>2, <1>3 DEF BatchInv, BatchType

\* The caller goes from one phase to another.
LEMMA PhaseKeeps ==
  ASSUME BatchInv, NEW phase \in Phases \ {"preparing", "returned"}, UNCHANGED begun,
         batch' = [batch EXCEPT !.phase = phase],
         crew' = crew \/ crew' = Cancelling(crew),
         phase = "creating" => crew' = crew /\ \A w \in Workers : crew[w] = NoWorker,
         phase = "raised" => crew' = crew /\ Busy = {}
  PROVE  BatchInv'
<1>1. /\ batch'.next = batch.next /\ batch'.phase = phase /\ batch'.results = batch.results
      /\ batch' \in [phase : Phases, next : 1 .. BatchSize + 1, results : SUBSET Inputs, expired : BOOLEAN]
  BY DEF BatchInv, BatchType
<1>2. /\ crew' \in [Workers -> [at : {"none", "ready", "reading", "cancelling", "done", "failed"},
                               item : 0 .. BatchSize]]
      /\ \A w \in Workers : crew'[w].item < batch.next /\ (crew'[w].at = "reading" => crew'[w].item # 0)
  BY CancellingKeeps DEF BatchInv, BatchType
<1> QED  BY <1>1, <1>2 DEF BatchInv, BatchType, Busy

LEMMA CreateWorkersStep ==
  ASSUME BatchInv, CreateWorkers
  PROVE  BatchInv'
<1>1. PICK created \in 0 .. Cardinality(Workers) :
        LET tasks == [w \in Workers |-> IF w <= created THEN [NoWorker EXCEPT !.at = "ready"] ELSE NoWorker]
            all == created = Cardinality(Workers)
        IN /\ crew' = IF all THEN tasks ELSE Cancelling(tasks)
           /\ batch' = [batch EXCEPT !.phase = IF all THEN "waiting" ELSE "draining"]
  BY DEF CreateWorkers
<1> DEFINE tasks == [w \in Workers |-> IF w <= created THEN [NoWorker EXCEPT !.at = "ready"] ELSE NoWorker]
<1>2. /\ crew' \in {tasks, Cancelling(tasks)} /\ begun' = begun
      /\ \/ batch' = [batch EXCEPT !.phase = "waiting"]
         \/ batch' = [batch EXCEPT !.phase = "draining"]
  BY <1>1 DEF CreateWorkers
<1>3. batch.next \in 1 .. BatchSize + 1
  BY DEF BatchInv, BatchType
<1>4. /\ tasks \in [Workers -> [at : {"none", "ready", "reading", "cancelling", "done", "failed"},
                               item : 0 .. BatchSize]]
      /\ \A w \in Workers : tasks[w].item < batch.next /\ tasks[w].at # "reading"
  <2>1. {NoWorker, [NoWorker EXCEPT !.at = "ready"]} \subseteq [at : {"none", "ready"}, item : {0}]
    BY DEF NoWorker
  <2>2. \A w \in Workers : tasks[w] \in [at : {"none", "ready"}, item : {0}]
    BY <2>1
  <2> HIDE DEF tasks
  <2>3. \A w \in Workers : tasks[w].item = 0 /\ tasks[w].at \in {"none", "ready"}
           /\ tasks[w] \in [at : {"none", "ready", "reading", "cancelling", "done", "failed"},
                            item : 0 .. BatchSize]
    BY <2>2, BatchFits
  <2>4. tasks = [w \in Workers |-> tasks[w]]
    BY DEF tasks
  <2> QED  BY <1>3, <2>3, <2>4
<1> HIDE DEF tasks
<1>5. /\ crew' \in [Workers -> [at : {"none", "ready", "reading", "cancelling", "done", "failed"},
                               item : 0 .. BatchSize]]
      /\ \A w \in Workers : crew'[w].item < batch.next /\ crew'[w].at # "reading"
  BY <1>2, <1>3, <1>4, CancellingKeeps
<1>6. /\ batch'.next = batch.next /\ batch'.phase \in {"waiting", "draining"}
      /\ batch'.results = batch.results
      /\ batch' \in [phase : Phases, next : 1 .. BatchSize + 1, results : SUBSET Inputs, expired : BOOLEAN]
  BY <1>2 DEF BatchInv, BatchType, Phases
<1> QED  BY <1>2, <1>5, <1>6 DEF BatchInv, BatchType

LEMMA BatchSteps == BatchInv /\ [BatchNext]_batchVars => BatchInv'
<1> SUFFICES ASSUME BatchInv, [BatchNext]_batchVars PROVE BatchInv'
  OBVIOUS
<1>1. CASE UNCHANGED batchVars
  BY <1>1 DEF batchVars, BatchInv, BatchType, Busy
<1>2. CASE Expire
  <2>1. batch' = [batch EXCEPT !.expired = TRUE] /\ UNCHANGED <<crew, begun>>
        /\ batch.phase \notin {"returned", "raised"}
    BY <1>2 DEF Expire
  <2>2. /\ batch'.next = batch.next /\ batch'.phase = batch.phase /\ batch'.results = batch.results
        /\ batch' \in [phase : Phases, next : 1 .. BatchSize + 1, results : SUBSET Inputs, expired : BOOLEAN]
    BY <2>1 DEF BatchInv, BatchType
  <2> QED  BY <2>1, <2>2 DEF BatchInv, BatchType
<1>3. CASE Prepare
  <2>1. PICK phase \in {"creating", "raised"} : batch' = [batch EXCEPT !.phase = phase]
    BY <1>3 DEF Prepare
  <2>2. /\ UNCHANGED <<crew, begun>> /\ \A w \in Workers : crew[w] = NoWorker
    BY <1>3 DEF Prepare, BatchInv
  <2>3. Busy = {}
    BY <2>2 DEF Busy, NoWorker, AtEnd
  <2> QED  BY <2>1, <2>2, <2>3, PhaseKeeps DEF Phases
<1>4. CASE GatherRaises \/ CallerCancelled
  BY <1>4, PhaseKeeps DEF GatherRaises, CallerCancelled, Phases
<1>5. CASE Drained
  BY <1>5, PhaseKeeps DEF Drained, Phases
<1>6. CASE GatherReturns
  <2>1. CASE batch.expired \/ batch.results # Inputs
    BY <1>6, <2>1, PhaseKeeps DEF GatherReturns, Phases
  <2>2. CASE ~batch.expired /\ batch.results = Inputs
    <3>1. batch' = [batch EXCEPT !.phase = "returned"] /\ UNCHANGED <<crew, begun>> /\ Busy = {}
      BY <1>6, <2>2 DEF GatherReturns
    <3>2. /\ batch'.next = batch.next /\ batch'.phase = "returned" /\ batch'.results = Inputs
          /\ batch'.expired = FALSE
          /\ batch' \in [phase : Phases, next : 1 .. BatchSize + 1, results : SUBSET Inputs, expired : BOOLEAN]
      BY <2>2, <3>1 DEF BatchInv, BatchType, Phases
    <3> QED  BY <2>2, <3>1, <3>2 DEF BatchInv, BatchType, Busy
  <2> QED  BY <2>1, <2>2
<1>7. ASSUME NEW w \in Workers, WorkerStarts(w) PROVE BatchInv'
  BY <1>7, TakeNextKeeps DEF WorkerStarts, AtEnd, BatchInv, BatchType
<1>8. ASSUME NEW w \in Workers, Resolved(w) \/ CancelLost(w) PROVE BatchInv'
  <2>1. /\ crew[w].item \in Inputs /\ crew[w].item < batch.next /\ crew[w].at \notin AtEnd
        /\ TakeNext(w, batch.results \cup {crew[w].item})
    BY <1>8, BatchFits DEF Resolved, CancelLost, BatchInv, BatchType, AtEnd
  <2>2. batch.results \cup {crew[w].item} \in SUBSET Inputs
        /\ \A i \in batch.results \cup {crew[w].item} : i < batch.next
    BY <2>1 DEF BatchInv, BatchType
  <2> QED  BY <2>1, <2>2, TakeNextKeeps
<1>9. ASSUME NEW w \in Workers, ResolveRaises(w) \/ CancelDelivered(w) PROVE BatchInv'
  <2>1. PICK at \in {"done", "failed"} : crew' = [crew EXCEPT ![w].at = at]
    BY <1>9 DEF ResolveRaises, CancelDelivered
  <2>2. UNCHANGED <<batch, begun>> /\ crew[w].at \notin AtEnd
    BY <1>9 DEF ResolveRaises, CancelDelivered, AtEnd
  <2>3. /\ crew' \in [Workers -> [at : {"none", "ready", "reading", "cancelling", "done", "failed"},
                                 item : 0 .. BatchSize]]
        /\ crew'[w].at = at /\ crew'[w].item = crew[w].item
        /\ \A v \in Workers \ {w} : crew'[v] = crew[v]
    BY <2>1 DEF BatchInv, BatchType
  <2>4. batch.phase \notin {"returned", "raised", "preparing", "creating"}
    BY <2>2 DEF BatchInv, Busy, NoWorker, AtEnd
  <2> QED  BY <2>2, <2>3, <2>4 DEF BatchInv, BatchType
<1> QED
  BY <1>1, <1>2, <1>3, <1>4, <1>5, <1>6, <1>7, <1>8, <1>9, CreateWorkersStep DEF BatchNext

LEMMA BatchBegins == Init => BatchInit
  BY DEF Init

LEMMA BatchGoes == [Next]_commandVars => [BatchNext]_batchVars
  BY DEF commandVars, Next, Capture, RunJobs, ResolveMarkets, SuperviseShard,
    ReadVenue, ReplayTape, UseRun, IngestMarkets, PollVenue, OpenCatalog,
    ObserveShard, EmitQuotes, StreamDatasets, ResolveBatch, PlanFeed, ReadSocket,
    batchVars

(***************************************************************************)
(* A label in the cache is what the venue paid out, and a batch that       *)
(* returns has an answer for every market it was given                     *)
(* (resolution/_batch.py).                                                 *)
(***************************************************************************)
THEOREM ResolutionsAreTrue == Spec => []ResolutionIsTrue
<1>1. Init => ResolutionInv /\ BatchInv
  BY ResolutionBegins, ResolutionStarts, BatchBegins, BatchStarts
<1>2. ResolutionInv /\ BatchInv /\ [Next]_commandVars => ResolutionInv' /\ BatchInv'
  BY ResolutionGoes, ResolutionSteps, BatchGoes, BatchSteps DEF ResolutionOK
<1>3. ResolutionInv /\ BatchInv => ResolutionIsTrue
  BY ResolutionTold, BatchTold DEF ResolutionIsTrue
<1> QED  BY <1>1, <1>2, <1>3, PTL DEF Spec

-----------------------------------------------------------------------------
(* The health of a supervised shard.                                        *)

Flags == {"stale_messages", "stale_books", "sequence_gap", "reconnect"}
BookShape ==
  [tracked : BOOLEAN, message : Ages, book : Ages, valid : BOOLEAN, integrity : BOOLEAN,
   initial : BOOLEAN, flags : SUBSET Flags]
ShardShape(counts) ==
  [connection : {"initialized", "connected", "disconnected", "stale", "reconnecting"}, connected : Ages, message : Ages, book : Ages, flags : SUBSET Flags,
   counts : counts, overdue : SUBSET Instruments, reports : Nat]
IsShard(s) == s \in ShardShape({s.counts})
SupervisorType ==
  /\ IsShard(shard)
  /\ books \in [Instruments -> BookShape]
  /\ due \in [{Shard} \cup Instruments -> [Kinds -> Nat]]
  /\ checked \in BOOLEAN

BookIsDue(s, b, d) ==
  b.valid =>
    /\ b.tracked /\ b.initial /\ "reconnect" \notin b.flags
    /\ b.message # Never /\ b.book # Never
    /\ d["message"] = Left(b.message, MaxAge) /\ d["book"] = Left(b.book, MaxAge)
SnapshotIsDue(s, b, d, i) ==
  ~b.initial /\ s.connected # Never =>
    d["initial"] = Left(s.connected, Sla) \/ (i \in s.overdue /\ Overdue(s.connected))

SupervisorInv ==
  /\ SupervisorType
  /\ \A i \in Instruments : BookIsDue(shard, books[i], due[i]) /\ SnapshotIsDue(shard, books[i], due[i], i)
  /\ NoStaleBookSurvives

LEMMA Limits == /\ MaxAge \in Nat /\ Sla \in Nat /\ MaxAge < Old /\ Sla < Old /\ Never = Old + 1
                /\ Old \in Nat
                /\ Ages = 0 .. Never /\ Shard \notin Instruments /\ Never \in Nat /\ Old \in Ages
                /\ Never \in Ages /\ 0 \in Ages
  BY SupervisorBounds, ShardIsNoBook DEF Old, Never, Ages, Shard

\* What is left until a limit.
LEMMA LeftIs ==
  ASSUME NEW age \in Ages, NEW limit \in {MaxAge, Sla}
  PROVE  /\ Left(age, limit) \in Nat /\ (Left(age, limit) = 0 <=> age > limit)
         /\ Left(age, limit) # Never
         /\ age # Never => Left(Elapsed(age), limit)
              = IF Left(age, limit) = 0 THEN 0 ELSE Left(age, limit) - 1
         /\ Elapsed(age) \in Ages /\ (Elapsed(age) = Never <=> age = Never)
         /\ Overdue(age) => Overdue(Elapsed(age))
  BY Limits DEF Left, Elapsed, Overdue

LEMMA DueIsFunction ==
  ASSUME NEW i \in Nat, NEW m \in Nat, NEW b \in Nat
  PROVE  [initial |-> i, message |-> m, book |-> b] \in [Kinds -> Nat]
<1> DEFINE d == [initial |-> i, message |-> m, book |-> b]
<1>1. d = [k \in Kinds |-> d[k]] /\ \A k \in Kinds : d[k] \in Nat
  BY DEF Kinds
<1> HIDE DEF d
<1>2. d \in [Kinds -> Nat]
  BY <1>1
<1> QED  BY <1>2 DEF d

\* The deadlines of one book.
LEMMA BookDueIs ==
  ASSUME NEW s, s.connected \in Ages, NEW b \in BookShape, NEW old \in [Kinds -> Nat]
  PROVE  /\ BookDue(s, b, old) \in [Kinds -> Nat]
         /\ ~b.initial => BookDue(s, b, old)["initial"]
                            = IF s.connected = Never THEN Never ELSE Left(s.connected, Sla)
         /\ b.initial /\ "reconnect" \notin b.flags /\ b.message # Never /\ b.book # Never
              => /\ BookDue(s, b, old)["message"] = Left(b.message, MaxAge)
                 /\ BookDue(s, b, old)["book"] = Left(b.book, MaxAge)
<1>1. b.message \in Ages /\ b.book \in Ages /\ Never \in Nat
  BY Limits DEF BookShape
<1>2. CASE ~b.initial
  <2>1. (IF s.connected = Never THEN Never ELSE Left(s.connected, Sla)) \in Nat
    BY LeftIs, <1>1
  <2>2. BookDue(s, b, old)
          = [old EXCEPT !.initial = IF s.connected = Never THEN Never ELSE Left(s.connected, Sla)]
    BY <1>2 DEF BookDue
  <2> QED  BY <1>2, <2>1, <2>2 DEF Kinds
<1>3. CASE b.initial
  <2> DEFINE m == SinceConnection(s, b, b.message)
             k == SinceConnection(s, b, b.book)
  <2>1. m \in Ages /\ k \in Ages
    BY <1>1 DEF SinceConnection, Latest
  <2>2. "reconnect" \notin b.flags /\ b.message # Never /\ b.book # Never => m = b.message /\ k = b.book
    BY DEF SinceConnection
  <2>3. BookDue(s, b, old)
          = [initial |-> Never, message |-> Left(m, MaxAge), book |-> Left(k, MaxAge)]
    BY <1>3 DEF BookDue
  <2> HIDE DEF m, k
  <2>4. Left(m, MaxAge) \in Nat /\ Left(k, MaxAge) \in Nat
    BY <2>1, LeftIs
  <2> QED  BY <1>1, <1>3, <2>2, <2>3, <2>4, DueIsFunction
<1> QED  BY <1>2, <1>3 DEF BookShape

\* A change of the shard and of some books.
LEMMA ChangedKeeps ==
  ASSUME SupervisorInv, NEW s, IsShard(s),
         NEW all \in [Instruments -> BookShape], NEW which \in SUBSET Instruments,
         Changed(s, all, which),
         \A i \in Instruments \ which :
           all[i] = books[i] /\ s.connected = shard.connected /\ s.overdue = shard.overdue,
         \A i \in which : all[i].valid =>
           /\ all[i].tracked /\ all[i].initial /\ "reconnect" \notin all[i].flags
           /\ all[i].message # Never /\ all[i].book # Never
  PROVE  SupervisorInv'
<1>1. /\ due' = Rescheduled(s, all, which) /\ books' = all /\ ~checked' /\ checked' \in BOOLEAN
      /\ shard' = [s EXCEPT !.overdue = @ \ Settled(s, all, which), !.reports = @ + 1]
  BY DEF Changed
<1>2. \A i \in which : s.connected = Never \/ all[i].initial <=> i \in Settled(s, all, which)
  BY DEF Settled
<1>3. Settled(s, all, which) \subseteq which
  BY DEF Settled
<1>4. /\ IsShard(shard') /\ shard'.connected = s.connected
      /\ shard'.overdue = s.overdue \ Settled(s, all, which)
  <2> DEFINE t == [s EXCEPT !.overdue = @ \ Settled(s, all, which)]
  <2>1. /\ t \in ShardShape({s.counts}) /\ t.connected = s.connected
        /\ t.overdue = s.overdue \ Settled(s, all, which) /\ t.reports = s.reports
    BY <1>3 DEF IsShard, ShardShape
  <2>2. shard' = [t EXCEPT !.reports = s.reports + 1] /\ s.reports + 1 \in Nat
    BY <1>1 DEF IsShard, ShardShape
  <2> HIDE DEF t
  <2> QED  BY <2>1, <2>2 DEF IsShard, ShardShape
<1>5. /\ due' \in [{Shard} \cup Instruments -> [Kinds -> Nat]]
      /\ \A i \in Instruments : due'[i] = IF i \in which THEN BookDue(s, all[i], due[i]) ELSE due[i]
  <2>1. \A i \in which : BookDue(s, all[i], due[i]) \in [Kinds -> Nat]
    BY BookDueIs DEF SupervisorInv, SupervisorType, IsShard, ShardShape
  <2>2. ShardDue(s) \in [Kinds -> Nat]
    <3>1. s.message \in Ages /\ s.book \in Ages /\ s.connected \in Ages /\ Never \in Nat
      BY Limits DEF IsShard, ShardShape
    <3>2. Left(s.message, MaxAge) \in Nat /\ Left(IF s.book = Never THEN s.connected ELSE s.book, MaxAge) \in Nat
      BY <3>1, LeftIs
    <3>3. ShardDue(s) = [initial |-> Never, message |-> Left(s.message, MaxAge),
                         book |-> Left(IF s.book = Never THEN s.connected ELSE s.book, MaxAge)]
      BY DEF ShardDue
    <3> QED  BY <3>1, <3>2, <3>3, DueIsFunction
  <2>3. DOMAIN due = {Shard} \cup Instruments /\ \A k \in DOMAIN due : due[k] \in [Kinds -> Nat]
    BY DEF SupervisorInv, SupervisorType
  <2>4. \A k \in DOMAIN due :
          /\ k = Shard => due'[k] = ShardDue(s)
          /\ k # Shard /\ k \in which => due'[k] = BookDue(s, all[k], due[k])
          /\ k # Shard /\ k \notin which => due'[k] = due[k]
    BY <1>1, Limits DEF Rescheduled
  <2>5. due' = [k \in {Shard} \cup Instruments |-> due'[k]]
    BY <1>1, <2>3 DEF Rescheduled
  <2>6. \A k \in {Shard} \cup Instruments : due'[k] \in [Kinds -> Nat]
    BY <2>1, <2>2, <2>3, <2>4
  <2>7. due' \in [{Shard} \cup Instruments -> [Kinds -> Nat]]
    BY <2>5, <2>6
  <2> QED  BY <2>3, <2>4, <2>7, Limits
<1>6. ASSUME NEW i \in Instruments
      PROVE  BookIsDue(shard, books[i], due[i])' /\ SnapshotIsDue(shard, books[i], due[i], i)'
  <2>1. CASE i \in which
    <3> DEFINE d == BookDue(s, all[i], due[i])
    <3>1. due'[i] = d /\ books'[i] = all[i]
      BY <1>1, <1>5, <2>1
    <3>2. s.connected \in Ages /\ all[i] \in BookShape /\ due[i] \in [Kinds -> Nat]
      BY DEF IsShard, ShardShape, SupervisorInv, SupervisorType
    <3>3. /\ ~all[i].initial => d["initial"] = IF s.connected = Never THEN Never ELSE Left(s.connected, Sla)
          /\ all[i].initial /\ "reconnect" \notin all[i].flags /\ all[i].message # Never /\ all[i].book # Never
              => d["message"] = Left(all[i].message, MaxAge) /\ d["book"] = Left(all[i].book, MaxAge)
      BY <3>2, BookDueIs
    <3> HIDE DEF d
    <3>4. BookIsDue(shard', books'[i], due'[i])
      BY <2>1, <3>1, <3>3 DEF BookIsDue
    <3>5. SnapshotIsDue(shard', books'[i], due'[i], i)
      BY <1>4, <3>1, <3>3 DEF SnapshotIsDue
    <3> QED  BY <3>4, <3>5
  <2>2. CASE i \notin which
    <3>1. /\ books'[i] = books[i] /\ due'[i] = due[i] /\ shard'.connected = shard.connected
          /\ (i \in shard'.overdue <=> i \in shard.overdue)
      BY <1>1, <1>3, <1>4, <1>5, <2>2
    <3>2. BookIsDue(shard, books[i], due[i]) /\ SnapshotIsDue(shard, books[i], due[i], i)
      BY DEF SupervisorInv
    <3> QED  BY <3>1, <3>2 DEF BookIsDue, SnapshotIsDue
  <2> QED  BY <2>1, <2>2
<1>7. NoStaleBookSurvives'
  BY <1>1 DEF NoStaleBookSurvives
<1>8. SupervisorType'
  BY <1>1, <1>4, <1>5 DEF SupervisorType
<1> QED  BY <1>6, <1>7, <1>8 DEF SupervisorInv

\* A message: the shard and one book.
LEMMA HeardIs ==
  ASSUME NEW b \in BookShape
  PROVE  /\ HeardBook(b) \in BookShape /\ HeardBook(b).tracked /\ HeardBook(b).message = 0
         /\ HeardBook(b).valid = b.valid /\ HeardBook(b).initial = b.initial /\ HeardBook(b).book = b.book
         /\ HeardBook(b).integrity = b.integrity /\ HeardBook(b).flags = b.flags \ {"stale_messages"}
<1> DEFINE t == [b EXCEPT !.tracked = TRUE, !.message = 0]
<1>1. /\ t \in BookShape /\ t.tracked /\ t.message = 0 /\ t.valid = b.valid /\ t.initial = b.initial
      /\ t.book = b.book /\ t.integrity = b.integrity /\ t.flags = b.flags
  BY Limits DEF BookShape
<1>2. HeardBook(b) = [t EXCEPT !.flags = b.flags \ {"stale_messages"}]
  BY DEF HeardBook, BookShape
<1> HIDE DEF t
<1> QED  BY <1>1, <1>2 DEF BookShape

LEMMA CountedIs ==
  ASSUME NEW s, IsShard(s), NEW i, NEW b
  PROVE  /\ IsShard(Counted(s, i, b)) /\ Counted(s, i, b).connected = s.connected
         /\ Counted(s, i, b).overdue = s.overdue /\ Counted(s, i, b).flags = s.flags
<1> DEFINE adjusted == Adjusted(s.counts, books[i], b)
<1>1. Counted(s, i, b) = [s EXCEPT !.counts = adjusted]
  BY DEF Counted, IsShard, ShardShape
<1> HIDE DEF adjusted
<1> QED  BY <1>1 DEF IsShard, ShardShape

LEMMA HeardShardIs ==
  ASSUME NEW s, IsShard(s)
  PROVE  /\ IsShard(Heard(s)) /\ Heard(s).connected = s.connected /\ Heard(s).overdue = s.overdue
<1> DEFINE t == [s EXCEPT !.message = 0]
           u == [t EXCEPT !.flags = s.flags \ {"stale_messages"}]
           c == IF s.connection \in {"initialized", "stale", "reconnecting"} THEN "connected" ELSE s.connection
<1>1. IsShard(t) /\ t.connected = s.connected /\ t.overdue = s.overdue
  BY Limits DEF IsShard, ShardShape
<1>2. IsShard(u) /\ u.connected = s.connected /\ u.overdue = s.overdue
  <2> HIDE DEF t
  <2>1. s.flags \ {"stale_messages"} \in SUBSET Flags
    BY DEF IsShard, ShardShape
  <2> QED  BY <1>1, <2>1 DEF IsShard, ShardShape
<1>3. c \in {"initialized", "connected", "disconnected", "stale", "reconnecting"}
  BY DEF IsShard, ShardShape
<1>4. Heard(s) = [u EXCEPT !.connection = c]
  BY DEF Heard, IsShard, ShardShape
<1> HIDE DEF u, c
<1> QED  BY <1>2, <1>3, <1>4 DEF IsShard, ShardShape

LEMMA BooksAreTyped ==
  ASSUME SupervisorInv
  PROVE  /\ IsShard(shard)
         /\ \A i \in Instruments :
              /\ books[i] \in BookShape
              /\ books[i].valid =>
                   /\ books[i].tracked /\ books[i].initial /\ "reconnect" \notin books[i].flags
                   /\ books[i].message # Never /\ books[i].book # Never
BY DEF SupervisorInv, SupervisorType, BookIsDue

\* One book is changed, and its deadlines with those of `which'.
LEMMA OneChanges ==
  ASSUME SupervisorInv, NEW i \in Instruments, NEW b \in BookShape, NEW s,
         IsShard(s), s.connected = shard.connected, s.overdue = shard.overdue,
         NEW which \in {{i}, Instruments}, Changed(s, With(i, b), which),
         b.valid => /\ b.tracked /\ b.initial /\ "reconnect" \notin b.flags
                    /\ b.message # Never /\ b.book # Never
  PROVE  SupervisorInv'
<1>1. /\ With(i, b) \in [Instruments -> BookShape] /\ With(i, b)[i] = b
      /\ \A j \in Instruments \ {i} : With(i, b)[j] = books[j]
  BY DEF With, SupervisorInv, SupervisorType
<1>2. \A j \in which : With(i, b)[j].valid =>
        /\ With(i, b)[j].tracked /\ With(i, b)[j].initial /\ "reconnect" \notin With(i, b)[j].flags
        /\ With(i, b)[j].message # Never /\ With(i, b)[j].book # Never
  BY <1>1, BooksAreTyped
<1>3. /\ which \in SUBSET Instruments
      /\ \A j \in Instruments \ which : With(i, b)[j] = books[j]
  BY <1>1
<1> QED  BY <1>1, <1>2, <1>3, ChangedKeeps

LEMMA MarkConnectedStep == ASSUME SupervisorInv, MarkConnected PROVE SupervisorInv'
<1> DEFINE t == [shard EXCEPT !.connection = "connected", !.connected = 0, !.message = 0]
           s == [t EXCEPT !.flags = shard.flags \ {"stale_messages", "stale_books"}]
<1>1. IsShard(t) /\ t.flags = shard.flags
  BY BooksAreTyped, Limits DEF IsShard, ShardShape
<1>2. IsShard(s)
  <2> HIDE DEF t
  <2> QED  BY BooksAreTyped, <1>1 DEF IsShard, ShardShape
<1>3. Changed(s, books, Instruments)
  <2>1. s = [shard EXCEPT !.connection = "connected", !.connected = 0, !.message = 0,
               !.flags = @ \ {"stale_messages", "stale_books"}]
    BY BooksAreTyped DEF IsShard, ShardShape
  <2> HIDE DEF s
  <2> QED  BY <2>1 DEF MarkConnected
<1> HIDE DEF s
<1>4. books \in [Instruments -> BookShape]
  BY DEF SupervisorInv, SupervisorType
<1> QED  BY <1>2, <1>3, <1>4, BooksAreTyped, ChangedKeeps

\* The connection is told of, and nothing else.
LEMMA ConnectionStep ==
  ASSUME SupervisorInv, MarkDisconnected \/ MarkTransportAlive PROVE SupervisorInv'
<1>1. PICK c \in {"connected", "disconnected"} :
        shard' = [shard EXCEPT !.connection = c] /\ checked' = FALSE /\ UNCHANGED <<books, due>>
  BY DEF MarkDisconnected, MarkTransportAlive
<1>2. /\ IsShard(shard') /\ shard'.connected = shard.connected
      /\ shard'.overdue = shard.overdue
  BY <1>1, BooksAreTyped DEF IsShard, ShardShape
<1>3. SupervisorType' /\ NoStaleBookSurvives'
  BY <1>1, <1>2 DEF SupervisorInv, SupervisorType, NoStaleBookSurvives
<1> QED  BY <1>1, <1>2, <1>3 DEF SupervisorInv, BookIsDue, SnapshotIsDue

LEMMA MarkReconnectStep == ASSUME SupervisorInv, MarkReconnect PROVE SupervisorInv'
<1> DEFINE started == [NoBook EXCEPT !.tracked = TRUE, !.flags = {"reconnect"}]
           all == [i \in Instruments |-> IF ~books[i].tracked THEN books[i] ELSE started]
           counts == Recount(all)
           s == [shard EXCEPT !.connection = "reconnecting", !.connected = Never, !.message = 0,
                   !.book = Never, !.flags = {"reconnect"}, !.counts = counts]
<1>1. Changed(s, all, Instruments)
  BY ONLY MarkReconnect, Zenon DEF MarkReconnect
<1>2. started \in BookShape /\ ~started.valid
  BY Limits DEF NoBook, BookShape, Flags
<1> HIDE DEF started
<1>3. /\ all \in [Instruments -> BookShape]
      /\ \A i \in Instruments : ~all[i].valid
  BY <1>2, BooksAreTyped
<1> HIDE DEF all, counts
<1>4. IsShard(s)
  <2>1. {"reconnect"} \in SUBSET Flags
    BY DEF Flags
  <2> DEFINE flags == {"reconnect"}
             t == [shard EXCEPT !.connection = "reconnecting", !.connected = Never, !.message = 0]
  <2>2. IsShard(t)
    BY BooksAreTyped, Limits DEF IsShard, ShardShape
  <2>3. s = [t EXCEPT !.book = Never, !.flags = flags, !.counts = counts]
    BY BooksAreTyped DEF IsShard, ShardShape
  <2> HIDE DEF s, t, flags
  <2> QED  BY <2>1, <2>2, <2>3, Limits DEF IsShard, ShardShape, flags
<1> HIDE DEF s
<1> QED  BY <1>1, <1>3, <1>4, ChangedKeeps

LEMMA RecordMessageStep ==
  ASSUME SupervisorInv, NEW i \in Instruments, RecordMessage(i) PROVE SupervisorInv'
<1> DEFINE b == HeardBook(books[i])
           s == Counted(Heard(shard), i, b)
<1>1. Changed(s, With(i, b), {i})
  BY DEF RecordMessage
<1>2. /\ b \in BookShape
      /\ b.valid => /\ b.tracked /\ b.initial /\ "reconnect" \notin b.flags
                    /\ b.message # Never /\ b.book # Never
  BY BooksAreTyped, HeardIs, Limits
<1> HIDE DEF b
<1>3. IsShard(s) /\ s.connected = shard.connected /\ s.overdue = shard.overdue
  BY BooksAreTyped, HeardShardIs, CountedIs
<1> HIDE DEF s
<1> QED  BY <1>1, <1>2, <1>3, OneChanges

\* A change of the book and of the flags of the shard.
LEMMA FlagsOf ==
  ASSUME NEW s, IsShard(s), NEW age \in Ages, NEW flags \in SUBSET Flags
  PROVE  LET u == [s EXCEPT !.book = age, !.flags = flags] IN
         IsShard(u) /\ u.connected = s.connected /\ u.overdue = s.overdue
BY DEF IsShard, ShardShape

LEMMA RecordBookStep ==
  ASSUME SupervisorInv, NEW i \in Instruments, NEW report \in Reports, RecordBook(i, report)
  PROVE  SupervisorInv'
<1> DEFINE b == Reported(books[i], report)
           h == HeardBook(books[i])
           s == Counted(Heard(shard), i, b)
           whole == report \in {"valid", "unusable"}
           valid == report = "valid"
           age == IF valid THEN 0 ELSE s.book
           flags == s.flags \ ((IF valid THEN {"stale_books"} ELSE {})
                     \cup (IF valid /\ s.counts["gap"] = 0 THEN {"sequence_gap"} ELSE {})
                     \cup (IF s.counts["blocking"] = 0 THEN {"reconnect"} ELSE {}))
           u == [s EXCEPT !.book = age, !.flags = flags]
<1>1. /\ h \in BookShape /\ h.tracked /\ h.message = 0 /\ h.initial = books[i].initial
      /\ books[i] \in BookShape
  BY BooksAreTyped, HeardIs
<1>2. /\ b \in BookShape
      /\ b.valid => /\ b.tracked /\ b.initial /\ "reconnect" \notin b.flags
                    /\ b.message # Never /\ b.book # Never
  <2> DEFINE stamped == IF valid THEN 0 ELSE h.book
             left == h.flags \ ((IF valid THEN {"stale_books"} ELSE {})
                                \cup IF whole THEN {"sequence_gap", "reconnect"} ELSE {})
  <2>1. b = [h EXCEPT !.valid = valid, !.integrity = whole, !.initial = (report # "absent"),
               !.book = stamped, !.flags = left]
    BY <1>1 DEF Reported, BookShape
  <2>2. stamped \in Ages /\ left \in SUBSET Flags
    BY <1>1, Limits DEF BookShape
  <2>3. valid => stamped = 0 /\ "reconnect" \notin left /\ report # "absent"
    OBVIOUS
  <2>4. valid \in BOOLEAN /\ whole \in BOOLEAN /\ (report # "absent") \in BOOLEAN
    OBVIOUS
  <2> HIDE DEF b, h, stamped, left, valid, whole
  <2>5. b \in BookShape /\ b.tracked /\ b.message = 0 /\ b.flags = left /\ b.book = stamped
    BY <1>1, <2>1, <2>2, <2>4 DEF BookShape
  <2>6. (b.valid <=> valid) /\ (b.initial <=> report # "absent")
    BY <1>1, <2>1, <2>2, <2>4 DEF BookShape
  <2> QED  BY <2>3, <2>5, <2>6, Limits
<1> HIDE DEF b, h
<1>3. IsShard(s) /\ s.connected = shard.connected /\ s.overdue = shard.overdue
  BY BooksAreTyped, HeardShardIs, CountedIs
<1>5. Changed(u, With(i, b), {i})
  <2>1. u = [s EXCEPT !.book = IF valid THEN 0 ELSE @,
               !.flags = @ \ ((IF valid THEN {"stale_books"} ELSE {})
                   \cup (IF valid /\ s.counts["gap"] = 0 THEN {"sequence_gap"} ELSE {})
                   \cup (IF s.counts["blocking"] = 0 THEN {"reconnect"} ELSE {}))]
    <3> HIDE DEF s
    <3> QED  BY <1>3 DEF IsShard, ShardShape
  <2> HIDE DEF u
  <2> QED  BY <2>1 DEF RecordBook, b
<1>6. age \in Ages /\ flags \in SUBSET Flags
  <2> HIDE DEF s
  <2> QED  BY <1>3, Limits DEF IsShard, ShardShape
<1> HIDE DEF s, age, flags
<1>7. IsShard(u) /\ u.connected = s.connected /\ u.overdue = s.overdue
  BY <1>3, <1>6, FlagsOf
<1> HIDE DEF u
<1> QED  BY <1>2, <1>3, <1>5, <1>7, OneChanges

LEMMA RecordSequenceGapStep ==
  ASSUME SupervisorInv, NEW i \in Instruments, RecordSequenceGap(i) PROVE SupervisorInv'
<1> DEFINE flags == books[i].flags \cup {"sequence_gap"}
           b == [books[i] EXCEPT !.tracked = TRUE, !.valid = FALSE, !.integrity = FALSE, !.flags = flags]
           c == Counted(shard, i, b)
           f == c.flags \cup {"sequence_gap"}
           s == [c EXCEPT !.flags = f]
<1>1. b \in BookShape /\ ~b.valid
  <2>1. flags \in SUBSET Flags
    BY BooksAreTyped DEF BookShape, Flags
  <2> HIDE DEF flags
  <2> QED  BY <2>1, BooksAreTyped DEF BookShape
<1>2. b = [books[i] EXCEPT !.tracked = TRUE, !.valid = FALSE, !.integrity = FALSE,
             !.flags = @ \cup {"sequence_gap"}]
  BY BooksAreTyped DEF BookShape
<1> HIDE DEF b
<1>3. IsShard(c) /\ c.connected = shard.connected /\ c.overdue = shard.overdue
  BY BooksAreTyped, CountedIs
<1> HIDE DEF c
<1>4. IsShard(s) /\ s.connected = shard.connected /\ s.overdue = shard.overdue
  <2>1. f \in SUBSET Flags
    BY <1>3 DEF IsShard, ShardShape, Flags
  <2> HIDE DEF f
  <2> QED  BY <1>3, <2>1 DEF IsShard, ShardShape
<1>5. s = [c EXCEPT !.flags = @ \cup {"sequence_gap"}]
  BY <1>3 DEF IsShard, ShardShape
<1> HIDE DEF s
<1>6. Changed(s, With(i, b), Instruments)
  BY <1>2, <1>5 DEF RecordSequenceGap, c
<1> QED  BY <1>1, <1>4, <1>6, OneChanges

LEMMA RecordResyncStep ==
  ASSUME SupervisorInv, NEW i \in Instruments, RecordResync(i) PROVE SupervisorInv'
<1> DEFINE flags == books[i].flags \ {"sequence_gap"}
           b == [books[i] EXCEPT !.tracked = TRUE, !.message = 0, !.flags = flags]
           t == [shard EXCEPT !.message = 0]
           c == Counted(t, i, b)
           f == IF c.counts["gap"] = 0 THEN c.flags \ {"sequence_gap"} ELSE c.flags
           s == [c EXCEPT !.flags = f]
<1>1. /\ b \in BookShape
      /\ b.valid => /\ b.tracked /\ b.initial /\ "reconnect" \notin b.flags
                    /\ b.message # Never /\ b.book # Never
  <2>1. flags \in SUBSET Flags /\ flags \subseteq books[i].flags
    BY BooksAreTyped DEF BookShape, Flags
  <2> HIDE DEF flags
  <2>2. /\ b \in BookShape /\ b.tracked /\ b.message = 0 /\ b.valid = books[i].valid
        /\ b.initial = books[i].initial /\ b.book = books[i].book /\ b.flags = flags
    BY <2>1, BooksAreTyped, Limits DEF BookShape
  <2> HIDE DEF b
  <2> QED  BY <2>1, <2>2, BooksAreTyped, Limits
<1>2. b = [books[i] EXCEPT !.tracked = TRUE, !.message = 0, !.flags = @ \ {"sequence_gap"}]
  BY BooksAreTyped DEF BookShape
<1> HIDE DEF b
<1>3. IsShard(t) /\ t.connected = shard.connected /\ t.overdue = shard.overdue
  BY BooksAreTyped, Limits DEF IsShard, ShardShape
<1> HIDE DEF t
<1>4. IsShard(c) /\ c.connected = shard.connected /\ c.overdue = shard.overdue
  BY <1>3, CountedIs
<1> HIDE DEF c
<1>5. IsShard(s) /\ s.connected = shard.connected /\ s.overdue = shard.overdue
  <2>1. f \in SUBSET Flags
    BY <1>4 DEF IsShard, ShardShape, Flags
  <2> HIDE DEF f
  <2> QED  BY <1>4, <2>1 DEF IsShard, ShardShape
<1>6. s = [c EXCEPT !.flags = IF c.counts["gap"] = 0 THEN @ \ {"sequence_gap"} ELSE @]
  BY <1>4 DEF IsShard, ShardShape
<1> HIDE DEF s
<1>7. Changed(s, With(i, b), {i})
  BY <1>2, <1>6 DEF RecordResync, c, t
<1> QED  BY <1>1, <1>5, <1>7, OneChanges

\* What a check leaves of a book that it looks at.
LEMMA InvalidatedIs ==
  ASSUME NEW b \in BookShape
  PROVE  /\ Invalidated(b) \in BookShape
         /\ Invalidated(b).valid => b.valid /\ ~Stale(b.message) /\ ~Stale(b.book)
                                      /\ Invalidated(b).flags = b.flags
         /\ Invalidated(b).message = b.message /\ Invalidated(b).book = b.book
         /\ Invalidated(b).tracked = b.tracked /\ Invalidated(b).initial = b.initial
<1> DEFINE found == (IF Stale(b.message) THEN {"stale_messages"} ELSE {})
                      \cup (IF Stale(b.book) THEN {"stale_books"} ELSE {})
           flags == b.flags \cup found
           valid == b.valid /\ found = {}
<1>1. flags \in SUBSET Flags /\ valid \in BOOLEAN
  BY DEF BookShape, Flags
<1>2. found = {} => ~Stale(b.message) /\ ~Stale(b.book) /\ flags = b.flags
  OBVIOUS
<1>3. Invalidated(b) = [b EXCEPT !.valid = valid, !.flags = flags]
  BY DEF Invalidated, BookShape
<1> HIDE DEF flags, found
<1>4. (valid => b.valid /\ found = {}) /\ valid \in BOOLEAN
  BY <1>1
<1> HIDE DEF valid
<1>5. /\ Invalidated(b) \in BookShape /\ Invalidated(b).flags = flags
      /\ Invalidated(b).message = b.message /\ Invalidated(b).book = b.book
      /\ Invalidated(b).tracked = b.tracked /\ Invalidated(b).initial = b.initial
  BY <1>1, <1>3 DEF BookShape
<1>6. Invalidated(b).valid = valid
  BY <1>3 DEF BookShape
<1> QED  BY <1>2, <1>4, <1>5, <1>6

LEMMA InvalidatedShardIs ==
  ASSUME NEW s, IsShard(s)
  PROVE  IsShard(InvalidatedShard(s)) /\ InvalidatedShard(s).connected = s.connected
           /\ InvalidatedShard(s).overdue = s.overdue
<1> DEFINE age == IF s.book = Never THEN s.connected ELSE s.book
           c == IF Stale(s.message) THEN "stale" ELSE s.connection
           flags == s.flags \cup (IF Stale(s.message) THEN {"stale_messages"} ELSE {})
                      \cup (IF Stale(age) THEN {"stale_books"} ELSE {})
<1>1. /\ c \in {"initialized", "connected", "disconnected", "stale", "reconnecting"}
      /\ flags \in SUBSET Flags
  BY DEF IsShard, ShardShape, Flags
<1>2. InvalidatedShard(s) = [s EXCEPT !.connection = c, !.flags = flags]
  BY DEF InvalidatedShard, IsShard, ShardShape
<1> HIDE DEF c, flags
<1> QED  BY <1>1, <1>2 DEF IsShard, ShardShape

LEMMA InvalidateStaleStep == ASSUME SupervisorInv, InvalidateStale PROVE SupervisorInv'
<1> DEFINE hit == {i \in Instruments : Fired(i) \cap {"message", "book"} # {}}
           all == [i \in Instruments |->
                     IF i \in hit /\ books[i].tracked THEN Invalidated(books[i]) ELSE books[i]]
           late == {i \in Instruments : "initial" \in Fired(i) /\ ~books[i].initial
                                          /\ shard.connected # Never}
           s == IF Fired(Shard) # {} THEN InvalidatedShard(shard) ELSE shard
<1>1. PICK counts : shard' = [s EXCEPT !.counts = counts, !.overdue = @ \cup late]
  BY DEF InvalidateStale
<1>2. /\ books' = all /\ checked' = TRUE
      /\ due' = [k \in DOMAIN due |-> [kind \in Kinds |->
                   IF kind \in Fired(k) THEN Never ELSE due[k][kind]]]
  BY DEF InvalidateStale
<1>3. IsShard(s) /\ s.connected = shard.connected /\ s.overdue = shard.overdue
  BY BooksAreTyped, InvalidatedShardIs
<1> HIDE DEF s
<1>4. IsShard(shard') /\ shard'.connected = shard.connected /\ shard'.overdue = shard.overdue \cup late
  <2> DEFINE overdue == s.overdue \cup late
  <2>1. overdue \in SUBSET Instruments
    BY <1>3 DEF IsShard, ShardShape
  <2>2. shard' = [s EXCEPT !.counts = counts, !.overdue = overdue]
    <3> HIDE DEF late
    <3> QED  BY <1>1, <1>3 DEF IsShard, ShardShape
  <2>3. overdue = shard.overdue \cup late
    BY <1>3
  <2> HIDE DEF overdue, late
  <2> QED  BY <1>3, <2>1, <2>2, <2>3 DEF IsShard, ShardShape
<1>5. /\ due' \in [{Shard} \cup Instruments -> [Kinds -> Nat]]
      /\ \A i \in Instruments, kind \in Kinds :
           due'[i][kind] = IF due[i][kind] = 0 THEN Never ELSE due[i][kind]
  BY <1>2, Limits DEF Fired, SupervisorInv, SupervisorType
<1>6. /\ all \in [Instruments -> BookShape]
      /\ \A i \in Instruments :
           /\ all[i].message = books[i].message /\ all[i].book = books[i].book
           /\ all[i].tracked = books[i].tracked /\ all[i].initial = books[i].initial
           /\ all[i].valid => books[i].valid /\ all[i].flags = books[i].flags
           /\ all[i].valid /\ i \in hit => ~Stale(books[i].message) /\ ~Stale(books[i].book)
  <2> HIDE DEF hit
  <2> QED  BY BooksAreTyped, InvalidatedIs
<1>7. ASSUME NEW i \in Instruments
      PROVE  /\ BookIsDue(shard, books[i], due[i])' /\ SnapshotIsDue(shard, books[i], due[i], i)'
             /\ all[i].valid => ~Stale(all[i].message) /\ ~Stale(all[i].book)
             /\ ~all[i].initial /\ Overdue(shard'.connected) => i \in shard'.overdue
  <2>1. /\ BookIsDue(shard, books[i], due[i]) /\ SnapshotIsDue(shard, books[i], due[i], i)
        /\ books[i] \in BookShape /\ shard.connected \in Ages
        /\ books[i].message \in Ages /\ books[i].book \in Ages
    BY BooksAreTyped DEF SupervisorInv, IsShard, ShardShape, BookShape
  <2>2. /\ i \in hit <=> due[i]["message"] = 0 \/ due[i]["book"] = 0
        /\ i \in late <=> due[i]["initial"] = 0 /\ ~books[i].initial /\ shard.connected # Never
    BY DEF Fired, Kinds
  <2>3. /\ due'[i]["message"] = IF due[i]["message"] = 0 THEN Never ELSE due[i]["message"]
        /\ due'[i]["book"] = IF due[i]["book"] = 0 THEN Never ELSE due[i]["book"]
        /\ due'[i]["initial"] = IF due[i]["initial"] = 0 THEN Never ELSE due[i]["initial"]
    BY <1>5 DEF Kinds
  <2>4. /\ Left(books[i].message, MaxAge) = 0 <=> Stale(books[i].message)
        /\ Left(books[i].book, MaxAge) = 0 <=> Stale(books[i].book)
        /\ shard.connected # Never => (Left(shard.connected, Sla) = 0 <=> Overdue(shard.connected))
    <3>1. /\ Left(books[i].message, MaxAge) = 0 <=> books[i].message > MaxAge
          /\ Left(books[i].book, MaxAge) = 0 <=> books[i].book > MaxAge
          /\ Left(shard.connected, Sla) = 0 <=> shard.connected > Sla
      BY <2>1, LeftIs
    <3>2. shard.connected \in Ages /\ shard.connected # Never => (shard.connected > Sla <=> Overdue(shard.connected))
      BY Limits DEF Overdue
    <3> QED  BY <2>1, <3>1, <3>2 DEF Stale
  <2> HIDE DEF hit, late, all
  <2>5. all[i].valid => ~Stale(all[i].message) /\ ~Stale(all[i].book)
    BY <1>6, <2>1, <2>2, <2>4 DEF BookIsDue
  <2>6. BookIsDue(shard', books'[i], due'[i])
    BY <1>2, <1>6, <2>1, <2>3, <2>4, <2>5 DEF BookIsDue
  <2>7. SnapshotIsDue(shard', books'[i], due'[i], i)
    BY <1>2, <1>4, <1>6, <2>1, <2>2, <2>3, <2>4 DEF SnapshotIsDue
  <2>8. ~all[i].initial /\ Overdue(shard'.connected) => i \in shard'.overdue
    BY <1>4, <1>6, <2>1, <2>2, <2>4, Limits DEF SnapshotIsDue, Overdue
  <2> QED  BY <2>5, <2>6, <2>7, <2>8
<1> HIDE DEF all
<1>8. SupervisorType'
  BY <1>2, <1>4, <1>5, <1>6 DEF SupervisorType
<1>9. NoStaleBookSurvives'
  BY <1>2, <1>7 DEF NoStaleBookSurvives
<1> QED  BY <1>7, <1>8, <1>9 DEF SupervisorInv

LEMMA TickStep == ASSUME SupervisorInv, Tick PROVE SupervisorInv'
<1>1. /\ IsShard(shard') /\ shard'.connected = Elapsed(shard.connected) /\ shard'.overdue = shard.overdue
  <2> DEFINE c == Elapsed(shard.connected)
             m == Elapsed(shard.message)
             k == Elapsed(shard.book)
  <2>1. c \in Ages /\ m \in Ages /\ k \in Ages
    BY BooksAreTyped, LeftIs DEF IsShard, ShardShape
  <2>2. shard' = [shard EXCEPT !.connected = c, !.message = m, !.book = k]
    BY BooksAreTyped DEF Tick, IsShard, ShardShape
  <2> HIDE DEF c, m, k
  <2>3. IsShard(shard') /\ shard'.connected = c /\ shard'.overdue = shard.overdue
    BY <2>1, <2>2, BooksAreTyped DEF IsShard, ShardShape
  <2> QED  BY <2>3 DEF c
<1>2. /\ books' \in [Instruments -> BookShape]
      /\ \A i \in Instruments :
           /\ books'[i].message = Elapsed(books[i].message) /\ books'[i].book = Elapsed(books[i].book)
           /\ books'[i].tracked = books[i].tracked /\ books'[i].initial = books[i].initial
           /\ books'[i].valid = books[i].valid /\ books'[i].flags = books[i].flags
  <2> DEFINE Aged(b) == [b EXCEPT !.message = Elapsed(@), !.book = Elapsed(@)]
  <2>1. ASSUME NEW b \in BookShape
        PROVE  /\ Aged(b) \in BookShape /\ Aged(b).message = Elapsed(b.message)
               /\ Aged(b).book = Elapsed(b.book)
               /\ Aged(b).tracked = b.tracked /\ Aged(b).initial = b.initial
               /\ Aged(b).valid = b.valid /\ Aged(b).flags = b.flags
    <3> DEFINE m == Elapsed(b.message)
               k == Elapsed(b.book)
               a == [b EXCEPT !.message = m, !.book = k]
    <3>1. m \in Ages /\ k \in Ages
      BY LeftIs DEF BookShape
    <3>2. a = Aged(b)
      BY DEF BookShape
    <3> HIDE DEF m, k, Aged
    <3>3. /\ a \in BookShape /\ a.message = m /\ a.book = k /\ a.tracked = b.tracked /\ a.initial = b.initial
          /\ a.valid = b.valid /\ a.flags = b.flags
      BY <3>1 DEF BookShape
    <3> HIDE DEF a
    <3> QED  BY <3>2, <3>3 DEF m, k
  <2>2. books' = [i \in Instruments |-> Aged(books[i])]
    BY Zenon DEF Tick
  <2> HIDE DEF Aged
  <2> QED  BY <2>1, <2>2, BooksAreTyped
<1>3. /\ due' \in [{Shard} \cup Instruments -> [Kinds -> Nat]]
      /\ \A i \in Instruments, kind \in Kinds :
           due'[i][kind] = IF due[i][kind] \in {0, Never} THEN due[i][kind] ELSE due[i][kind] - 1
  <2> DEFINE Less(left) == IF left \in {0, Never} THEN left ELSE left - 1
  <2>1. due \in [{Shard} \cup Instruments -> [Kinds -> Nat]]
    BY DEF SupervisorInv, SupervisorType
  <2>2. \A left \in Nat : Less(left) \in Nat
    BY Limits
  <2>3. due' = [k \in {Shard} \cup Instruments |-> [kind \in Kinds |-> Less(due[k][kind])]]
    BY <2>1 DEF Tick
  <2> HIDE DEF Less
  <2>4. due' \in [{Shard} \cup Instruments -> [Kinds -> Nat]]
    BY <2>1, <2>2, <2>3
  <2>5. \A i \in Instruments, kind \in Kinds : due'[i][kind] = Less(due[i][kind])
    BY <2>3
  <2> QED  BY <2>4, <2>5 DEF Less
<1>4. ASSUME NEW i \in Instruments
      PROVE  BookIsDue(shard, books[i], due[i])' /\ SnapshotIsDue(shard, books[i], due[i], i)'
  <2>1. /\ BookIsDue(shard, books[i], due[i]) /\ SnapshotIsDue(shard, books[i], due[i], i)
        /\ books[i] \in BookShape /\ shard.connected \in Ages
        /\ books[i].message \in Ages /\ books[i].book \in Ages
    BY BooksAreTyped DEF SupervisorInv, IsShard, ShardShape, BookShape
  <2>2. \A kind \in Kinds, left \in Nat :
          due[i][kind] = left /\ left # Never => due'[i][kind] = IF left = 0 THEN 0 ELSE left - 1
    BY <1>3
  <2>3. \A kind \in Kinds, age \in Ages, limit \in {MaxAge, Sla} :
          due[i][kind] = Left(age, limit) /\ age # Never => due'[i][kind] = Left(Elapsed(age), limit)
    <3>1. ASSUME NEW kind \in Kinds, NEW age \in Ages, NEW limit \in {MaxAge, Sla},
                 due[i][kind] = Left(age, limit), age # Never
          PROVE  due'[i][kind] = Left(Elapsed(age), limit)
      <4>1. /\ Left(age, limit) \in Nat /\ Left(age, limit) # Never
            /\ Left(Elapsed(age), limit) = IF Left(age, limit) = 0 THEN 0 ELSE Left(age, limit) - 1
        BY <3>1, LeftIs
      <4> QED  BY <2>2, <3>1, <4>1
    <3> QED  BY <3>1
  <2>4. BookIsDue(shard', books'[i], due'[i])
    <3>1. /\ Elapsed(books[i].message) = Never <=> books[i].message = Never
          /\ Elapsed(books[i].book) = Never <=> books[i].book = Never
      BY <2>1, LeftIs
    <3>2. /\ due[i]["message"] = Left(books[i].message, MaxAge) /\ books[i].message # Never
               => due'[i]["message"] = Left(Elapsed(books[i].message), MaxAge)
          /\ due[i]["book"] = Left(books[i].book, MaxAge) /\ books[i].book # Never
               => due'[i]["book"] = Left(Elapsed(books[i].book), MaxAge)
      BY <2>1, <2>3 DEF Kinds
    <3> QED  BY <1>2, <2>1, <3>1, <3>2 DEF BookIsDue
  <2>5. SnapshotIsDue(shard', books'[i], due'[i], i)
    <3>1. /\ Elapsed(shard.connected) = Never <=> shard.connected = Never
          /\ Overdue(shard.connected) => Overdue(Elapsed(shard.connected))
      BY <2>1, LeftIs
    <3>2. due[i]["initial"] = Left(shard.connected, Sla) /\ shard.connected # Never
            => due'[i]["initial"] = Left(Elapsed(shard.connected), Sla)
      BY <2>1, <2>3 DEF Kinds
    <3> QED  BY <1>1, <1>2, <2>1, <3>1, <3>2 DEF SnapshotIsDue
  <2> QED  BY <2>4, <2>5
<1>5. SupervisorType' /\ NoStaleBookSurvives'
  BY <1>1, <1>2, <1>3 DEF Tick, SupervisorType, NoStaleBookSurvives
<1> QED  BY <1>4, <1>5 DEF SupervisorInv

LEMMA SupervisorStarts == SupervisorInit => SupervisorInv
<1> SUFFICES ASSUME SupervisorInit PROVE SupervisorInv
  OBVIOUS
<1> DEFINE counts == Recount([i \in Instruments |-> NoBook])
<1>1. /\ shard = [connection |-> "initialized", connected |-> Never, message |-> Never,
                  book |-> Never, flags |-> {}, counts |-> counts, overdue |-> {}, reports |-> 0]
      /\ books = [i \in Instruments |-> NoBook] /\ checked = FALSE
      /\ due = [k \in {Shard} \cup Instruments |->
                  [kind \in Kinds |-> IF k = Shard /\ kind # "initial" THEN 0 ELSE Never]]
  BY DEF SupervisorInit
<1> HIDE DEF counts
<1>2. IsShard(shard) /\ shard.connected = Never
  BY <1>1, Limits DEF IsShard, ShardShape, Flags
<1>3. NoBook \in BookShape /\ ~NoBook.valid
  BY Limits DEF NoBook, BookShape
<1>4. due \in [{Shard} \cup Instruments -> [Kinds -> Nat]]
  BY <1>1, Limits
<1> QED  BY <1>1, <1>2, <1>3, <1>4
         DEF SupervisorInv, SupervisorType, NoStaleBookSurvives, BookIsDue, SnapshotIsDue

LEMMA SupervisorSteps == SupervisorInv /\ [SupervisorNext]_supervisorVars => SupervisorInv'
<1> SUFFICES ASSUME SupervisorInv, [SupervisorNext]_supervisorVars PROVE SupervisorInv'
  OBVIOUS
<1>1. CASE UNCHANGED supervisorVars
  BY <1>1 DEF supervisorVars, SupervisorInv, SupervisorType, NoStaleBookSurvives
<1>2. CASE SupervisorNext
  BY <1>2, MarkConnectedStep, ConnectionStep, MarkReconnectStep, RecordMessageStep, RecordBookStep,
     RecordSequenceGapStep, RecordResyncStep, InvalidateStaleStep, TickStep DEF SupervisorNext
<1> QED  BY <1>1, <1>2

LEMMA SupervisorBegins == Init => SupervisorInit
  BY DEF Init

LEMMA SupervisorGoes == [Next]_commandVars => [SupervisorNext]_supervisorVars
  BY DEF commandVars, Next, Capture, RunJobs, ResolveMarkets, SuperviseShard,
    ReadVenue, ReplayTape, UseRun, IngestMarkets, PollVenue, OpenCatalog,
    ObserveShard, EmitQuotes, StreamDatasets, ResolveBatch, PlanFeed, ReadSocket,
    supervisorVars

(***************************************************************************)
(* After staleness was checked no book is valid whose clocks are beyond    *)
(* their limits, although only the books whose deadlines passed are looked *)
(* at (supervisor.py).                                                     *)
(***************************************************************************)
THEOREM StaleBooksDoNotSurvive == Spec => []NoStaleBookSurvives
<1>1. Init => SupervisorInv
  BY SupervisorBegins, SupervisorStarts
<1>2. SupervisorInv /\ [Next]_commandVars => SupervisorInv'
  BY SupervisorGoes, SupervisorSteps
<1>3. SupervisorInv => NoStaleBookSurvives
  BY DEF SupervisorInv
<1> QED  BY <1>1, <1>2, <1>3, PTL DEF Spec

-----------------------------------------------------------------------------
(* The counts of a shard, kept by adding and taking away one book at a      *)
(* time.                                                                    *)

LEMMA Least == ASSUME NEW T, T \subseteq Nat, T # {} PROVE \E n \in T : \A m \in T : n <= m
<1> DEFINE R == OpToRel(<, Nat)
<1>1. \A x, y \in Nat : y < x => <<y, x>> \in R
  BY DEF OpToRel
<1>2. IsWellFoundedOn(R, Nat)
  BY NatLessThanWellFounded
<1> HIDE DEF R
<1>3. PICK x \in T : \A y \in T : <<y, x>> \notin R
  BY <1>2, WFMin
<1>4. ASSUME NEW y \in T PROVE x <= y
  <2>1. x \in Nat /\ y \in Nat /\ ~(y < x)
    BY <1>1, <1>3
  <2> QED  BY <2>1
<1> QED  BY <1>4

\* What holds of 0 and passes from each number to the next one holds of all.
LEMMA Upward == ASSUME NEW T, 0 \in T, \A n \in Nat : n \in T => n + 1 \in T PROVE Nat \subseteq T
<1> DEFINE Out == Nat \ T
<1> SUFFICES ASSUME Out # {} PROVE FALSE
  OBVIOUS
<1>1. PICK n \in Out : \A m \in Out : n <= m
  BY Least
<1>2. n # 0 /\ n \in Nat
  BY <1>1
<1>3. n - 1 \in Nat /\ n - 1 \notin Out
  BY <1>1, <1>2
<1>4. (n - 1) + 1 \in T
  BY <1>3
<1> QED  BY <1>1, <1>2, <1>4

\* The books an aspect counts, and what one book adds to it.
InAspect(b, a) == b.tracked /\ Projection(b)[a]
Having(all, a) == {i \in Instruments : InAspect(all[i], a)}

LEMMA CountsAre ==
  /\ \A all : Recount(all) = [a \in Aspects |-> Cardinality(Having(all, a))]
  /\ \A counts, before, after :
       Adjusted(counts, before, after)
         = [a \in Aspects |-> counts[a] + One(InAspect(after, a)) - One(InAspect(before, a))]
<1>1. ASSUME NEW all PROVE Recount(all) = [a \in Aspects |-> Cardinality(Having(all, a))]
  BY DEF Recount, Having, InAspect
<1>2. ASSUME NEW counts, NEW before, NEW after
      PROVE  Adjusted(counts, before, after)
               = [a \in Aspects |-> counts[a] + One(InAspect(after, a)) - One(InAspect(before, a))]
  <2>1. ASSUME NEW b, NEW a PROVE (IF b.tracked THEN One(Projection(b)[a]) ELSE 0) = One(InAspect(b, a))
    BY DEF InAspect, One
  <2> QED  BY <2>1 DEF Adjusted
<1> QED  BY <1>1, <1>2

LEMMA OneMoved ==
  ASSUME NEW S \in SUBSET Instruments, NEW T \in SUBSET Instruments, NEW i, S \ {i} = T \ {i}
  PROVE  Cardinality(T) = Cardinality(S) + One(i \in T) - One(i \in S)
<1>1. IsFiniteSet(S) /\ IsFiniteSet(T)
  BY SupervisorBounds, FS_Subset
<1>2. PICK R \in SUBSET Instruments : R = S \ {i} /\ R = T \ {i} /\ i \notin R
  OBVIOUS
<1>3. IsFiniteSet(R)
  BY SupervisorBounds, FS_Subset
<1>4. PICK n \in Nat : n = Cardinality(R)
  BY <1>3, FS_CardinalityType
<1>5. \A Q \in SUBSET Instruments : Q \ {i} = R => Cardinality(Q) = n + One(i \in Q)
  <2> SUFFICES ASSUME NEW Q \in SUBSET Instruments, Q \ {i} = R PROVE Cardinality(Q) = n + One(i \in Q)
    OBVIOUS
  <2>1. CASE i \in Q
    <3>1. Q = R \cup {i}
      BY <1>2, <2>1
    <3>2. Cardinality(R \cup {i}) = Cardinality(R) + 1
      BY <1>2, <1>3, FS_AddElement
    <3> QED  BY <1>4, <2>1, <3>1, <3>2 DEF One
  <2>2. CASE i \notin Q
    <3>1. Q = R
      BY <2>2
    <3> QED  BY <1>4, <2>2, <3>1 DEF One
  <2> QED  BY <2>1, <2>2
<1>6. Cardinality(S) = n + One(i \in S) /\ Cardinality(T) = n + One(i \in T)
  BY <1>2, <1>5
<1>7. One(i \in S) \in Nat /\ One(i \in T) \in Nat
  BY DEF One
<1> QED  BY <1>6, <1>7

\* Counting one change and counting anew give the same.
LEMMA AdjustedIs ==
  ASSUME NEW x \in [Instruments -> BookShape], NEW i \in Instruments, NEW b
  PROVE  Adjusted(Recount(x), x[i], b) = Recount([x EXCEPT ![i] = b])
<1>1. PICK y : y = [x EXCEPT ![i] = b]
  OBVIOUS
<1>2. y[i] = b /\ \A j \in Instruments : j # i => y[j] = x[j]
  BY <1>1
<1>3. ASSUME NEW a \in Aspects
      PROVE  Cardinality(Having(y, a))
               = Recount(x)[a] + One(InAspect(b, a)) - One(InAspect(x[i], a))
  <2>1. Having(x, a) \ {i} = Having(y, a) \ {i}
    BY <1>2 DEF Having
  <2>2. (i \in Having(y, a) <=> InAspect(b, a)) /\ (i \in Having(x, a) <=> InAspect(x[i], a))
    BY <1>2 DEF Having
  <2>3. Cardinality(Having(y, a)) = Cardinality(Having(x, a)) + One(i \in Having(y, a)) - One(i \in Having(x, a))
    <3>1. Having(x, a) \in SUBSET Instruments /\ Having(y, a) \in SUBSET Instruments
      BY DEF Having
    <3> QED  BY <2>1, <3>1, OneMoved
  <2>4. One(i \in Having(y, a)) = One(InAspect(b, a)) /\ One(i \in Having(x, a)) = One(InAspect(x[i], a))
    BY <2>2 DEF One
  <2>5. Recount(x)[a] = Cardinality(Having(x, a))
    BY CountsAre
  <2> QED  BY <2>3, <2>4, <2>5
<1>4. Adjusted(Recount(x), x[i], b)
        = [a \in Aspects |-> Recount(x)[a] + One(InAspect(b, a)) - One(InAspect(x[i], a))]
  BY CountsAre
<1>5. Recount(y) = [a \in Aspects |-> Cardinality(Having(y, a))]
  BY CountsAre
<1> QED  BY <1>1, <1>3, <1>4, <1>5

\* The counts depend on what is counted alone.
LEMMA CountedAlike ==
  ASSUME NEW x \in [Instruments -> BookShape], NEW y \in [Instruments -> BookShape],
         \A i \in Instruments : /\ y[i].tracked = x[i].tracked /\ y[i].valid = x[i].valid
                                /\ y[i].integrity = x[i].integrity /\ y[i].flags = x[i].flags
  PROVE  Recount(y) = Recount(x)
<1>1. ASSUME NEW i \in Instruments PROVE Projection(y[i]) = Projection(x[i]) /\ y[i].tracked = x[i].tracked
  BY DEF Projection
<1>2. \A a \in Aspects : Having(y, a) = Having(x, a)
  BY <1>1 DEF Having, InAspect
<1> QED  BY <1>2, CountsAre

\* What the counts of a shard are, whatever else is changed in it.
HasCounts(s, counts) == "counts" \in DOMAIN s /\ s.counts = counts

LEMMA BookCounted ==
  ASSUME CountsAreTrue, NEW i \in Instruments, NEW b, NEW s, NEW which, books \in [Instruments -> BookShape],
         HasCounts(s, Adjusted(shard.counts, books[i], b)), Changed(s, With(i, b), which)
  PROVE  CountsAreTrue'
<1>1. shard'.counts = s.counts
  BY DEF HasCounts, Changed
<1>2. books' = [books EXCEPT ![i] = b]
  BY DEF Changed, With
<1>3. Adjusted(Recount(books), books[i], b) = Recount([books EXCEPT ![i] = b])
  BY AdjustedIs
<1>4. shard'.counts = Recount(books')
  BY <1>1, <1>2, <1>3 DEF HasCounts, CountsAreTrue
<1> QED  BY <1>4 DEF CountsAreTrue, Recount

LEMMA CountedKeeps ==
  ASSUME NEW s, DOMAIN s = DOMAIN shard, s.counts = shard.counts, IsShard(shard), NEW i, NEW b
  PROVE  /\ HasCounts(Counted(s, i, b), Adjusted(shard.counts, books[i], b))
         /\ DOMAIN Counted(s, i, b) = DOMAIN shard
  BY DEF Counted, HasCounts, IsShard, ShardShape

LEMMA HeardKeeps == IsShard(shard) => DOMAIN Heard(shard) = DOMAIN shard /\ Heard(shard).counts = shard.counts
  BY DEF Heard, IsShard, ShardShape

\* The counts after the books of a set were changed, as they are adjusted one after the other.
CountsOf(hit, all, f) ==
  f = [rest \in SUBSET hit |->
         IF rest = {} THEN shard.counts
         ELSE LET i == CHOOSE i \in rest : TRUE IN Adjusted(f[rest \ {i}], books[i], all[i])]
\* The books when those of a set were changed.
Mixed(rest, all) == [i \in Instruments |-> IF i \in rest THEN all[i] ELSE books[i]]

LEMMA MixedStep ==
  ASSUME NEW rest \in SUBSET Instruments, NEW i \in rest, NEW all \in [Instruments -> BookShape],
         books \in [Instruments -> BookShape]
  PROVE  Adjusted(Recount(Mixed(rest \ {i}, all)), books[i], all[i]) = Recount(Mixed(rest, all))
<1>1. Mixed(rest \ {i}, all) \in [Instruments -> BookShape] /\ Mixed(rest \ {i}, all)[i] = books[i]
  BY DEF Mixed
<1>2. [Mixed(rest \ {i}, all) EXCEPT ![i] = all[i]] = Mixed(rest, all)
  BY DEF Mixed
<1>3. i \in Instruments
  OBVIOUS
<1>4. PICK x \in [Instruments -> BookShape] : x = Mixed(rest \ {i}, all)
  BY <1>1
<1>5. Adjusted(Recount(x), x[i], all[i]) = Recount([x EXCEPT ![i] = all[i]])
  BY <1>3, AdjustedIs
<1> QED  BY <1>1, <1>2, <1>4, <1>5

LEMMA MixedNothing ==
  ASSUME books \in [Instruments -> BookShape], CountsAreTrue, NEW all
  PROVE  Recount(Mixed({}, all)) = shard.counts
<1>1. Mixed({}, all) = books
  BY DEF Mixed
<1> QED  BY <1>1 DEF CountsAreTrue

LEMMA CountsExist ==
  ASSUME NEW hit \in SUBSET Instruments, NEW all \in [Instruments -> BookShape],
         books \in [Instruments -> BookShape], CountsAreTrue
  PROVE  \E f : CountsOf(hit, all, f)
<1> DEFINE f == [rest \in SUBSET hit |-> Recount(Mixed(rest, all))]
<1>1. ASSUME NEW rest \in SUBSET hit
      PROVE  f[rest] = IF rest = {} THEN shard.counts
                       ELSE LET i == CHOOSE i \in rest : TRUE IN Adjusted(f[rest \ {i}], books[i], all[i])
  <2>1. CASE rest = {}
    BY <2>1, MixedNothing
  <2>2. CASE rest # {}
    <3>1. PICK i \in rest : i = CHOOSE j \in rest : TRUE
      BY <2>2
    <3>2. f[rest \ {i}] = Recount(Mixed(rest \ {i}, all)) /\ f[rest] = Recount(Mixed(rest, all))
      OBVIOUS
    <3>3. Adjusted(Recount(Mixed(rest \ {i}, all)), books[i], all[i]) = Recount(Mixed(rest, all))
      BY MixedStep
    <3> HIDE DEF f
    <3> QED  BY <2>2, <3>1, <3>2, <3>3
  <2> QED  BY <2>1, <2>2
<1>2. f = [rest \in SUBSET hit |-> f[rest]]
  OBVIOUS
<1> HIDE DEF f
<1>3. CountsOf(hit, all, f)
  BY <1>1, <1>2 DEF CountsOf
<1> QED  BY <1>3

LEMMA CountsOfStep ==
  ASSUME NEW hit, NEW all, NEW f, CountsOf(hit, all, f), NEW rest \in SUBSET hit
  PROVE  f[rest] = IF rest = {} THEN shard.counts
                   ELSE LET i == CHOOSE i \in rest : TRUE IN Adjusted(f[rest \ {i}], books[i], all[i])
<1>1. PICK g : g = f
  OBVIOUS
<1>2. f = [r \in SUBSET hit |->
         IF r = {} THEN shard.counts
         ELSE LET i == CHOOSE i \in r : TRUE IN Adjusted(g[r \ {i}], books[i], all[i])]
  BY <1>1 DEF CountsOf
<1>3. f[rest] = IF rest = {} THEN shard.counts
                ELSE LET i == CHOOSE i \in rest : TRUE IN Adjusted(g[rest \ {i}], books[i], all[i])
  BY <1>2
<1> QED  BY <1>1, <1>3

\* The smallest set at which they would not be the counts of the books: it has a last book.
LEMMA CountsAgree ==
  ASSUME NEW hit \in SUBSET Instruments, NEW all \in [Instruments -> BookShape], NEW f, CountsOf(hit, all, f),
         books \in [Instruments -> BookShape], CountsAreTrue
  PROVE  \A rest \in SUBSET hit : f[rest] = Recount(Mixed(rest, all))
<1> DEFINE Wrong == {rest \in SUBSET hit : f[rest] # Recount(Mixed(rest, all))}
           Sizes == {n \in Nat : \E rest \in Wrong : Cardinality(rest) = n}
<1> SUFFICES ASSUME NEW bad \in Wrong PROVE FALSE
  OBVIOUS
<1>1. \A rest \in SUBSET hit : IsFiniteSet(rest) /\ Cardinality(rest) \in Nat
  BY SupervisorBounds, FS_Subset, FS_CardinalityType
<1>2. PICK n \in Sizes : \A m \in Sizes : n <= m
  <2>1. Sizes # {} /\ Sizes \subseteq Nat
    BY <1>1
  <2> HIDE DEF Sizes
  <2> QED  BY <2>1, Least
<1>3. PICK rest \in Wrong : Cardinality(rest) = n
  BY <1>2
<1>4. CASE rest = {}
  <2>1. f[rest] = shard.counts
    BY <1>4, CountsOfStep
  <2> QED  BY <1>3, <1>4, <2>1, MixedNothing
<1>5. CASE rest # {}
  <2>1. PICK i \in rest : i = CHOOSE j \in rest : TRUE
    BY <1>5
  <2>2. f[rest] = Adjusted(f[rest \ {i}], books[i], all[i])
    BY <1>3, <1>5, <2>1, CountsOfStep
  <2>3. Cardinality(rest \ {i}) = n - 1 /\ n \in Nat /\ rest \ {i} \in SUBSET hit
    <3>1. Cardinality(rest \ {i}) = Cardinality(rest) - 1
      BY <1>1, <2>1, FS_RemoveElement
    <3> QED  BY <1>2, <1>3, <3>1
  <2>4. n - 1 \in Nat
    BY <1>1, <2>3
  <2>5. f[rest \ {i}] = Recount(Mixed(rest \ {i}, all))
    <3>1. n - 1 \notin Sizes
      BY <1>2, <2>4
    <3> QED  BY <2>3, <2>4, <3>1
  <2>6. f[rest] = Recount(Mixed(rest, all))
    BY <1>3, <2>2, <2>5, MixedStep
  <2> QED  BY <1>3, <2>6
<1> QED  BY <1>4, <1>5

LEMMA StaleCounted ==
  ASSUME IsShard(shard), books \in [Instruments -> BookShape], books' \in [Instruments -> BookShape],
         CountsAreTrue, InvalidateStale
  PROVE  CountsAreTrue'
<1> DEFINE hit == {i \in Instruments : Fired(i) \cap {"message", "book"} # {}}
           all == [i \in Instruments |->
                    IF i \in hit /\ books[i].tracked THEN Invalidated(books[i]) ELSE books[i]]
           late == {i \in Instruments : "initial" \in Fired(i) /\ ~books[i].initial
                                     /\ shard.connected # Never}
           s == IF Fired(Shard) # {} THEN InvalidatedShard(shard) ELSE shard
           f == CHOOSE f : CountsOf(hit, all, f)
<1>1. books' = all
  BY DEF InvalidateStale
<1>2. shard' = [s EXCEPT !.counts = f[hit], !.overdue = @ \cup late]
  BY DEF InvalidateStale, CountsOf
<1>3. DOMAIN s = DOMAIN shard
  BY DEF InvalidatedShard, IsShard, ShardShape
<1>4. hit \in SUBSET Instruments
  OBVIOUS
<1>5. Mixed(hit, all) = all
  BY DEF Mixed
<1> HIDE DEF hit, all, late, s
<1>6. CountsOf(hit, all, f)
  BY <1>1, <1>4, CountsExist
<1> HIDE DEF f
<1>7. f[hit] = Recount(all)
  BY <1>1, <1>4, <1>5, <1>6, CountsAgree
<1>8. shard'.counts = f[hit]
  BY <1>2, <1>3 DEF IsShard, ShardShape
<1> QED  BY <1>1, <1>7, <1>8 DEF CountsAreTrue, Recount

LEMMA TickCounted ==
  ASSUME IsShard(shard), books \in [Instruments -> BookShape], books' \in [Instruments -> BookShape],
         CountsAreTrue, Tick
  PROVE  CountsAreTrue'
<1>1. shard'.counts = shard.counts
  BY DEF Tick, IsShard, ShardShape
<1>2. \A i \in Instruments : /\ books'[i].tracked = books[i].tracked /\ books'[i].valid = books[i].valid
                              /\ books'[i].integrity = books[i].integrity /\ books'[i].flags = books[i].flags
  BY DEF Tick, BookShape
<1>3. Recount(books') = Recount(books)
  BY <1>2, CountedAlike
<1> QED  BY <1>1, <1>3 DEF CountsAreTrue, Recount

LEMMA CountsStep ==
  SupervisorInv /\ SupervisorInv' /\ CountsAreTrue /\ [SupervisorNext]_supervisorVars => CountsAreTrue'
<1> SUFFICES ASSUME SupervisorInv, SupervisorInv', CountsAreTrue, [SupervisorNext]_supervisorVars
             PROVE  CountsAreTrue'
  OBVIOUS
<1>t. IsShard(shard) /\ books \in [Instruments -> BookShape] /\ books' \in [Instruments -> BookShape]
  BY DEF SupervisorInv, SupervisorType
<1>1. CASE UNCHANGED supervisorVars
  BY <1>1 DEF supervisorVars, CountsAreTrue, Recount
<1>2. ASSUME books' = books, shard'.counts = shard.counts PROVE CountsAreTrue'
  BY <1>2 DEF CountsAreTrue, Recount
<1>3. CASE MarkConnected
  <2>1. books' = books /\ shard'.counts = shard.counts
    BY <1>t, <1>3 DEF MarkConnected, Changed, IsShard, ShardShape
  <2> QED  BY <1>2, <2>1
<1>4. CASE MarkDisconnected \/ MarkTransportAlive
  <2>1. books' = books /\ shard'.counts = shard.counts
    BY <1>t, <1>4 DEF MarkDisconnected, MarkTransportAlive, IsShard, ShardShape
  <2> QED  BY <1>2, <2>1
<1>5. CASE MarkReconnect
  <2> DEFINE all == [i \in Instruments |->
        IF ~books[i].tracked THEN books[i] ELSE [NoBook EXCEPT !.tracked = TRUE, !.flags = {"reconnect"}]]
  <2>1. books' = all
    BY <1>5 DEF MarkReconnect, Changed
  <2>2. shard'.counts = Recount(all)
    <3> DEFINE c == Recount(all)
    <3>1. \E w, o, r : shard' = [[shard EXCEPT !.connection = "reconnecting", !.connected = Never,
             !.message = 0, !.book = Never, !.flags = {"reconnect"}, !.counts = c] EXCEPT !.overdue = o, !.reports = r]
      BY <1>5 DEF MarkReconnect, Changed
    <3> HIDE DEF c
    <3>2. shard'.counts = c
      BY <1>t, <3>1 DEF IsShard, ShardShape
    <3> QED  BY <3>2 DEF c
  <2> HIDE DEF all
  <2> QED  BY <2>1, <2>2 DEF CountsAreTrue, Recount
<1>6. ASSUME NEW i \in Instruments, RecordMessage(i) PROVE CountsAreTrue'
  <2>1. HasCounts(Counted(Heard(shard), i, HeardBook(books[i])), Adjusted(shard.counts, books[i], HeardBook(books[i])))
    BY <1>t, CountedKeeps, HeardKeeps
  <2> QED  BY <1>t, <1>6, <2>1, BookCounted DEF RecordMessage
<1>7. ASSUME NEW i \in Instruments, RecordSequenceGap(i) PROVE CountsAreTrue'
  <2>1. PICK b : b = [books[i] EXCEPT !.tracked = TRUE, !.valid = FALSE, !.integrity = FALSE,
              !.flags = @ \cup {"sequence_gap"}]
    OBVIOUS
  <2>2. PICK s : s = Counted(shard, i, b)
    OBVIOUS
  <2>3. HasCounts(s, Adjusted(shard.counts, books[i], b)) /\ DOMAIN s = DOMAIN shard
    BY <1>t, <2>2, CountedKeeps
  <2>4. PICK t : t = [s EXCEPT !.flags = @ \cup {"sequence_gap"}]
    OBVIOUS
  <2>5. HasCounts(t, Adjusted(shard.counts, books[i], b))
    BY <2>3, <2>4 DEF HasCounts
  <2>6. Changed(t, With(i, b), Instruments)
    BY <1>7, <2>1, <2>2, <2>4 DEF RecordSequenceGap
  <2> QED  BY <1>t, <2>5, <2>6, BookCounted
<1>8. ASSUME NEW i \in Instruments, RecordResync(i) PROVE CountsAreTrue'
  <2>1. PICK b : b = [books[i] EXCEPT !.tracked = TRUE, !.message = 0, !.flags = @ \ {"sequence_gap"}]
    OBVIOUS
  <2>2. PICK h : h = [shard EXCEPT !.message = 0]
    OBVIOUS
  <2>3. DOMAIN h = DOMAIN shard /\ h.counts = shard.counts
    BY <1>t, <2>2 DEF IsShard, ShardShape
  <2>4. PICK s : s = Counted(h, i, b)
    OBVIOUS
  <2>5. HasCounts(s, Adjusted(shard.counts, books[i], b)) /\ DOMAIN s = DOMAIN shard
    BY <1>t, <2>3, <2>4, CountedKeeps
  <2>6. PICK t : t = [s EXCEPT !.flags = IF s.counts["gap"] = 0 THEN @ \ {"sequence_gap"} ELSE @]
    OBVIOUS
  <2>7. HasCounts(t, Adjusted(shard.counts, books[i], b))
    BY <2>5, <2>6 DEF HasCounts
  <2>8. Changed(t, With(i, b), {i})
    BY <1>8, <2>1, <2>2, <2>4, <2>6 DEF RecordResync
  <2> QED  BY <1>t, <2>7, <2>8, BookCounted
<1>9. ASSUME NEW i \in Instruments, NEW report \in Reports, RecordBook(i, report) PROVE CountsAreTrue'
  <2>1. PICK b : b = Reported(books[i], report)
    OBVIOUS
  <2>2. PICK s : s = Counted(Heard(shard), i, b)
    OBVIOUS
  <2>3. HasCounts(s, Adjusted(shard.counts, books[i], b)) /\ DOMAIN s = DOMAIN shard
    BY <1>t, <2>2, CountedKeeps, HeardKeeps
  <2>4. \E t, g, f : t = [s EXCEPT !.book = g, !.flags = f] /\ Changed(t, With(i, b), {i})
    BY <1>9, <2>1, <2>2 DEF RecordBook
  <2>5. PICK t : (\E g, f : t = [s EXCEPT !.book = g, !.flags = f]) /\ Changed(t, With(i, b), {i})
    BY <2>4
  <2>6. HasCounts(t, Adjusted(shard.counts, books[i], b))
    BY <2>3, <2>5 DEF HasCounts
  <2> QED  BY <1>t, <2>5, <2>6, BookCounted
<1>10. CASE InvalidateStale
  BY <1>t, <1>10, StaleCounted
<1>11. CASE Tick
  BY <1>t, <1>11, TickCounted
<1> QED  BY <1>1, <1>3, <1>4, <1>5, <1>6, <1>7, <1>8, <1>9, <1>10, <1>11 DEF SupervisorNext

LEMMA CountsStart == SupervisorInit => CountsAreTrue
  BY DEF SupervisorInit, CountsAreTrue

-----------------------------------------------------------------------------
(* The shards a plan is laid out in.                                        *)

\* The elements kept up to each position, as Filtered computes them.
FilterRuns(s, P, f) ==
  f = [n \in 0 .. Len(s) |-> IF n = 0 THEN <<>>
                             ELSE IF n \in P THEN Append(f[n - 1], s[n]) ELSE f[n - 1]]

LEMMA FilterExists == ASSUME NEW S, NEW s \in Seq(S), NEW P PROVE \E f : FilterRuns(s, P, f)
<1> DEFINE Next1(g, n) == IF n = 0 THEN <<>> ELSE IF n \in P THEN Append(g[n - 1], s[n]) ELSE g[n - 1]
           Upto(f, n) == DOMAIN f = 0 .. n /\ f = [i \in 0 .. n |-> f[i]] /\ \A i \in 0 .. n : f[i] = Next1(f, i)
           T == {n \in Nat : \E f : Upto(f, n)}
<1>1. 0 \in T
  <2>1. PICK f : f = [i \in 0 .. 0 |-> <<>>]
    OBVIOUS
  <2>2. Upto(f, 0)
    BY <2>1
  <2> QED  BY <2>2
<1>2. ASSUME NEW n \in Nat, n \in T PROVE n + 1 \in T
  <2>1. PICK f : Upto(f, n)
    BY <1>2
  <2>2. PICK x : x = Next1(f, n + 1)
    OBVIOUS
  <2>3. PICK g : g = [i \in 0 .. n + 1 |-> IF i <= n THEN f[i] ELSE x]
    OBVIOUS
  <2>4. DOMAIN g = 0 .. n + 1 /\ g = [i \in 0 .. n + 1 |-> g[i]] /\ g[n + 1] = x /\ \A i \in 0 .. n : g[i] = f[i]
    BY <2>3
  <2>5. ASSUME NEW i \in 0 .. n PROVE g[i] = Next1(g, i)
    <3>1. f[i] = Next1(f, i)
      BY <2>1
    <3>2. i # 0 => i - 1 \in 0 .. n
      OBVIOUS
    <3>3. i # 0 => g[i - 1] = f[i - 1]
      BY <2>4, <3>2
    <3> QED  BY <2>4, <3>1, <3>3
  <2>6. g[n + 1] = Next1(g, n + 1)
    <3>1. (n + 1) - 1 = n /\ n \in 0 .. n /\ n + 1 # 0
      OBVIOUS
    <3> QED  BY <2>2, <2>4, <3>1
  <2>7. \A i \in 0 .. n + 1 : i \in 0 .. n \/ i = n + 1
    OBVIOUS
  <2>8. Upto(g, n + 1)
    <3> HIDE DEF Next1
    <3> QED  BY <2>4, <2>5, <2>6, <2>7
  <2> QED  BY <2>8
<1>3. Len(s) \in T
  <2>1. Nat \subseteq T
    <3> HIDE DEF T
    <3> QED  BY <1>1, <1>2, Upward
  <2> QED  BY <2>1, LenProperties
<1>4. PICK f : Upto(f, Len(s))
  BY <1>3
<1>5. PICK g : g = f
  OBVIOUS
<1>6. f = [n \in 0 .. Len(s) |-> IF n = 0 THEN <<>> ELSE IF n \in P THEN Append(g[n - 1], s[n]) ELSE g[n - 1]]
  BY <1>4, <1>5
<1> QED  BY <1>5, <1>6 DEF FilterRuns

LEMMA FilteredIs ==
  ASSUME NEW S, NEW s \in Seq(S), NEW P
  PROVE  \E f : FilterRuns(s, P, f) /\ Filtered(s, P) = f[Len(s)]
<1> DEFINE g == CHOOSE f : FilterRuns(s, P, f)
<1>1. FilterRuns(s, P, g)
  BY FilterExists
<1>2. Filtered(s, P) = g[Len(s)]
  BY DEF Filtered, FilterRuns
<1> QED  BY <1>1, <1>2

LEMMA FilterStep ==
  ASSUME NEW s, NEW P, NEW f, FilterRuns(s, P, f), NEW n \in 0 .. Len(s)
  PROVE  f[n] = IF n = 0 THEN <<>> ELSE IF n \in P THEN Append(f[n - 1], s[n]) ELSE f[n - 1]
<1>1. PICK h : h = f
  OBVIOUS
<1>2. f = [i \in 0 .. Len(s) |-> IF i = 0 THEN <<>> ELSE IF i \in P THEN Append(h[i - 1], s[i]) ELSE h[i - 1]]
  BY <1>1 DEF FilterRuns
<1> QED  BY <1>1, <1>2

\* The elements of q are those of s at the positions of P up to n, at the places e says.
TakenAt(s, P, n, q, e) ==
  /\ DOMAIN e = DOMAIN q
  /\ \A i \in DOMAIN q : e[i] \in 1 .. n /\ e[i] \in P /\ q[i] = s[e[i]]
  /\ \A i, j \in DOMAIN q : i < j => e[i] < e[j]
  /\ \A m \in 1 .. n : m \in P => \E i \in DOMAIN q : e[i] = m

LEMMA FilterTakes ==
  ASSUME NEW S, NEW s \in Seq(S), NEW P, NEW f, FilterRuns(s, P, f)
  PROVE  \A n \in 0 .. Len(s) : f[n] \in Seq(S) /\ \E e : TakenAt(s, P, n, f[n], e)
<1> DEFINE Good(n) == f[n] \in Seq(S) /\ \E e : TakenAt(s, P, n, f[n], e)
           T == {n \in Nat : n \in 0 .. Len(s) => Good(n)}
<1>0. Len(s) \in Nat /\ \A n \in 1 .. Len(s) : s[n] \in S
  BY LenProperties
<1>1. 0 \in T
  <2>1. f[0] = <<>>
    BY <1>0, FilterStep
  <2>2. <<>> \in Seq(S) /\ DOMAIN <<>> = {}
    OBVIOUS
  <2>3. TakenAt(s, P, 0, f[0], <<>>)
    BY <2>1, <2>2 DEF TakenAt
  <2> QED  BY <2>1, <2>2, <2>3
<1>2. ASSUME NEW k \in Nat, k \in T PROVE k + 1 \in T
  <2> SUFFICES ASSUME k + 1 \in 0 .. Len(s) PROVE Good(k + 1)
    OBVIOUS
  <2>1. PICK n \in 1 .. Len(s) : n = k + 1 /\ n \in Nat /\ n - 1 = k /\ n # 0
    BY <1>0
  <2>2. PICK q \in Seq(S) : q = f[k]
    BY <1>0, <1>2
  <2>3. PICK e : TakenAt(s, P, k, q, e)
    BY <1>0, <1>2, <2>2
  <2>4. f[n] = IF n \in P THEN Append(q, s[n]) ELSE q
    BY <1>0, <2>1, <2>2, FilterStep
  <2>5. \A m \in 1 .. n : m \in 1 .. k \/ m = n
    BY <2>1
  <2>6. \A m \in 1 .. k : m \in 1 .. n
    BY <2>1
  <2>7. CASE n \notin P
    <3>1. TakenAt(s, P, n, q, e)
      BY <2>3, <2>5, <2>6, <2>7 DEF TakenAt
    <3> QED  BY <2>1, <2>4, <2>7, <3>1
  <2>8. CASE n \in P
    <3>1. PICK l \in Nat : l = Len(q) /\ DOMAIN q = 1 .. l
      BY LenProperties
    <3>2. PICK t \in Seq(S) : t = Append(q, s[n]) /\ DOMAIN t = 1 .. l + 1 /\ t[l + 1] = s[n]
                              /\ \A i \in 1 .. l : t[i] = q[i]
      <4>1. Append(q, s[n]) \in Seq(S) /\ DOMAIN Append(q, s[n]) = 1 .. l + 1 /\ Append(q, s[n])[l + 1] = s[n]
        BY <1>0, <3>1
      <4>2. \A i \in 1 .. l : Append(q, s[n])[i] = q[i]
        BY <1>0, <3>1
      <4> QED  BY <4>1, <4>2
    <3>3. PICK g : g = [i \in 1 .. l + 1 |-> IF i = l + 1 THEN n ELSE e[i]]
      OBVIOUS
    <3>4. DOMAIN g = 1 .. l + 1 /\ g[l + 1] = n /\ \A i \in 1 .. l : g[i] = e[i]
      BY <3>3
    <3>5. \A i \in 1 .. l + 1 : i \in 1 .. l \/ i = l + 1
      OBVIOUS
    <3>6. ASSUME NEW i \in 1 .. l + 1 PROVE g[i] \in 1 .. n /\ g[i] \in P /\ t[i] = s[g[i]]
      BY <2>1, <2>3, <2>6, <2>8, <3>1, <3>2, <3>4, <3>5 DEF TakenAt
    <3>7. ASSUME NEW i \in 1 .. l + 1, NEW j \in 1 .. l + 1, i < j PROVE g[i] < g[j]
      <4>1. i \in 1 .. l
        BY <3>1, <3>7
      <4>2. CASE j = l + 1
        <5>1. g[i] \in 1 .. k
          BY <2>3, <3>1, <3>4, <4>1 DEF TakenAt
        <5> QED  BY <2>1, <3>4, <4>2, <5>1
      <4>3. CASE j \in 1 .. l
        BY <2>3, <3>1, <3>4, <3>7, <4>1, <4>3 DEF TakenAt
      <4> QED  BY <3>5, <4>2, <4>3
    <3>8. ASSUME NEW m \in 1 .. n, m \in P PROVE \E i \in 1 .. l + 1 : g[i] = m
      <4>1. CASE m = n
        BY <3>1, <3>4, <4>1
      <4>2. CASE m \in 1 .. k
        <5>1. PICK i \in 1 .. l : e[i] = m
          BY <2>3, <3>1, <3>8, <4>2 DEF TakenAt
        <5>2. i \in 1 .. l + 1
          BY <3>1
        <5> QED  BY <3>4, <5>1, <5>2
      <4> QED  BY <2>5, <4>1, <4>2
    <3>9. TakenAt(s, P, n, t, g)
      BY <3>2, <3>4, <3>6, <3>7, <3>8 DEF TakenAt
    <3> QED  BY <2>1, <2>4, <2>8, <3>2, <3>9
  <2> QED  BY <2>7, <2>8
<1>3. Nat \subseteq T
  <2> HIDE DEF T
  <2> QED  BY <1>1, <1>2, Upward
<1> QED  BY <1>0, <1>3

LEMMA FilteredTakes ==
  ASSUME NEW S, NEW s \in Seq(S), NEW P
  PROVE  /\ Filtered(s, P) \in Seq(S)
         /\ \E e : TakenAt(s, P, Len(s), Filtered(s, P), e)
<1>1. PICK f : FilterRuns(s, P, f) /\ Filtered(s, P) = f[Len(s)]
  BY FilteredIs
<1>2. Len(s) \in 0 .. Len(s)
  BY LenProperties
<1> QED  BY <1>1, <1>2, FilterTakes

LEMMA FilteredHas ==
  ASSUME NEW S, NEW s \in Seq(S), NEW P, NEW q, q = Filtered(s, P)
  PROVE  /\ q \in Seq(S)
         /\ \A i \in DOMAIN q : \E n \in DOMAIN s : n \in P /\ q[i] = s[n]
         /\ \A n \in DOMAIN s : n \in P => \E i \in DOMAIN q : q[i] = s[n]
         /\ \A i, j \in DOMAIN q : i < j =>
              \E m, n \in DOMAIN s : m \in P /\ n \in P /\ m < n /\ q[i] = s[m] /\ q[j] = s[n]
         /\ \A m, n \in DOMAIN s : m \in P /\ n \in P /\ m < n =>
              \E i, j \in DOMAIN q : i # j /\ q[i] = s[m] /\ q[j] = s[n]
<1>1. q \in Seq(S)
  BY FilteredTakes
<1>2. PICK e : TakenAt(s, P, Len(s), q, e)
  BY FilteredTakes
<1>3. DOMAIN s = 1 .. Len(s) /\ Len(s) \in Nat
  BY LenProperties
<1>4. \A i \in DOMAIN q : e[i] \in DOMAIN s /\ e[i] \in P /\ q[i] = s[e[i]]
  BY <1>2, <1>3 DEF TakenAt
<1>5. \A i, j \in DOMAIN q : i < j => e[i] < e[j]
  BY <1>2 DEF TakenAt
<1>6. \A n \in DOMAIN s : n \in P => \E i \in DOMAIN q : e[i] = n
  BY <1>2, <1>3 DEF TakenAt
<1>7. ASSUME NEW m \in DOMAIN s, NEW n \in DOMAIN s, m \in P, n \in P, m < n
      PROVE  \E i, j \in DOMAIN q : i # j /\ q[i] = s[m] /\ q[j] = s[n]
  <2>1. PICK i \in DOMAIN q : e[i] = m
    BY <1>6, <1>7
  <2>2. PICK j \in DOMAIN q : e[j] = n
    BY <1>6, <1>7
  <2>3. m # n
    BY <1>3, <1>7
  <2> QED  BY <1>4, <2>1, <2>2, <2>3
<1>8. \A n \in DOMAIN s : n \in P => \E i \in DOMAIN q : q[i] = s[n]
  BY <1>4, <1>6
<1>9. \A i \in DOMAIN q : \E n \in DOMAIN s : n \in P /\ q[i] = s[n]
  BY <1>4
<1>10. ASSUME NEW i \in DOMAIN q, NEW j \in DOMAIN q, i < j
       PROVE  \E m, n \in DOMAIN s : m \in P /\ n \in P /\ m < n /\ q[i] = s[m] /\ q[j] = s[n]
  <2>1. PICK m, n : m = e[i] /\ n = e[j]
    OBVIOUS
  <2>2. m \in DOMAIN s /\ m \in P /\ q[i] = s[m] /\ n \in DOMAIN s /\ n \in P /\ q[j] = s[n]
    BY <1>4, <2>1
  <2>3. m < n
    BY <1>5, <1>10, <2>1
  <2> QED  BY <2>2, <2>3
<1>11. \A m, n \in DOMAIN s : m \in P /\ n \in P /\ m < n =>
         \E i, j \in DOMAIN q : i # j /\ q[i] = s[m] /\ q[j] = s[n]
  BY <1>7
<1>12. \A i, j \in DOMAIN q : i < j =>
         \E m, n \in DOMAIN s : m \in P /\ n \in P /\ m < n /\ q[i] = s[m] /\ q[j] = s[n]
  BY <1>10
<1> QED  BY <1>1, <1>8, <1>9, <1>11, <1>12

PlanEntry == [id : Tokens \cup {NoId, Listlike}, shard : ShardIds]
EntryIds == Tokens \cup {NoId, Listlike}

LEMMA IdsOfIs ==
  ASSUME NEW q \in Seq(PlanEntry)
  PROVE  /\ IdsOf(q) \in Seq(EntryIds) /\ DOMAIN IdsOf(q) = DOMAIN q /\ \A n \in DOMAIN q : IdsOf(q)[n] = q[n].id
<1>1. DOMAIN q = 1 .. Len(q) /\ Len(q) \in Nat /\ \A n \in DOMAIN q : q[n] \in PlanEntry
  BY LenProperties
<1>2. \A n \in DOMAIN q : q[n].id \in EntryIds
  BY <1>1 DEF PlanEntry, EntryIds
<1>3. [n \in 1 .. Len(q) |-> q[n].id] \in Seq(EntryIds)
  BY <1>1, <1>2, SeqDef
<1> QED  BY <1>1, <1>3 DEF IdsOf

\* Two entries with one id.
Twins(entries, P) ==
  \E m, n \in DOMAIN entries : m \in P /\ n \in P /\ m # n /\ entries[m].id = entries[n].id

LEMMA FilteredIds ==
  ASSUME NEW entries \in Seq(PlanEntry), NEW P, NEW q, q = IdsOf(Filtered(entries, P))
  PROVE  /\ q \in Seq(EntryIds)
         /\ \A x : x \in Range(q) <=> \E n \in DOMAIN entries : n \in P /\ entries[n].id = x
         /\ IsInjective(q) <=> ~Twins(entries, P)
<1>1. PICK r \in Seq(PlanEntry) : r = Filtered(entries, P)
  BY FilteredHas
<1>2. /\ \A i \in DOMAIN r : \E n \in DOMAIN entries : n \in P /\ r[i] = entries[n]
      /\ \A n \in DOMAIN entries : n \in P => \E i \in DOMAIN r : r[i] = entries[n]
  BY <1>1, FilteredHas
<1>3. \A i, j \in DOMAIN r : i < j =>
        \E m, n \in DOMAIN entries : m \in P /\ n \in P /\ m < n /\ r[i] = entries[m] /\ r[j] = entries[n]
  BY <1>1, FilteredHas
<1>4. \A m, n \in DOMAIN entries : m \in P /\ n \in P /\ m < n =>
        \E i, j \in DOMAIN r : i # j /\ r[i] = entries[m] /\ r[j] = entries[n]
  BY <1>1, FilteredHas
<1>5. q \in Seq(EntryIds) /\ DOMAIN q = DOMAIN r /\ \A i \in DOMAIN r : q[i] = r[i].id
  BY <1>1, IdsOfIs
<1>6. ASSUME NEW x
      PROVE  x \in Range(q) <=> \E n \in DOMAIN entries : n \in P /\ entries[n].id = x
  <2>1. ASSUME x \in Range(q) PROVE \E n \in DOMAIN entries : n \in P /\ entries[n].id = x
    <3>1. PICK i \in DOMAIN r : q[i] = x
      BY <1>5, <2>1 DEF Range
    <3>2. PICK n \in DOMAIN entries : n \in P /\ r[i] = entries[n]
      BY <1>2, <3>1
    <3> QED  BY <1>5, <3>1, <3>2
  <2>2. ASSUME NEW n \in DOMAIN entries, n \in P, entries[n].id = x PROVE x \in Range(q)
    <3>1. PICK i \in DOMAIN r : r[i] = entries[n]
      BY <1>2, <2>2
    <3> QED  BY <1>5, <2>2, <3>1 DEF Range
  <2> QED  BY <2>1, <2>2
<1>7. DOMAIN r \subseteq Nat /\ DOMAIN entries \subseteq Nat
  BY LenProperties
<1>8. ASSUME Twins(entries, P) PROVE ~IsInjective(q)
  <2>1. PICK m, n \in DOMAIN entries : m \in P /\ n \in P /\ m # n /\ entries[m].id = entries[n].id
    BY <1>8 DEF Twins
  <2>2. m < n \/ n < m
    BY <1>7, <2>1
  <2>3. PICK i, j \in DOMAIN r : i # j /\ ((r[i] = entries[m] /\ r[j] = entries[n]) \/ (r[i] = entries[n] /\ r[j] = entries[m]))
    BY <1>4, <2>1, <2>2
  <2>4. q[i] = q[j]
    BY <1>5, <2>1, <2>3
  <2> QED  BY <1>5, <2>3, <2>4 DEF IsInjective
<1>9. ASSUME ~IsInjective(q) PROVE Twins(entries, P)
  <2>1. PICK i, j \in DOMAIN r : i # j /\ q[i] = q[j]
    BY <1>5, <1>9 DEF IsInjective
  <2>2. i < j \/ j < i
    BY <1>7, <2>1
  <2>3. PICK m, n \in DOMAIN entries : m \in P /\ n \in P /\ m < n /\ r[i].id = r[j].id
          /\ ((r[i] = entries[m] /\ r[j] = entries[n]) \/ (r[j] = entries[m] /\ r[i] = entries[n]))
    BY <1>3, <1>5, <2>1, <2>2
  <2>4. m # n
    BY <1>7, <2>3
  <2> QED  BY <2>3, <2>4 DEF Twins
<1> QED  BY <1>5, <1>6, <1>8, <1>9

InShardAt(entries, s) == {n \in DOMAIN entries : entries[n].shard = s}
NamedAt(entries) == {n \in DOMAIN entries : entries[n].id # NoId}

\* What a shard of the whole plan holds.
LEMMA WholeShardIs ==
  ASSUME NEW entries \in Seq(PlanEntry), NEW s, NEW q, q = IdsOf(Named(InShard(entries, s)))
  PROVE  /\ q \in Seq(EntryIds)
         /\ \A x : x \in Range(q) <=>
              \E n \in DOMAIN entries : entries[n].shard = s /\ entries[n].id = x /\ x # NoId
         /\ IsInjective(q) <=> ~Twins(entries, InShardAt(entries, s) \cap NamedAt(entries))
<1>0. PICK P : P = InShardAt(entries, s)
  OBVIOUS
<1>1. PICK r \in Seq(PlanEntry) : r = InShard(entries, s) /\ r = Filtered(entries, P)
  <2>1. InShard(entries, s) = Filtered(entries, P)
    BY <1>0 DEF InShard, InShardAt
  <2>2. Filtered(entries, P) \in Seq(PlanEntry)
    BY FilteredHas
  <2> QED  BY <2>1, <2>2
<1>2. /\ \A i \in DOMAIN r : \E n \in DOMAIN entries : n \in InShardAt(entries, s) /\ r[i] = entries[n]
      /\ \A n \in DOMAIN entries : n \in InShardAt(entries, s) => \E i \in DOMAIN r : r[i] = entries[n]
  BY <1>0, <1>1, FilteredHas
<1>3. \A i, j \in DOMAIN r : i < j =>
        \E m, n \in DOMAIN entries : m \in InShardAt(entries, s) /\ n \in InShardAt(entries, s) /\ m < n
                                   /\ r[i] = entries[m] /\ r[j] = entries[n]
  BY <1>0, <1>1, FilteredHas
<1>4. \A m, n \in DOMAIN entries : m \in InShardAt(entries, s) /\ n \in InShardAt(entries, s) /\ m < n =>
        \E i, j \in DOMAIN r : i # j /\ r[i] = entries[m] /\ r[j] = entries[n]
  BY <1>0, <1>1, FilteredHas
<1>5. /\ q \in Seq(EntryIds)
      /\ \A x : x \in Range(q) <=> \E n \in DOMAIN r : n \in NamedAt(r) /\ r[n].id = x
      /\ IsInjective(q) <=> ~Twins(r, NamedAt(r))
  BY <1>1, FilteredIds DEF Named, NamedAt
<1>6. ASSUME NEW x
      PROVE  x \in Range(q) <=>
               \E n \in DOMAIN entries : entries[n].shard = s /\ entries[n].id = x /\ x # NoId
  BY <1>2, <1>5 DEF InShardAt, NamedAt
<1>7. DOMAIN r \subseteq Nat /\ DOMAIN entries \subseteq Nat
  BY LenProperties
<1>8. ASSUME Twins(entries, InShardAt(entries, s) \cap NamedAt(entries)) PROVE Twins(r, NamedAt(r))
  <2>1. PICK m, n \in DOMAIN entries :
          /\ m \in InShardAt(entries, s) /\ n \in InShardAt(entries, s) /\ m # n
          /\ entries[m].id = entries[n].id /\ entries[m].id # NoId
    BY <1>8 DEF Twins, NamedAt
  <2>2. m < n \/ n < m
    BY <1>7, <2>1
  <2>3. PICK i, j \in DOMAIN r : i # j /\ ((r[i] = entries[m] /\ r[j] = entries[n]) \/ (r[i] = entries[n] /\ r[j] = entries[m]))
    BY <1>4, <2>1, <2>2
  <2> QED  BY <2>1, <2>3 DEF Twins, NamedAt
<1>9. ASSUME Twins(r, NamedAt(r)) PROVE Twins(entries, InShardAt(entries, s) \cap NamedAt(entries))
  <2>1. PICK i, j \in DOMAIN r : i # j /\ r[i].id = r[j].id /\ r[i].id # NoId
    BY <1>9 DEF Twins, NamedAt
  <2>2. i < j \/ j < i
    BY <1>7, <2>1
  <2>3. PICK m, n \in DOMAIN entries :
          /\ m \in InShardAt(entries, s) /\ n \in InShardAt(entries, s) /\ m < n
          /\ (r[i] = entries[m] /\ r[j] = entries[n]) \/ (r[j] = entries[m] /\ r[i] = entries[n])
    BY <1>3, <2>1, <2>2
  <2>4. m # n
    BY <1>7, <2>3
  <2> QED  BY <2>1, <2>3, <2>4 DEF Twins, NamedAt
<1> QED  BY <1>5, <1>6, <1>8, <1>9

\* All the entries with an id.
LEMMA NamedIs ==
  ASSUME NEW entries \in Seq(PlanEntry), NEW q, q = IdsOf(Named(entries))
  PROVE  /\ q \in Seq(EntryIds)
         /\ \A x : x \in Range(q) <=> \E n \in DOMAIN entries : entries[n].id = x /\ x # NoId
         /\ IsInjective(q) <=> ~Twins(entries, NamedAt(entries))
<1>1. /\ q \in Seq(EntryIds)
      /\ \A x : x \in Range(q) <=> \E n \in DOMAIN entries : n \in NamedAt(entries) /\ entries[n].id = x
      /\ IsInjective(q) <=> ~Twins(entries, NamedAt(entries))
  BY FilteredIds DEF Named, NamedAt
<1> QED  BY <1>1 DEF NamedAt

LEMMA UniqueIs ==
  ASSUME NEW T, NEW ids \in Seq(T)
  PROVE  Unique(ids) \in Seq(T) /\ IsInjective(Unique(ids))
<1>0. PICK P : P = {n \in DOMAIN ids : \A m \in 1 .. n - 1 : ids[m] # ids[n]}
  OBVIOUS
<1>1. PICK q \in Seq(T) : q = Unique(ids) /\ q = Filtered(ids, P)
  <2>1. Unique(ids) = Filtered(ids, P)
    BY <1>0 DEF Unique
  <2>2. Filtered(ids, P) \in Seq(T)
    BY FilteredHas
  <2> QED  BY <2>1, <2>2
<1>2. \A i, j \in DOMAIN q : i < j =>
        \E m, n \in DOMAIN ids : m \in P /\ n \in P /\ m < n /\ q[i] = ids[m] /\ q[j] = ids[n]
  BY <1>1, FilteredHas
<1>3. DOMAIN q \subseteq Nat /\ DOMAIN ids \subseteq Nat /\ \A m \in DOMAIN ids : 1 <= m
  BY LenProperties
<1>4. ASSUME NEW i \in DOMAIN q, NEW j \in DOMAIN q, i < j PROVE q[i] # q[j]
  <2>1. PICK m, n \in DOMAIN ids : n \in P /\ m < n /\ q[i] = ids[m] /\ q[j] = ids[n]
    BY <1>2, <1>4
  <2>2. m \in 1 .. n - 1
    BY <1>3, <2>1
  <2>3. ids[m] # ids[n]
    BY <1>0, <2>1, <2>2
  <2> QED  BY <2>1, <2>3
<1>5. ASSUME NEW i \in DOMAIN q, NEW j \in DOMAIN q, q[i] = q[j] PROVE i = j
  BY <1>3, <1>4, <1>5
<1> QED  BY <1>1, <1>5 DEF IsInjective

LEMMA PlaceIs ==
  ASSUME NEW T, NEW selected \in Seq(T), IsInjective(selected), NEW n \in DOMAIN selected
  PROVE  Place(selected, selected[n]) = n
<1>1. \A m \in DOMAIN selected : selected[m] = selected[n] <=> m = n
  BY DEF IsInjective
<1> QED  BY <1>1 DEF Place

\* What UniqueIs says, and that no element is lost.
LEMMA UniqueKeeps ==
  ASSUME NEW T, NEW ids \in Seq(T)
  PROVE  Range(Unique(ids)) = Range(ids)
<1>0. PICK P : P = {n \in DOMAIN ids : \A m \in 1 .. n - 1 : ids[m] # ids[n]}
  OBVIOUS
<1>1. PICK q : q = Unique(ids) /\ q = Filtered(ids, P)
  BY <1>0 DEF Unique
<1>2. \A i \in DOMAIN q : \E n \in DOMAIN ids : n \in P /\ q[i] = ids[n]
  BY <1>1, FilteredHas
<1>3. \A n \in DOMAIN ids : n \in P => \E i \in DOMAIN q : q[i] = ids[n]
  BY <1>1, FilteredHas
<1>4. DOMAIN ids = 1 .. Len(ids) /\ Len(ids) \in Nat
  BY LenProperties
<1>5. ASSUME NEW n \in DOMAIN ids PROVE ids[n] \in Range(q)
  <2> DEFINE Same == {m \in DOMAIN ids : ids[m] = ids[n]}
  <2>1. Same \subseteq Nat /\ Same # {}
    BY <1>4
  <2>2. PICK k \in Same : \A m \in Same : k <= m
    BY <2>1, Least
  <2>3. k \in DOMAIN ids /\ ids[k] = ids[n]
    OBVIOUS
  <2>4. ASSUME NEW m \in 1 .. k - 1 PROVE ids[m] # ids[k]
    <3>1. m \in DOMAIN ids /\ ~(k <= m)
      BY <1>4, <2>3
    <3> QED  BY <2>2, <2>3, <3>1
  <2>5. k \in P
    BY <1>0, <2>3, <2>4
  <2>6. PICK i \in DOMAIN q : q[i] = ids[k]
    BY <1>3, <2>3, <2>5
  <2> QED  BY <2>3, <2>6 DEF Range
<1>6. ASSUME NEW i \in DOMAIN q PROVE q[i] \in Range(ids)
  BY <1>2 DEF Range
<1> QED  BY <1>1, <1>5, <1>6 DEF Range

\* Two sequences without repetition and with the same elements have the same length.
LEMMA SameLength ==
  ASSUME NEW T, NEW q \in Seq(T), NEW r \in Seq(T), IsInjective(q), IsInjective(r), Range(q) = Range(r)
  PROVE  \E p \in Bijection(DOMAIN q, DOMAIN q) : DOMAIN r = DOMAIN q /\ \A n \in DOMAIN q : q[p[n]] = r[n]
<1>1. DOMAIN q = 1 .. Len(q) /\ Len(q) \in Nat /\ DOMAIN r = 1 .. Len(r) /\ Len(r) \in Nat
  BY LenProperties
<1>2. PICK p : p = [n \in DOMAIN r |-> CHOOSE k \in DOMAIN q : q[k] = r[n]]
  OBVIOUS
<1>3. ASSUME NEW n \in DOMAIN r PROVE p[n] \in DOMAIN q /\ q[p[n]] = r[n]
  <2>1. \E k \in DOMAIN q : q[k] = r[n]
    BY DEF Range
  <2> QED  BY <1>2, <2>1
<1>4. p \in [DOMAIN r -> DOMAIN q]
  BY <1>2, <1>3
<1>5. ASSUME NEW m \in DOMAIN r, NEW n \in DOMAIN r, p[m] = p[n] PROVE m = n
  BY <1>3, <1>5 DEF IsInjective
<1>6. ASSUME NEW k \in DOMAIN q PROVE \E n \in DOMAIN r : p[n] = k
  <2>1. PICK n \in DOMAIN r : r[n] = q[k]
    BY DEF Range
  <2> QED  BY <1>3, <2>1 DEF IsInjective
<1>7. p \in Bijection(DOMAIN r, DOMAIN q)
  <2>1. DOMAIN p = DOMAIN r
    BY <1>4
  <2>2. IsInjective(p)
    BY ONLY <1>5, <2>1 DEF IsInjective
  <2>3. p \in Injection(DOMAIN r, DOMAIN q)
    BY ONLY <1>4, <2>2 DEF Injection
  <2>4. p \in Surjection(DOMAIN r, DOMAIN q)
    BY ONLY <1>4, <1>6 DEF Surjection
  <2> QED  BY ONLY <2>3, <2>4 DEF Bijection
<1>8. Cardinality(DOMAIN r) = Len(r) /\ IsFiniteSet(DOMAIN r) /\ Cardinality(DOMAIN q) = Len(q)
  <2>1. ASSUME NEW n \in Nat PROVE Cardinality(1 .. n) = n /\ IsFiniteSet(1 .. n)
    <3>1. 1 \in Int /\ n \in Int
      OBVIOUS
    <3>2. Cardinality(1 .. n) = (IF 1 > n THEN 0 ELSE n - 1 + 1) /\ IsFiniteSet(1 .. n)
      BY <3>1, FS_Interval
    <3> QED  BY <3>2
  <2> QED  BY <1>1, <2>1
<1>9. Cardinality(DOMAIN r) = Cardinality(DOMAIN q)
  BY <1>7, <1>8, FS_Bijection DEF ExistsBijection
<1>10. DOMAIN r = DOMAIN q
  BY <1>1, <1>8, <1>9
<1> QED  BY <1>3, <1>7, <1>10

\* A part of a selection, put in the order of the selection.
LEMMA OrderIs ==
  ASSUME NEW T, NEW selected \in Seq(T), IsInjective(selected), NEW U, NEW ids \in Seq(U),
         IsInjective(ids), Range(ids) \subseteq Range(selected), NEW q, q = InOrderOf(selected, ids)
  PROVE  /\ q \in Seq(U) /\ Range(q) = Range(ids) /\ IsInjective(q)
         /\ \A m, n \in DOMAIN q : m < n => Place(selected, q[m]) < Place(selected, q[n])
<1> DEFINE Ok(p) == \A m, n \in DOMAIN ids :
                      m < n => Place(selected, ids[p[m]]) <= Place(selected, ids[p[n]])
<1>1. DOMAIN ids = 1 .. Len(ids) /\ Len(ids) \in Nat
      /\ DOMAIN selected = 1 .. Len(selected) /\ Len(selected) \in Nat
  BY LenProperties
<1>2. \E p \in Bijection(DOMAIN ids, DOMAIN ids) : Ok(p)
  <2>1. PICK P : P = {n \in DOMAIN selected : selected[n] \in Range(ids)}
    OBVIOUS
  <2>2. PICK r : r = Filtered(selected, P) /\ r \in Seq(T)
    BY FilteredHas
  <2>3. PICK e : TakenAt(selected, P, Len(selected), r, e)
    BY <2>2, FilteredTakes
  <2>4. ASSUME NEW i \in DOMAIN r PROVE e[i] \in DOMAIN selected /\ e[i] \in P /\ r[i] = selected[e[i]]
    BY <1>1, <2>3 DEF TakenAt
  <2>5. ASSUME NEW i \in DOMAIN r, NEW j \in DOMAIN r, r[i] = r[j] PROVE i = j
    <3>1. e[i] = e[j] /\ e[i] \in Nat
      BY <1>1, <2>4, <2>5 DEF IsInjective
    <3>2. i \in Nat /\ j \in Nat
      BY <2>2, LenProperties
    <3>3. ~(i < j) /\ ~(j < i)
      <4>1. ~(i < j)
        BY <2>3, <3>1 DEF TakenAt
      <4>2. ~(j < i)
        BY <2>3, <3>1 DEF TakenAt
      <4> QED  BY <4>1, <4>2
    <3> QED  BY <3>2, <3>3
  <2>6. IsInjective(r)
    BY <2>5 DEF IsInjective
  <2>7. Range(r) = Range(ids)
    <3>1. ASSUME NEW i \in DOMAIN r PROVE r[i] \in Range(ids)
      BY <2>1, <2>4
    <3>2. ASSUME NEW x \in Range(ids) PROVE x \in Range(r)
      <4>1. PICK n \in DOMAIN selected : selected[n] = x
        BY DEF Range
      <4>2. n \in P /\ n \in 1 .. Len(selected)
        BY <1>1, <2>1, <4>1
      <4>3. PICK i \in DOMAIN r : e[i] = n
        BY <2>3, <4>2 DEF TakenAt
      <4> QED  BY <2>4, <4>1, <4>3 DEF Range
    <3> QED  BY <3>1, <3>2 DEF Range
  <2>8. ids \in Seq(U \cup T) /\ r \in Seq(U \cup T)
    <3>1. \A n \in 1 .. Len(ids) : ids[n] \in U \cup T
      BY LenProperties
    <3>2. \A n \in 1 .. Len(r) : r[n] \in U \cup T
      BY <2>2, LenProperties
    <3>3. ids \in Seq(U \cup T)
      BY <3>1, LenProperties, SeqDef
    <3>4. r \in Seq(U \cup T)
      BY <2>2, <3>2, LenProperties, SeqDef
    <3> QED  BY <3>3, <3>4
  <2>9. PICK p \in Bijection(DOMAIN ids, DOMAIN ids) : DOMAIN r = DOMAIN ids /\ \A n \in DOMAIN ids : ids[p[n]] = r[n]
    BY <2>6, <2>7, <2>8, SameLength
  <2>10. ASSUME NEW m \in DOMAIN ids, NEW n \in DOMAIN ids, m < n
         PROVE  Place(selected, ids[p[m]]) <= Place(selected, ids[p[n]])
    <3>1. Place(selected, r[m]) = e[m] /\ Place(selected, r[n]) = e[n] /\ e[m] \in Nat /\ e[n] \in Nat
      BY <1>1, <2>4, <2>9, PlaceIs
    <3>2. e[m] < e[n]
      BY <2>3, <2>9, <2>10 DEF TakenAt
    <3> QED  BY <2>9, <3>1, <3>2
  <2> QED  BY <2>10
<1>3. PICK p \in Bijection(DOMAIN ids, DOMAIN ids) : Ok(p) /\ q = [n \in DOMAIN ids |-> ids[p[n]]]
  <2>1. PICK p : p = CHOOSE f \in Bijection(DOMAIN ids, DOMAIN ids) : Ok(f)
    OBVIOUS
  <2>2. p \in Bijection(DOMAIN ids, DOMAIN ids) /\ Ok(p)
    BY <1>2, <2>1
  <2>3. q = [n \in DOMAIN ids |-> ids[p[n]]]
    BY <2>1 DEF InOrderOf
  <2> QED  BY <2>2, <2>3
<1>4. /\ \A n \in DOMAIN ids : p[n] \in DOMAIN ids
      /\ \A m, n \in DOMAIN ids : p[m] = p[n] => m = n
      /\ \A k \in DOMAIN ids : \E n \in DOMAIN ids : p[n] = k
  BY <1>3 DEF Bijection, Injection, Surjection, IsInjective
<1>5. DOMAIN q = DOMAIN ids /\ \A n \in DOMAIN ids : q[n] = ids[p[n]]
  BY <1>3
<1>6. q \in Seq(U)
  <2>1. \A n \in DOMAIN ids : ids[p[n]] \in U
    BY <1>1, <1>4, LenProperties
  <2> QED  BY <1>1, <1>3, <2>1, SeqDef
<1>7. Range(q) = Range(ids)
  <2>1. ASSUME NEW x \in Range(q) PROVE x \in Range(ids)
    <3>1. PICK n \in DOMAIN q : q[n] = x
      BY DEF Range
    <3>2. p[n] \in DOMAIN ids /\ x = ids[p[n]]
      BY <1>4, <1>5, <3>1
    <3> QED  BY <3>2 DEF Range
  <2>2. ASSUME NEW x \in Range(ids) PROVE x \in Range(q)
    <3>1. PICK k \in DOMAIN ids : ids[k] = x
      BY DEF Range
    <3>2. PICK n \in DOMAIN ids : p[n] = k
      BY <1>4, <3>1
    <3> QED  BY <1>5, <3>1, <3>2 DEF Range
  <2> QED  BY <2>1, <2>2
<1>8. IsInjective(q)
  <2>1. ASSUME NEW m \in DOMAIN q, NEW n \in DOMAIN q, q[m] = q[n] PROVE m = n
    <3>1. p[m] \in DOMAIN ids /\ p[n] \in DOMAIN ids /\ ids[p[m]] = ids[p[n]]
      BY <1>4, <1>5, <2>1
    <3>2. p[m] = p[n]
      BY ONLY IsInjective(ids), <3>1 DEF IsInjective
    <3> QED  BY <1>4, <1>5, <3>2
  <2> QED  BY ONLY <2>1 DEF IsInjective
<1>9. ASSUME NEW m \in DOMAIN q, NEW n \in DOMAIN q, m < n
      PROVE  Place(selected, q[m]) < Place(selected, q[n])
  <2>1. Place(selected, q[m]) <= Place(selected, q[n])
    BY <1>3, <1>5, <1>9
  <2>2. q[m] \in Range(selected) /\ q[n] \in Range(selected)
    BY <1>7 DEF Range
  <2>3. PICK a, b \in DOMAIN selected : selected[a] = q[m] /\ selected[b] = q[n]
    BY <2>2 DEF Range
  <2>4. Place(selected, q[m]) = a /\ Place(selected, q[n]) = b /\ a \in Nat /\ b \in Nat
    BY <1>1, <2>3, PlaceIs
  <2>5. m # n
    BY <1>1, <1>5, <1>9
  <2>6. a # b
    BY <1>8, <2>3, <2>5 DEF IsInjective
  <2> QED  BY <2>1, <2>4, <2>6
<1> QED  BY <1>6, <1>7, <1>8, <1>9

-----------------------------------------------------------------------------
PlanTypes ==
  /\ plan \in [venue : {"polymarket", "kalshi"}, legacy : UpTo(MaxEntries, Tokens),
               entries : UpTo(MaxEntries, PlanEntry)]
  /\ selection \in UpTo(MaxEntries, Tokens) \cup {<<WholeFeed>>}

LEMMA UpToIs == ASSUME NEW S PROVE UpTo(MaxEntries, S) \subseteq Seq(S)
<1> SUFFICES ASSUME NEW q \in UpTo(MaxEntries, S) PROVE q \in Seq(S)
  OBVIOUS
<1>1. PICK k \in 0 .. MaxEntries : q \in [1 .. k -> S]
  BY DEF UpTo
<1>2. k \in Nat
  BY PlanAssumption
<1> QED  BY <1>1, <1>2, SeqDef

LEMMA PlanFacts ==
  ASSUME PlanTypes
  PROVE  /\ plan.legacy \in Seq(Tokens) /\ plan.entries \in Seq(PlanEntry)
         /\ selection # <<WholeFeed>> => SelectedIds \in Seq(Tokens) /\ IsInjective(SelectedIds)
<1>1. plan.legacy \in Seq(Tokens) /\ plan.entries \in Seq(PlanEntry)
  BY UpToIs DEF PlanTypes
<1>2. ASSUME selection # <<WholeFeed>> PROVE SelectedIds \in Seq(Tokens) /\ IsInjective(SelectedIds)
  <2>1. selection \in Seq(Tokens)
    BY <1>2, UpToIs DEF PlanTypes
  <2> QED  BY <1>1, <2>1, UniqueIs DEF SelectedIds
<1> QED  BY <1>1, <1>2

\* Shards that hold what some entries say, each in a shard of its name.
LaidOut(shards, entries) ==
  /\ \A h \in shards : \E n \in DOMAIN entries : h.id = entries[n].shard
  /\ \A n \in DOMAIN entries : \E h \in shards : h.id = entries[n].shard
  /\ \A g, h \in shards : g # h => g.id # h.id
  /\ \A h \in shards : \A x : x \in Range(h.instruments) <=>
       \E n \in DOMAIN entries : entries[n].shard = h.id /\ entries[n].id = x /\ x # NoId

LEMMA TwoTwins ==
  ASSUME NEW entries, NEW shards, LaidOut(shards, entries), InTwo(shards)
  PROVE  \E m, n \in DOMAIN entries : entries[m].id = entries[n].id /\ entries[m].id # NoId
                                      /\ entries[m].shard # entries[n].shard
<1>1. PICK g, h \in shards : g # h /\ Range(g.instruments) \cap Range(h.instruments) # {}
  BY DEF InTwo
<1>2. PICK x : x \in Range(g.instruments) /\ x \in Range(h.instruments)
  BY <1>1
<1>0. ASSUME NEW k \in shards, x \in Range(k.instruments)
      PROVE  \E n \in DOMAIN entries : entries[n].shard = k.id /\ entries[n].id = x /\ x # NoId
  BY <1>0 DEF LaidOut
<1>3. PICK m \in DOMAIN entries : entries[m].shard = g.id /\ entries[m].id = x /\ x # NoId
  BY <1>0, <1>2
<1>4. PICK n \in DOMAIN entries : entries[n].shard = h.id /\ entries[n].id = x
  BY <1>0, <1>2
<1>5. g.id # h.id
  BY <1>1 DEF LaidOut
<1> QED  BY <1>3, <1>4, <1>5

LEMMA ShardOfIs == ASSUME NEW s, NEW q PROVE ShardOf(s, q).id = s /\ ShardOf(s, q).instruments = q
BY DEF ShardOf

\* The shards of the whole plan, where the plan has entries.
LEMMA WholeIs ==
  ASSUME PlanTypes, plan.entries # <<>>
  PROVE  /\ LaidOut(WholePlan, plan.entries)
         /\ \A h \in WholePlan : h.instruments \in Seq(EntryIds)
         /\ TwiceInOne(WholePlan) <=>
              \E n \in DOMAIN plan.entries :
                Twins(plan.entries, InShardAt(plan.entries, plan.entries[n].shard) \cap NamedAt(plan.entries))
<1> DEFINE E == plan.entries
           Q(s) == IdsOf(Named(InShard(E, s)))
<1>1. E \in Seq(PlanEntry)
  BY PlanFacts
<1>2. WholePlan = {ShardOf(s, Q(s)) : s \in {E[n].shard : n \in DOMAIN E}}
  BY DEF WholePlan
<1>3. ASSUME NEW s
      PROVE  /\ Q(s) \in Seq(EntryIds)
             /\ \A x : x \in Range(Q(s)) <=> \E n \in DOMAIN E : E[n].shard = s /\ E[n].id = x /\ x # NoId
             /\ IsInjective(Q(s)) <=> ~Twins(E, InShardAt(E, s) \cap NamedAt(E))
  BY <1>1, WholeShardIs
<1> HIDE DEF Q, E
<1>4. ASSUME NEW h \in WholePlan PROVE \E n \in DOMAIN E : h.id = E[n].shard /\ h.instruments = Q(E[n].shard)
  BY <1>2, ShardOfIs
<1>5. ASSUME NEW n \in DOMAIN E
      PROVE  \E h \in WholePlan : h.id = E[n].shard /\ h.instruments = Q(E[n].shard)
  BY <1>2, ShardOfIs
<1>6. ASSUME NEW g \in WholePlan, NEW h \in WholePlan, g.id = h.id PROVE g = h
  <2>1. PICK s : g = ShardOf(s, Q(s))
    BY <1>2
  <2>2. PICK t : h = ShardOf(t, Q(t))
    BY <1>2
  <2> QED  BY <1>6, <2>1, <2>2, ShardOfIs
<1>7. ASSUME NEW h \in WholePlan, NEW x
      PROVE  x \in Range(h.instruments) <=> \E n \in DOMAIN E : E[n].shard = h.id /\ E[n].id = x /\ x # NoId
  <2>1. h.instruments = Q(h.id)
    BY <1>4
  <2> QED  BY <1>3, <2>1
<1>8. LaidOut(WholePlan, E)
  BY <1>4, <1>5, <1>6, <1>7 DEF LaidOut
<1>9. TwiceInOne(WholePlan) <=> \E n \in DOMAIN E : Twins(E, InShardAt(E, E[n].shard) \cap NamedAt(E))
  <2>1. ASSUME NEW h \in WholePlan, ~IsInjective(h.instruments)
        PROVE  \E n \in DOMAIN E : Twins(E, InShardAt(E, E[n].shard) \cap NamedAt(E))
    BY <1>3, <1>4, <2>1
  <2>2. ASSUME NEW n \in DOMAIN E, Twins(E, InShardAt(E, E[n].shard) \cap NamedAt(E))
        PROVE  \E h \in WholePlan : ~IsInjective(h.instruments)
    BY <1>3, <1>5, <2>2
  <2> QED  BY <2>1, <2>2 DEF TwiceInOne
<1>10. ASSUME NEW h \in WholePlan PROVE h.instruments \in Seq(EntryIds)
  <2>1. PICK s : h.instruments = Q(s)
    BY <1>4
  <2>2. Q(s) \in Seq(EntryIds)
    BY ONLY <1>3
  <2> QED  BY ONLY <2>1, <2>2
<1> QED  BY <1>8, <1>9, <1>10 DEF E

\* The entries of a selection: the planned ones, then the others with the default shard.
Joins(selected, E) ==
  /\ \A n \in DOMAIN E : \E k \in DOMAIN selected : E[n].id = selected[k]
  /\ \A k \in DOMAIN selected : \E n \in DOMAIN E : E[n].id = selected[k]
  /\ \A n \in DOMAIN E :
       \/ \E m \in DOMAIN plan.entries : plan.entries[m] = E[n]
       \/ E[n].shard = Default /\ \A m \in DOMAIN plan.entries : plan.entries[m].id # E[n].id
  /\ \A m, n \in DOMAIN E : m < n /\ E[m].id = E[n].id =>
       \E j, k \in DOMAIN plan.entries : j < k /\ plan.entries[j] = E[m] /\ plan.entries[k] = E[n]
Rest(leftovers) == [n \in DOMAIN leftovers |-> [id |-> leftovers[n], shard |-> Default]]

LEMMA JoinsIs ==
  ASSUME PlanTypes, NEW selected \in Seq(Tokens), IsInjective(selected),
         NEW A, A = Planned(selected), NEW L, L = Leftovers(selected, A), NEW E, E = A \o Rest(L)
  PROVE  E \in Seq(PlanEntry) /\ Joins(selected, E)
<1> DEFINE D == plan.entries
<1>1. D \in Seq(PlanEntry)
  BY PlanFacts
<1> HIDE DEF D
<1>2. DOMAIN D = 1 .. Len(D) /\ Len(D) \in Nat /\ DOMAIN selected = 1 .. Len(selected) /\ Len(selected) \in Nat
  BY <1>1, LenProperties
<1>3. PICK P : P = {n \in DOMAIN D : Contains(selected, D[n].id)}
  OBVIOUS
<1>4. A = Filtered(D, P)
  BY <1>3 DEF Planned, D
<1>5. A \in Seq(PlanEntry)
  BY <1>1, <1>4, FilteredHas
<1>6. /\ \A i \in DOMAIN A : \E n \in DOMAIN D : n \in P /\ A[i] = D[n]
      /\ \A n \in DOMAIN D : n \in P => \E i \in DOMAIN A : A[i] = D[n]
      /\ \A i, j \in DOMAIN A : i < j =>
           \E m, n \in DOMAIN D : m \in P /\ n \in P /\ m < n /\ A[i] = D[m] /\ A[j] = D[n]
  BY <1>1, <1>4, FilteredHas
<1>7. PICK O : O = {n \in DOMAIN selected : \A m \in DOMAIN A : A[m].id # selected[n]}
  OBVIOUS
<1>8. L = Filtered(selected, O)
  BY <1>7 DEF Leftovers
<1>9. L \in Seq(Tokens)
  BY <1>8, FilteredHas
<1>10. /\ \A i \in DOMAIN L : \E n \in DOMAIN selected : n \in O /\ L[i] = selected[n]
       /\ \A n \in DOMAIN selected : n \in O => \E i \in DOMAIN L : L[i] = selected[n]
       /\ \A i, j \in DOMAIN L : i < j =>
            \E m, n \in DOMAIN selected : m \in O /\ n \in O /\ m < n /\ L[i] = selected[m] /\ L[j] = selected[n]
  BY <1>8, FilteredHas
<1>11. PICK a \in Nat : a = Len(A) /\ DOMAIN A = 1 .. a
  BY <1>5, LenProperties
<1>12. PICK l \in Nat : l = Len(L) /\ DOMAIN L = 1 .. l
  BY <1>9, LenProperties
<1>13. Rest(L) \in Seq(PlanEntry) /\ Len(Rest(L)) = l
       /\ \A n \in 1 .. l : Rest(L)[n].id = L[n] /\ Rest(L)[n].shard = Default
  <2>1. \A n \in 1 .. l : L[n] \in Tokens
    BY <1>9, <1>12, LenProperties
  <2>2. \A n \in 1 .. l : [id |-> L[n], shard |-> Default] \in PlanEntry
    BY <2>1 DEF PlanEntry, Default, ShardIds
  <2>3. Rest(L) = [n \in 1 .. l |-> [id |-> L[n], shard |-> Default]]
    BY <1>12 DEF Rest
  <2>4. Rest(L) \in [1 .. l -> PlanEntry]
    BY <2>2, <2>3
  <2>5. Rest(L) \in Seq(PlanEntry)
    BY <2>4, SeqDef
  <2>6. Len(Rest(L)) = l
    BY <2>4, <2>5, LenProperties
  <2> QED  BY <2>3, <2>5, <2>6
<1>14. /\ E \in Seq(PlanEntry) /\ DOMAIN E = 1 .. a + l
       /\ \A n \in 1 .. a : E[n] = A[n]
       /\ \A n \in 1 .. l : E[a + n] = Rest(L)[n]
  <2>1. /\ E \in Seq(PlanEntry) /\ Len(E) = a + l
        /\ \A i \in 1 .. a + l : E[i] = IF i <= a THEN A[i] ELSE Rest(L)[i - a]
    <3>1. PICK R \in Seq(PlanEntry) : R = Rest(L) /\ Len(R) = l
      BY <1>13
    <3>2. /\ A \o R \in Seq(PlanEntry) /\ Len(A \o R) = Len(A) + Len(R)
          /\ \A i \in 1 .. Len(A) + Len(R) : (A \o R)[i] = IF i <= Len(A) THEN A[i] ELSE R[i - Len(A)]
      BY <1>5, ConcatProperties
    <3> QED  BY <1>11, <3>1, <3>2
  <2>2. DOMAIN E = 1 .. a + l
    BY <2>1, LenProperties
  <2>3. ASSUME NEW n \in 1 .. a PROVE E[n] = A[n]
    <3>1. n \in 1 .. a + l /\ n <= a
      OBVIOUS
    <3> QED  BY <2>1, <3>1
  <2>4. ASSUME NEW n \in 1 .. l PROVE E[a + n] = Rest(L)[n]
    <3>1. a + n \in 1 .. a + l /\ ~(a + n <= a) /\ (a + n) - a = n
      OBVIOUS
    <3> QED  BY <2>1, <3>1
  <2> QED  BY <2>1, <2>2, <2>3, <2>4
<1>15. ASSUME NEW n \in DOMAIN E
       PROVE  (n \in 1 .. a /\ E[n] = A[n])
              \/ \E k \in 1 .. l : n = a + k /\ E[n].id = L[k] /\ E[n].shard = Default
  <2>1. CASE n \in 1 .. a
    BY <1>14, <2>1
  <2>2. CASE n \notin 1 .. a
    <3>1. n - a \in 1 .. l /\ n = a + (n - a)
      BY <1>14, <2>2
    <3>2. PICK k \in 1 .. l : n = a + k
      BY <3>1
    <3> QED  BY <1>13, <1>14, <3>2
  <2> QED  BY <2>1, <2>2
<1>16. ASSUME NEW k \in 1 .. l PROVE a + k \in DOMAIN E /\ E[a + k].id = L[k] /\ E[a + k].shard = Default
  <2>1. a + k \in 1 .. a + l
    OBVIOUS
  <2> QED  BY <1>13, <1>14, <2>1
<1>17. ASSUME NEW n \in 1 .. a PROVE n \in DOMAIN E
  BY <1>14
<1>18. ASSUME NEW n \in DOMAIN E PROVE \E k \in DOMAIN selected : E[n].id = selected[k]
  <2>1. CASE n \in 1 .. a /\ E[n] = A[n]
    <3>1. PICK m \in DOMAIN D : m \in P /\ A[n] = D[m]
      BY <1>6, <1>11, <2>1
    <3>2. Contains(selected, D[m].id)
      BY <1>3, <3>1
    <3> QED  BY <1>2, <2>1, <3>1, <3>2 DEF Contains
  <2>2. CASE \E k \in 1 .. l : n = a + k /\ E[n].id = L[k] /\ E[n].shard = Default
    BY <1>10, <1>12, <2>2
  <2> QED  BY <1>15, <2>1, <2>2
<1>19. ASSUME NEW k \in DOMAIN selected PROVE \E n \in DOMAIN E : E[n].id = selected[k]
  <2>1. CASE k \in O
    <3>1. PICK i \in 1 .. l : L[i] = selected[k]
      BY <1>10, <1>12, <2>1
    <3> QED  BY <1>16, <3>1
  <2>2. CASE k \notin O
    <3>1. PICK m \in 1 .. a : A[m].id = selected[k]
      BY <1>7, <1>11, <2>2
    <3> QED  BY <1>14, <1>17, <3>1
  <2> QED  BY <2>1, <2>2
\* What is left over is planned nowhere.
<1>20. ASSUME NEW i \in 1 .. l, NEW m \in DOMAIN D PROVE D[m].id # L[i]
  <2>1. PICK n \in DOMAIN selected : n \in O /\ L[i] = selected[n]
    BY <1>10, <1>12
  <2>2. ASSUME D[m].id = L[i] PROVE FALSE
    <3>1. Contains(selected, D[m].id)
      BY <1>2, <2>1, <2>2 DEF Contains
    <3>2. m \in P
      BY <1>3, <3>1
    <3>3. PICK j \in DOMAIN A : A[j] = D[m]
      BY <1>6, <3>2
    <3> QED  BY <1>7, <2>1, <2>2, <3>3
  <2> QED  BY <2>2
<1>21. ASSUME NEW n \in DOMAIN E
       PROVE  \/ \E m \in DOMAIN D : D[m] = E[n]
              \/ E[n].shard = Default /\ \A m \in DOMAIN D : D[m].id # E[n].id
  <2>1. CASE n \in 1 .. a /\ E[n] = A[n]
    BY <1>6, <1>11, <2>1
  <2>2. CASE \E k \in 1 .. l : n = a + k /\ E[n].id = L[k] /\ E[n].shard = Default
    BY <1>20, <2>2
  <2> QED  BY <1>15, <2>1, <2>2
<1>22. ASSUME NEW m \in DOMAIN E, NEW n \in DOMAIN E, m < n, E[m].id = E[n].id
       PROVE  \E j, k \in DOMAIN D : j < k /\ D[j] = E[m] /\ D[k] = E[n]
  <2>1. CASE m \in 1 .. a /\ n \in 1 .. a /\ E[m] = A[m] /\ E[n] = A[n]
    BY <1>6, <1>11, <1>22, <2>1
  <2>2. ASSUME NEW i \in 1 .. a, NEW k \in 1 .. l, A[i].id = L[k] PROVE FALSE
    <3>1. PICK j \in DOMAIN D : A[i] = D[j]
      BY <1>6, <1>11
    <3> QED  BY <1>20, <2>2, <3>1
  <2>3. ASSUME NEW i \in 1 .. l, NEW k \in 1 .. l, m = a + i, n = a + k, L[i] = L[k] PROVE FALSE
    <3>1. i < k
      BY <1>22, <2>3
    <3>2. PICK b, c \in DOMAIN selected : b < c /\ L[i] = selected[b] /\ L[k] = selected[c]
      <4>1. i \in DOMAIN L /\ k \in DOMAIN L
        BY <1>12
      <4>2. \E m1, n1 \in DOMAIN selected : m1 \in O /\ n1 \in O /\ m1 < n1 /\ L[i] = selected[m1] /\ L[k] = selected[n1]
        BY ONLY <1>10, <3>1, <4>1
      <4> QED  BY ONLY <4>2
    <3>3. b = c
      BY <2>3, <3>2 DEF IsInjective
    <3> QED  BY <1>2, <3>2, <3>3
  <2>4. CASE n \in 1 .. a /\ E[n] = A[n]
    <3>1. ~(\E k \in 1 .. l : m = a + k /\ E[m].id = L[k] /\ E[m].shard = Default)
      BY <1>22, <2>2, <2>4
    <3> QED  BY <1>15, <2>1, <2>4, <3>1
  <2>5. CASE \E k \in 1 .. l : n = a + k /\ E[n].id = L[k] /\ E[n].shard = Default
    <3>1. PICK k \in 1 .. l : n = a + k /\ E[n].id = L[k]
      BY <2>5
    <3>2. ~(m \in 1 .. a /\ E[m] = A[m])
      BY <1>22, <2>2, <3>1
    <3>3. PICK i \in 1 .. l : m = a + i /\ E[m].id = L[i]
      BY <1>15, <3>2
    <3>4. L[i] = L[k]
      BY <1>22, <3>1, <3>3
    <3> QED  BY <2>3, <3>1, <3>3, <3>4
  <2> QED  BY <1>15, <2>4, <2>5
<1>23. Joins(selected, E)
  <2>1. \A m, n \in DOMAIN E : m < n /\ E[m].id = E[n].id =>
          \E j, k \in DOMAIN D : j < k /\ D[j] = E[m] /\ D[k] = E[n]
    BY ONLY <1>22
  <2>2. \A n \in DOMAIN E : \/ \E m \in DOMAIN D : D[m] = E[n]
                            \/ E[n].shard = Default /\ \A m \in DOMAIN D : D[m].id # E[n].id
    BY ONLY <1>21
  <2>3. \A n \in DOMAIN E : \E k \in DOMAIN selected : E[n].id = selected[k]
    BY ONLY <1>18
  <2>4. \A k \in DOMAIN selected : \E n \in DOMAIN E : E[n].id = selected[k]
    BY ONLY <1>19
  <2> QED  BY ONLY <2>1, <2>2, <2>3, <2>4 DEF Joins, D
<1> QED  BY <1>14, <1>23

InPlace(selected, q) == \A m, n \in DOMAIN q : m < n => Place(selected, q[m]) < Place(selected, q[n])

LEMMA SelectedIs ==
  ASSUME PlanTypes, selection # <<WholeFeed>>, plan.entries # <<>>, ~TwiceInOne(WholePlan)
  PROVE  \E E \in Seq(PlanEntry) :
           /\ Joins(SelectedIds, E) /\ LaidOut(SelectedPlan, E)
           /\ \A h \in SelectedPlan : IsInjective(h.instruments) /\ InPlace(SelectedIds, h.instruments)
<1>1. PICK selected \in Seq(Tokens) : selected = SelectedIds /\ IsInjective(selected)
  BY PlanFacts
<1>2. PICK A : A = Planned(selected)
  OBVIOUS
<1>3. PICK L : L = Leftovers(selected, A)
  OBVIOUS
<1>4. PICK E : E = A \o Rest(L)
  OBVIOUS
<1>5. E \in Seq(PlanEntry) /\ Joins(selected, E)
  BY <1>1, <1>2, <1>3, <1>4, JoinsIs
<1> DEFINE Q0(s) == IdsOf(InShard(E, s))
           Q(s) == InOrderOf(selected, Q0(s))
<1>6. SelectedPlan = {ShardOf(s, Q(s)) : s \in {E[n].shard : n \in DOMAIN E}}
  <2>1. E = Planned(SelectedIds) \o
              [n \in DOMAIN Leftovers(SelectedIds, Planned(SelectedIds)) |->
                 [id |-> Leftovers(SelectedIds, Planned(SelectedIds))[n], shard |-> Default]]
    BY <1>1, <1>2, <1>3, <1>4 DEF Rest
  <2>2. SelectedPlan = {ShardOf(s, InOrderOf(SelectedIds, IdsOf(InShard(E, s)))) : s \in {E[n].shard : n \in DOMAIN E}}
    BY ONLY plan.entries # <<>>, <2>1 DEF SelectedPlan
  <2> QED  BY ONLY <1>1, <2>2
<1>7. ASSUME NEW n \in DOMAIN E PROVE E[n].id \in Range(selected) /\ E[n].id \in Tokens /\ E[n].id # NoId
  <2>1. PICK k \in DOMAIN selected : E[n].id = selected[k]
    BY <1>5 DEF Joins
  <2>2. selected[k] \in Tokens
    BY <1>1, LenProperties
  <2> QED  BY <2>1, <2>2, PlanAssumption DEF Range
<1>8. ASSUME NEW s PROVE ~Twins(E, InShardAt(E, s))
  <2> SUFFICES ASSUME Twins(E, InShardAt(E, s)) PROVE TwiceInOne(WholePlan)
    OBVIOUS
  <2>1. PICK a, b \in DOMAIN E : a \in InShardAt(E, s) /\ b \in InShardAt(E, s) /\ a # b /\ E[a].id = E[b].id
    BY DEF Twins
  <2>2. a \in Nat /\ b \in Nat
    BY <1>5, LenProperties
  <2>3. PICK m, n \in DOMAIN E : m < n /\ E[m].id = E[n].id /\ E[m].shard = s /\ E[n].shard = s
    <3>1. a < b \/ b < a
      BY <2>1, <2>2
    <3> QED  BY <2>1, <3>1 DEF InShardAt
  <2>4. PICK j, k \in DOMAIN plan.entries : j < k /\ plan.entries[j] = E[m] /\ plan.entries[k] = E[n]
    <3>1. \A p, q \in DOMAIN E : p < q /\ E[p].id = E[q].id =>
            \E j, k \in DOMAIN plan.entries : j < k /\ plan.entries[j] = E[p] /\ plan.entries[k] = E[q]
      BY <1>5 DEF Joins
    <3> QED  BY ONLY <2>3, <3>1
  <2>5. j # k
    <3>1. j \in Nat /\ k \in Nat
      BY PlanFacts, LenProperties
    <3> QED  BY <2>4, <3>1
  <2>6. Twins(plan.entries, InShardAt(plan.entries, plan.entries[j].shard) \cap NamedAt(plan.entries))
    BY <1>7, <2>3, <2>4, <2>5 DEF Twins, InShardAt, NamedAt
  <2> QED  BY <2>6, WholeIs
<1>9. ASSUME NEW s
      PROVE  /\ Q0(s) \in Seq(EntryIds) /\ IsInjective(Q0(s))
             /\ \A x : x \in Range(Q0(s)) <=> \E n \in DOMAIN E : E[n].shard = s /\ E[n].id = x
  <2>1. PICK P : P = InShardAt(E, s)
    OBVIOUS
  <2>2. Q0(s) = IdsOf(Filtered(E, P))
    BY <2>1 DEF InShard, InShardAt
  <2>3. /\ Q0(s) \in Seq(EntryIds)
        /\ \A x : x \in Range(Q0(s)) <=> \E n \in DOMAIN E : n \in P /\ E[n].id = x
        /\ IsInjective(Q0(s)) <=> ~Twins(E, P)
    BY <1>5, <2>2, FilteredIds
  <2>4. IsInjective(Q0(s))
    BY <1>8, <2>1, <2>3
  <2>5. \A n \in DOMAIN E : n \in P <=> E[n].shard = s
    BY <2>1 DEF InShardAt
  <2> QED  BY ONLY <2>3, <2>4, <2>5
<1>10. ASSUME NEW s PROVE Range(Q0(s)) \subseteq Range(selected)
  <2>1. ASSUME NEW x \in Range(Q0(s)) PROVE x \in Range(selected)
    <3>1. PICK n \in DOMAIN E : E[n].id = x
      BY <1>9
    <3> QED  BY <1>7, <3>1
  <2> QED  BY <2>1
<1>11. ASSUME NEW s PROVE Range(Q(s)) = Range(Q0(s)) /\ IsInjective(Q(s)) /\ InPlace(selected, Q(s))
  <2>1. PICK ids \in Seq(EntryIds) : ids = Q0(s) /\ IsInjective(ids) /\ Range(ids) \subseteq Range(selected)
    BY <1>9, <1>10
  <2>2. PICK q : q = InOrderOf(selected, ids)
    OBVIOUS
  <2>3. /\ Range(q) = Range(ids) /\ IsInjective(q)
        /\ \A m, n \in DOMAIN q : m < n => Place(selected, q[m]) < Place(selected, q[n])
    BY <1>1, <2>1, <2>2, OrderIs
  <2>4. q = Q(s)
    BY <2>1, <2>2
  <2> QED  BY ONLY <2>1, <2>3, <2>4 DEF InPlace
<1> HIDE DEF Q0, Q
<1>12. ASSUME NEW h \in SelectedPlan PROVE \E n \in DOMAIN E : h.id = E[n].shard /\ h.instruments = Q(E[n].shard)
  <2>1. PICK n \in DOMAIN E : h = ShardOf(E[n].shard, Q(E[n].shard))
    BY ONLY <1>6, <1>12
  <2> QED  BY ONLY <2>1, ShardOfIs
<1>13. ASSUME NEW n \in DOMAIN E PROVE \E h \in SelectedPlan : h.id = E[n].shard
  <2>1. ShardOf(E[n].shard, Q(E[n].shard)) \in SelectedPlan
    BY ONLY <1>6
  <2> QED  BY ONLY <2>1, ShardOfIs
<1>14. ASSUME NEW g \in SelectedPlan, NEW h \in SelectedPlan, g.id = h.id PROVE g = h
  <2>1. PICK s : g = ShardOf(s, Q(s))
    BY <1>6
  <2>2. PICK t : h = ShardOf(t, Q(t))
    BY <1>6
  <2> QED  BY <1>14, <2>1, <2>2, ShardOfIs
<1>15. ASSUME NEW h \in SelectedPlan, NEW x
       PROVE  x \in Range(h.instruments) <=> \E n \in DOMAIN E : E[n].shard = h.id /\ E[n].id = x /\ x # NoId
  <2>1. h.instruments = Q(h.id)
    BY <1>12
  <2>2. Range(Q(h.id)) = Range(Q0(h.id))
    BY <1>11
  <2>3. x \in Range(Q0(h.id)) <=> \E n \in DOMAIN E : E[n].shard = h.id /\ E[n].id = x
    BY <1>9
  <2> QED  BY <1>7, <2>1, <2>2, <2>3
<1>16. LaidOut(SelectedPlan, E)
  BY <1>12, <1>13, <1>14, <1>15 DEF LaidOut
<1>17. ASSUME NEW h \in SelectedPlan PROVE IsInjective(h.instruments) /\ InPlace(selected, h.instruments)
  <2>1. PICK s : h.instruments = Q(s)
    BY <1>12
  <2>2. IsInjective(Q(s)) /\ InPlace(selected, Q(s))
    BY <1>11
  <2> QED  BY ONLY <2>1, <2>2
<1> QED  BY <1>1, <1>5, <1>16, <1>17

-----------------------------------------------------------------------------
Bad ==
  LET ids == IF plan.entries = <<>> THEN plan.legacy ELSE IdsOf(Named(plan.entries)) IN
    ids = <<>> \/ Contains(ids, Listlike) \/ ~IsInjective(ids)
Rightly(s, id) ==
  IF \E n \in DOMAIN plan.entries : plan.entries[n].id = id
    THEN \E n \in DOMAIN plan.entries : plan.entries[n] = [id |-> id, shard |-> s.id]
    ELSE s.id = Default
Sound(shards) ==
  /\ UNION {Range(s.instruments) : s \in shards} = Wanted
  /\ \A s, t \in shards : s # t => s.id # t.id /\ Range(s.instruments) \cap Range(t.instruments) = {}
  /\ \A s \in shards : \A id \in Range(s.instruments) : Rightly(s, id)
  /\ selection # <<WholeFeed>> => \A s \in shards : InPlace(SelectedIds, s.instruments)

LEMMA InRange == ASSUME NEW T, NEW q \in Seq(T), NEW x PROVE Contains(q, x) <=> x \in Range(q)
<1>1. DOMAIN q = 1 .. Len(q)
  BY LenProperties
<1> QED  BY <1>1 DEF Contains, Range

LEMMA EmptyRange == ASSUME NEW T, NEW q \in Seq(T), Range(q) = {} PROVE q = <<>>
<1>1. DOMAIN q = 1 .. Len(q) /\ Len(q) \in Nat
  BY LenProperties
<1>2. DOMAIN q = {}
  BY DEF Range
<1>3. Len(q) = 0
  BY <1>1, <1>2
<1> QED  BY <1>3, EmptySeq

LEMMA TwinsAreBad ==
  ASSUME PlanTypes, plan.entries # <<>>, Twins(plan.entries, NamedAt(plan.entries))
  PROVE  Bad
<1>1. plan.entries \in Seq(PlanEntry)
  BY PlanFacts
<1>2. ~IsInjective(IdsOf(Named(plan.entries)))
  BY <1>1, NamedIs
<1> QED  BY <1>2 DEF Bad

LEMMA InTwoIsBad ==
  ASSUME PlanTypes, plan.entries # <<>>, InTwo(WholePlan) \/ TwiceInOne(WholePlan)
  PROVE  Bad
<1>1. CASE InTwo(WholePlan)
  <2>1. PICK m, n \in DOMAIN plan.entries :
          /\ plan.entries[m].id = plan.entries[n].id /\ plan.entries[m].id # NoId
          /\ plan.entries[m].shard # plan.entries[n].shard
    BY <1>1, WholeIs, TwoTwins
  <2>2. Twins(plan.entries, NamedAt(plan.entries))
    BY <2>1 DEF Twins, NamedAt
  <2> QED  BY <2>2, TwinsAreBad
<1>2. CASE TwiceInOne(WholePlan)
  <2>1. PICK n \in DOMAIN plan.entries :
          Twins(plan.entries, InShardAt(plan.entries, plan.entries[n].shard) \cap NamedAt(plan.entries))
    BY <1>2, WholeIs
  <2>2. Twins(plan.entries, NamedAt(plan.entries))
    BY <2>1 DEF Twins
  <2> QED  BY <2>2, TwinsAreBad
<1> QED  BY <1>1, <1>2

LEMMA EmptyPlan ==
  ASSUME plan.entries = <<>>
  PROVE  /\ WholePlan = {ShardOf(Default, plan.legacy)} /\ SelectedPlan = {ShardOf(Default, SelectedIds)}
         /\ DOMAIN plan.entries = {}
<1>1. DOMAIN <<>> = {}
  OBVIOUS
<1> QED  BY <1>1 DEF WholePlan, SelectedPlan

LEMMA OneShard ==
  ASSUME NEW q, NEW shards, shards = {ShardOf(Default, q)}
  PROVE  /\ TwiceInOne(shards) <=> ~IsInjective(q)
         /\ ~InTwo(shards) /\ UNION {Range(s.instruments) : s \in shards} = Range(q)
<1>1. \A s \in shards : s.instruments = q
  BY ShardOfIs
<1>2. shards # {} /\ \A s, t \in shards : s = t
  OBVIOUS
<1> HIDE DEF ShardOf
<1>3. UNION {Range(s.instruments) : s \in shards} = Range(q)
  BY ONLY <1>1, <1>2
<1>4. TwiceInOne(shards) <=> ~IsInjective(q)
  BY ONLY <1>1, <1>2 DEF TwiceInOne
<1> QED  BY <1>2, <1>3, <1>4 DEF InTwo

\* What is turned down was not right.
LEMMA RefusedIsBad == ASSUME PlanTypes, ~Preflight PROVE Bad
<1> DEFINE all == UNION {Range(s.instruments) : s \in WholePlan}
<1>0. TwiceInOne(WholePlan) \/ Listlike \in all \/ all = {}
  BY DEF Preflight
<1>1. CASE plan.entries = <<>>
  <2>1. plan.legacy \in Seq(Tokens)
    BY PlanFacts
  <2>2. all = Range(plan.legacy) /\ (TwiceInOne(WholePlan) <=> ~IsInjective(plan.legacy))
    BY <1>1, EmptyPlan, OneShard
  <2>3. Listlike \in all => Contains(plan.legacy, Listlike)
    BY <2>1, <2>2, InRange
  <2>4. all = {} => plan.legacy = <<>>
    BY <2>1, <2>2, EmptyRange
  <2> HIDE DEF all
  <2> QED  BY <1>0, <1>1, <2>2, <2>3, <2>4 DEF Bad
<1>2. CASE plan.entries # <<>>
  <2>1. CASE TwiceInOne(WholePlan)
    BY <1>2, <2>1, InTwoIsBad
  <2>2. PICK ids \in Seq(EntryIds) : ids = IdsOf(Named(plan.entries))
    BY PlanFacts, NamedIs
  <2>3. \A x : x \in Range(ids) <=> \E n \in DOMAIN plan.entries : plan.entries[n].id = x /\ x # NoId
    BY <2>2, PlanFacts, NamedIs
  <2>4. LaidOut(WholePlan, plan.entries)
    BY <1>2, WholeIs
  <2>5. ASSUME NEW x PROVE x \in all <=> x \in Range(ids)
    <3>1. ASSUME NEW h \in WholePlan, x \in Range(h.instruments) PROVE x \in Range(ids)
      <4>1. \E n \in DOMAIN plan.entries : plan.entries[n].shard = h.id /\ plan.entries[n].id = x /\ x # NoId
        BY <2>4, <3>1 DEF LaidOut
      <4> QED  BY <2>3, <4>1
    <3>2. ASSUME NEW n \in DOMAIN plan.entries, plan.entries[n].id = x, x # NoId PROVE x \in all
      <4>1. PICK h \in WholePlan : h.id = plan.entries[n].shard
        BY <2>4 DEF LaidOut
      <4>2. x \in Range(h.instruments)
        BY <2>4, <3>2, <4>1 DEF LaidOut
      <4> QED  BY <4>2
    <3> QED  BY <2>3, <3>1, <3>2
  <2>6. Listlike \in all => Contains(ids, Listlike)
    BY <2>2, <2>5, InRange
  <2>7. all = {} => ids = <<>>
    BY <2>2, <2>5, EmptyRange
  <2> HIDE DEF all
  <2>8. Listlike \in all \/ all = {} => Bad
    BY <1>2, <2>2, <2>6, <2>7 DEF Bad
  <2> QED  BY <1>0, <2>1, <2>8
<1> QED  BY <1>1, <1>2

\* The shards of the whole plan are right, where no instrument is in two.
LEMMA WholeIsSound ==
  ASSUME PlanTypes, selection = <<WholeFeed>>, ~InTwo(WholePlan)
  PROVE  Sound(WholePlan)
<1>1. UNION {Range(s.instruments) : s \in WholePlan} = Wanted
  BY DEF Wanted
<1>2. ASSUME NEW s \in WholePlan, NEW t \in WholePlan, s # t
      PROVE  s.id # t.id /\ Range(s.instruments) \cap Range(t.instruments) = {}
  <2>1. Range(s.instruments) \cap Range(t.instruments) = {}
    BY <1>2 DEF InTwo
  <2>2. CASE plan.entries = <<>>
    BY <1>2, <2>2, EmptyPlan
  <2>3. CASE plan.entries # <<>>
    BY <1>2, <2>1, <2>3, WholeIs DEF LaidOut
  <2> QED  BY <2>2, <2>3
<1>3. ASSUME NEW s \in WholePlan, NEW id \in Range(s.instruments) PROVE Rightly(s, id)
  <2>1. CASE plan.entries = <<>>
    <3>1. s.id = Default /\ DOMAIN plan.entries = {}
      BY <2>1, EmptyPlan, ShardOfIs
    <3> QED  BY <3>1 DEF Rightly
  <2>2. CASE plan.entries # <<>>
    <3>1. PICK n \in DOMAIN plan.entries : plan.entries[n].shard = s.id /\ plan.entries[n].id = id
      BY <2>2, WholeIs DEF LaidOut
    <3>2. plan.entries[n] \in PlanEntry
      BY PlanFacts, LenProperties
    <3>3. plan.entries[n] = [id |-> id, shard |-> s.id]
      BY <3>1, <3>2 DEF PlanEntry
    <3> QED  BY <3>1, <3>3 DEF Rightly
  <2> QED  BY <2>1, <2>2
<1> QED  BY <1>1, <1>2, <1>3 DEF Sound

LEMMA SelectedIsSound ==
  ASSUME PlanTypes, selection # <<WholeFeed>>, Preflight, ~InTwo(SelectedPlan)
  PROVE  Sound(SelectedPlan)
<1>1. PICK selected \in Seq(Tokens) : selected = SelectedIds /\ IsInjective(selected)
  BY PlanFacts
<1>2. Wanted = Range(selected)
  BY <1>1 DEF Wanted
<1>3. CASE plan.entries = <<>>
  <2>1. SelectedPlan = {ShardOf(Default, selected)} /\ DOMAIN plan.entries = {}
    BY <1>1, <1>3, EmptyPlan
  <2>2. UNION {Range(s.instruments) : s \in SelectedPlan} = Wanted
    BY <1>2, <2>1, OneShard
  <2>3. \A s, t \in SelectedPlan : s = t
    BY <2>1
  <2>4. \A s \in SelectedPlan : s.id = Default /\ s.instruments = selected
    BY <2>1, ShardOfIs
  <2>5. \A s \in SelectedPlan : \A id \in Range(s.instruments) : Rightly(s, id)
    BY <2>1, <2>4 DEF Rightly
  <2>6. InPlace(selected, selected)
    <3>1. \A n \in DOMAIN selected : Place(selected, selected[n]) = n
      BY <1>1, PlaceIs
    <3> QED  BY <3>1 DEF InPlace
  <2> QED  BY ONLY <1>1, <2>2, <2>3, <2>4, <2>5, <2>6 DEF Sound
<1>4. CASE plan.entries # <<>>
  <2>1. ~TwiceInOne(WholePlan)
    BY DEF Preflight
  <2>2. PICK E \in Seq(PlanEntry) :
          /\ Joins(selected, E) /\ LaidOut(SelectedPlan, E)
          /\ \A h \in SelectedPlan : IsInjective(h.instruments) /\ InPlace(selected, h.instruments)
    BY <1>1, <1>4, <2>1, SelectedIs
  <2>3. ASSUME NEW n \in DOMAIN E PROVE E[n] \in PlanEntry /\ E[n].id # NoId /\ E[n].id \in Range(selected)
    <3>1. PICK k \in DOMAIN selected : E[n].id = selected[k]
      BY <2>2 DEF Joins
    <3>2. selected[k] \in Tokens /\ E[n] \in PlanEntry
      BY <1>1, <2>2, LenProperties
    <3> QED  BY <3>1, <3>2, PlanAssumption DEF Range
  <2>4. ASSUME NEW h \in SelectedPlan, NEW x \in Range(h.instruments)
        PROVE  \E n \in DOMAIN E : E[n].shard = h.id /\ E[n].id = x
    <3>1. \A g \in SelectedPlan : \A y : y \in Range(g.instruments) <=>
            \E n \in DOMAIN E : E[n].shard = g.id /\ E[n].id = y /\ y # NoId
      BY <2>2 DEF LaidOut
    <3>2. h \in SelectedPlan /\ x \in Range(h.instruments)
      OBVIOUS
    <3>3. \E n \in DOMAIN E : E[n].shard = h.id /\ E[n].id = x /\ x # NoId
      BY ONLY <3>1, <3>2
    <3> QED  BY ONLY <3>3
  <2>5. ASSUME NEW x \in Range(selected) PROVE \E h \in SelectedPlan : x \in Range(h.instruments)
    <3>1. PICK k \in DOMAIN selected : selected[k] = x
      BY DEF Range
    <3>2. PICK n \in DOMAIN E : E[n].id = x
      BY <2>2, <3>1 DEF Joins
    <3>3. PICK h \in SelectedPlan : h.id = E[n].shard
      BY <2>2 DEF LaidOut
    <3>4. x \in Range(h.instruments)
      BY <2>2, <2>3, <3>2, <3>3 DEF LaidOut
    <3> QED  BY <3>4
  <2>6. UNION {Range(s.instruments) : s \in SelectedPlan} = Wanted
    <3>1. ASSUME NEW h \in SelectedPlan, NEW x \in Range(h.instruments) PROVE x \in Range(selected)
      <4>1. PICK n \in DOMAIN E : E[n].id = x
        BY <2>4
      <4> QED  BY <2>3, <4>1
    <3> QED  BY <1>2, <2>5, <3>1
  <2>7. ASSUME NEW s \in SelectedPlan, NEW t \in SelectedPlan, s # t
        PROVE  s.id # t.id /\ Range(s.instruments) \cap Range(t.instruments) = {}
    <3>1. Range(s.instruments) \cap Range(t.instruments) = {}
      BY <2>7 DEF InTwo
    <3> QED  BY <2>2, <2>7, <3>1 DEF LaidOut
  <2>8. ASSUME NEW s \in SelectedPlan, NEW id \in Range(s.instruments) PROVE Rightly(s, id)
    <3>1. PICK n \in DOMAIN E : E[n].shard = s.id /\ E[n].id = id
      BY <2>4
    <3>2. \/ \E m \in DOMAIN plan.entries : plan.entries[m] = E[n]
          \/ E[n].shard = Default /\ \A m \in DOMAIN plan.entries : plan.entries[m].id # E[n].id
      BY <2>2 DEF Joins
    <3>3. E[n] = [id |-> id, shard |-> s.id]
      BY <2>3, <3>1 DEF PlanEntry
    <3>4. CASE \E m \in DOMAIN plan.entries : plan.entries[m] = E[n]
      BY <3>1, <3>3, <3>4 DEF Rightly
    <3>5. CASE E[n].shard = Default /\ \A m \in DOMAIN plan.entries : plan.entries[m].id # E[n].id
      BY <3>1, <3>5 DEF Rightly
    <3> QED  BY <3>2, <3>4, <3>5
  <2>9. \A s \in SelectedPlan : InPlace(SelectedIds, s.instruments)
    BY <1>1, <2>2
  <2> QED  BY ONLY <2>6, <2>7, <2>8, <2>9 DEF Sound
<1> QED  BY <1>3, <1>4

LEMMA RaisedIsBad ==
  ASSUME PlanTypes, selection # <<WholeFeed>>, Preflight, TwiceInOne(SelectedPlan) \/ InTwo(SelectedPlan)
  PROVE  Bad
<1>1. CASE plan.entries = <<>>
  <2>1. SelectedPlan = {ShardOf(Default, SelectedIds)} /\ IsInjective(SelectedIds)
    BY <1>1, EmptyPlan, PlanFacts
  <2> QED  BY <2>1, OneShard
<1>2. CASE plan.entries # <<>>
  <2>1. ~TwiceInOne(WholePlan)
    BY DEF Preflight
  <2>2. PICK E \in Seq(PlanEntry) :
          /\ Joins(SelectedIds, E) /\ LaidOut(SelectedPlan, E)
          /\ \A h \in SelectedPlan : IsInjective(h.instruments)
    BY <1>2, <2>1, SelectedIs
  <2>3. InTwo(SelectedPlan)
    BY <2>2 DEF TwiceInOne
  <2>4. PICK a, b \in DOMAIN E : E[a].id = E[b].id /\ E[a].id # NoId /\ E[a].shard # E[b].shard
    BY <2>2, <2>3, TwoTwins
  <2>5. PICK m, n \in DOMAIN E : m < n /\ E[m].id = E[n].id /\ E[m].id # NoId
    <3>1. a < b \/ b < a
      <4>1. a \in Nat /\ b \in Nat /\ a # b
        BY <2>2, <2>4, LenProperties
      <4> QED  BY <4>1
    <3> QED  BY <2>4, <3>1
  <2>6. PICK j, k \in DOMAIN plan.entries : j < k /\ plan.entries[j] = E[m] /\ plan.entries[k] = E[n]
    <3>1. \A p, q \in DOMAIN E : p < q /\ E[p].id = E[q].id =>
            \E j, k \in DOMAIN plan.entries : j < k /\ plan.entries[j] = E[p] /\ plan.entries[k] = E[q]
      BY <2>2 DEF Joins
    <3> QED  BY ONLY <2>5, <3>1
  <2>7. j # k
    <3>1. j \in Nat /\ k \in Nat
      BY PlanFacts, LenProperties
    <3> QED  BY <2>6, <3>1
  <2>8. Twins(plan.entries, NamedAt(plan.entries))
    BY <2>5, <2>6, <2>7 DEF Twins, NamedAt
  <2> QED  BY <1>2, <2>8, TwinsAreBad
<1> QED  BY <1>1, <1>2

-----------------------------------------------------------------------------
PlanInv ==
  /\ PlanTypes
  /\ DOMAIN feeds = {"status", "shards", "tracked"}
  /\ feeds.status = "built" => Sound(feeds.shards)
  /\ feeds.status \in {"refused", "raised"} => Bad

LEMMA PlanStarts == ASSUME PlanInit PROVE PlanInv
<1>1. DOMAIN feeds = {"status", "shards", "tracked"} /\ feeds.status = "none"
  BY DEF PlanInit
<1>2. PlanTypes
  BY DEF PlanInit, PlanTypes, PlanEntry
<1> QED  BY <1>1, <1>2 DEF PlanInv

LEMMA SamePlan ==
  ASSUME UNCHANGED <<plan, selection>>
  PROVE  (PlanTypes <=> PlanTypes') /\ (Bad <=> Bad') /\ \A shards : Sound(shards) <=> Sound(shards)'
<1>1. PlanTypes <=> PlanTypes'
  BY DEF PlanTypes
<1>2. Bad <=> Bad'
  BY DEF Bad
<1>3. WholePlan' = WholePlan
  BY DEF WholePlan
<1>4. SelectedIds' = SelectedIds
  BY DEF SelectedIds
<1>5. Wanted' = Wanted
  BY <1>3, <1>4 DEF Wanted
<1>6. \A shards : Sound(shards) <=> Sound(shards)'
  BY <1>4, <1>5 DEF Sound, Rightly
<1> QED  BY <1>1, <1>2, <1>6

LEMMA BuildsSoundly ==
  ASSUME PlanInv, feeds.status = "none", UNCHANGED <<plan, selection>>, NEW shards,
         IF Preflight THEN Construct(shards) ELSE Refused,
         Preflight /\ (TwiceInOne(shards) \/ InTwo(shards)) => Bad,
         Preflight /\ ~InTwo(shards) => Sound(shards)
  PROVE  PlanInv'
<1>1. PlanTypes /\ PlanTypes'
  BY SamePlan DEF PlanInv
<1>2. CASE ~Preflight
  <2>1. feeds'.status = "refused" /\ DOMAIN feeds' = {"status", "shards", "tracked"}
    BY <1>2 DEF Refused, PlanInv
  <2>2. Bad'
    BY <1>1, <1>2, RefusedIsBad, SamePlan
  <2> QED  BY <1>1, <2>1, <2>2 DEF PlanInv
<1>3. CASE Preflight /\ (TwiceInOne(shards) \/ InTwo(shards))
  <2>1. feeds'.status = "raised" /\ DOMAIN feeds' = {"status", "shards", "tracked"}
    BY <1>3 DEF Construct, PlanInv
  <2>2. Bad'
    BY <1>3, SamePlan
  <2> QED  BY <1>1, <2>1, <2>2 DEF PlanInv
<1>4. CASE Preflight /\ ~TwiceInOne(shards) /\ ~InTwo(shards)
  <2>1. feeds'.status = "built" /\ feeds'.shards = shards /\ DOMAIN feeds' = {"status", "shards", "tracked"}
    BY <1>4 DEF Construct, PlanInv
  <2>2. Sound(shards)'
    BY <1>4, SamePlan
  <2>3. Sound(feeds.shards)'
    BY <2>1, <2>2, <1>1, SamePlan
  <2> QED  BY <1>1, <2>1, <2>3 DEF PlanInv
<1> QED  BY <1>2, <1>3, <1>4

LEMMA PlanSteps == ASSUME PlanInv, [PlanNext]_planVars PROVE PlanInv'
<1>1. CASE FromSubscriptionPlan
  <2>1. PlanTypes /\ selection = <<WholeFeed>>
    BY <1>1 DEF PlanInv, FromSubscriptionPlan
  <2>2. CASE plan.entries = <<>>
    <3>1. ~InTwo(WholePlan) /\ (TwiceInOne(WholePlan) <=> ~IsInjective(plan.legacy))
      BY <2>2, EmptyPlan, OneShard
    <3>2. Preflight => ~TwiceInOne(WholePlan)
      BY DEF Preflight
    <3> QED  BY <1>1, <2>1, <3>1, <3>2, WholeIsSound, BuildsSoundly DEF FromSubscriptionPlan
  <2>3. CASE plan.entries # <<>>
    BY <1>1, <2>1, <2>3, InTwoIsBad, WholeIsSound, BuildsSoundly DEF FromSubscriptionPlan
  <2> QED  BY <2>2, <2>3
<1>2. CASE FromSelection
  <2>1. PlanTypes /\ selection # <<WholeFeed>>
    BY <1>2 DEF PlanInv, FromSelection
  <2> QED  BY <1>2, <2>1, RaisedIsBad, SelectedIsSound, BuildsSoundly DEF FromSelection
<1>3. ASSUME NEW id \in Tokens, Report(id) PROVE PlanInv'
  <2>1. UNCHANGED <<plan, selection>> /\ feeds'.status = feeds.status /\ feeds'.shards = feeds.shards
        /\ DOMAIN feeds' = {"status", "shards", "tracked"}
    BY <1>3 DEF Report, PlanInv
  <2>2. feeds.status = "built" => Sound(feeds.shards)'
    <3>1. PICK sh : sh = feeds.shards
      OBVIOUS
    <3>2. feeds.status = "built" => Sound(sh)'
      BY <2>1, <3>1, SamePlan DEF PlanInv
    <3>3. feeds'.shards = sh
      BY <2>1, <3>1
    <3> QED  BY <3>2, <3>3
  <2> QED  BY <2>1, <2>2, SamePlan DEF PlanInv
<1>4. CASE UNCHANGED planVars
  <2>1. UNCHANGED <<plan, selection>> /\ feeds' = feeds
    BY <1>4 DEF planVars
  <2>2. feeds.status = "built" => Sound(feeds.shards)'
    <3>1. PICK sh : sh = feeds.shards
      OBVIOUS
    <3>2. feeds.status = "built" => Sound(sh)'
      BY <2>1, <3>1, SamePlan DEF PlanInv
    <3>3. feeds'.shards = sh
      BY <2>1, <3>1
    <3> QED  BY <3>2, <3>3
  <2> QED  BY <2>1, <2>2, SamePlan DEF PlanInv
<1> QED  BY <1>1, <1>2, <1>3, <1>4 DEF PlanNext

LEMMA PlanTold == ASSUME PlanInv PROVE EveryPlannedBookHasAShard
<1>1. feeds.status = "built" => Sound(feeds.shards)
  BY DEF PlanInv
<1>2. feeds.status \in {"refused", "raised"} => Bad
  BY DEF PlanInv
<1> QED  BY <1>1, <1>2 DEF EveryPlannedBookHasAShard, Sound, Bad, Rightly, InPlace, Subscribed

LEMMA PlanBegins == Init => PlanInit
  BY DEF Init

LEMMA PlanGoes == [Next]_commandVars => [PlanNext]_planVars
  BY DEF commandVars, Next, Capture, RunJobs, ResolveMarkets, SuperviseShard,
    ReadVenue, ReplayTape, UseRun, IngestMarkets, PollVenue, OpenCatalog,
    ObserveShard, EmitQuotes, StreamDatasets, ResolveBatch, PlanFeed, ReadSocket,
    planVars

(***************************************************************************)
(* The counts of a shard are those of its books after any number of        *)
(* reports, although each report only adjusts them; and a plan is built    *)
(* into shards where each instrument asked for is in one, the one its      *)
(* entry names or the default, in the order of the selection, and is       *)
(* turned down only for what is wrong with it; for any instruments,        *)
(* entries, clocks and limits (supervisor.py).                             *)
(***************************************************************************)
THEOREM ShardsStayTrue == Spec => []ShardsAreTrue
<1>1. Init => SupervisorInv /\ CountsAreTrue /\ PlanInv
  BY SupervisorBegins, SupervisorStarts, CountsStart, PlanBegins, PlanStarts
<1>2. SupervisorInv /\ CountsAreTrue /\ PlanInv /\ [Next]_commandVars
        => SupervisorInv' /\ CountsAreTrue' /\ PlanInv'
  BY SupervisorGoes, SupervisorSteps, CountsStep, PlanGoes, PlanSteps
<1>3. SupervisorInv /\ CountsAreTrue /\ PlanInv => ShardsAreTrue
  BY PlanTold DEF ShardsAreTrue
<1> QED  BY <1>1, <1>2, <1>3, PTL DEF Spec

-----------------------------------------------------------------------------
(* The evidence of a capture.                                               *)

Ticks == Nat \cup {NotYet}
SourceType == [status : {"eligible", "ineligible"}, sound : BOOLEAN, at : Nat]
AttemptType ==
  [checked : Nat, established : Ticks, first : [RequestedIds -> Ticks], intact : [RequestedIds -> BOOLEAN]]
TrackerType ==
  [integrity : BOOLEAN, sources : [RequestedIds -> SourceType], attempts : Seq(AttemptType)]
NotedBook == [at : Nat, intact : BOOLEAN]
WitnessType ==
  [noted : Nat, begun : Nat, established : SUBSET Nat, books : [RequestedIds -> Seq(NotedBook)]]

\* What an attempt knows was seen since it began.
WitnessedBy(a, w) ==
  /\ a.checked = w.begun
  /\ a.established # NotYet => a.established \in w.established
  /\ \A i \in RequestedIds : a.first[i] # NotYet =>
       /\ \E n \in 1 .. Len(w.books[i]) : w.books[i][n].intact /\ w.books[i][n].at = a.first[i]
       /\ a.intact[i] = w.books[i][Len(w.books[i])].intact

Concluded == evidence.report # NoReport
EvidenceInv ==
  /\ tracker \in TrackerType /\ tick \in Nat /\ witnessed \in WitnessType
  /\ evidence = [rows |-> evidence.rows, report |-> evidence.report, read |-> evidence.read]
  /\ tracker.attempts # <<>> => WitnessedBy(tracker.attempts[Len(tracker.attempts)], witnessed)
  /\ Concluded /\ evidence.report.acceptance => \A i \in RequestedIds : Observed(i) \/ Excused(i)
  /\ Concluded /\ ~evidence.report.crashed =>
       /\ evidence.report.counts = Summary
       /\ evidence.read = "no" => evidence.rows = TerminalRows
  /\ evidence.read = "accepted" =>
       /\ Concluded
       /\ Cardinality(evidence.rows) = evidence.report.counts.rows
       /\ ~evidence.report.crashed => evidence.rows = TerminalRows

-----------------------------------------------------------------------------
(* The rows of a tracker, and what they count. *)

Tries == Len(tracker.attempts)
RowsOfLast == {r \in TerminalRows : r.attempt = Tries}

LEMMA EvidenceSizes ==
  /\ Requested \in Nat \ {0} /\ RequestedIds = 1 .. Requested /\ RequestedIds # {}
  /\ IsFiniteSet(RequestedIds) /\ Cardinality(RequestedIds) = Requested
  /\ InitialSla \in Nat /\ EligibleAge \in Nat /\ MaxTries \in Nat
<1>1. /\ Requested \in Nat \ {0} /\ RequestedIds = 1 .. Requested
      /\ InitialSla \in Nat /\ EligibleAge \in Nat /\ MaxTries \in Nat
  BY EvidenceAssumption DEF RequestedIds
<1>2. IsFiniteSet(1 .. Requested) /\ Cardinality(1 .. Requested) = Requested
  BY <1>1, FS_Interval
<1> QED  BY <1>1, <1>2

LEMMA TerminalRowIs ==
  ASSUME NEW n, NEW i
  PROVE  TerminalRow(n, i).attempt = n /\ TerminalRow(n, i).i = i
  BY DEF TerminalRow

\* One row for each attempt and instrument.
LEMMA RowsCounted ==
  ASSUME tracker \in TrackerType
  PROVE  /\ Tries \in Nat /\ IsFiniteSet(TerminalRows) /\ IsFiniteSet(RowsOfLast)
         /\ Cardinality(TerminalRows) = Tries * Cardinality(RowsOfLast)
         /\ \A i \in RequestedIds : Tries > 0 => TerminalRow(Tries, i) \in RowsOfLast
<1>1. tracker.attempts \in Seq(AttemptType) /\ Tries \in Nat /\ DOMAIN tracker.attempts = 1 .. Tries
  BY LenProperties DEF TrackerType, Tries
<1> DEFINE pairs == (1 .. Tries) \X RequestedIds
           f == [p \in pairs |-> TerminalRow(p[1], p[2])]
           g == [i \in RequestedIds |-> TerminalRow(Tries, i)]
<1>2. IsFiniteSet(1 .. Tries) /\ Cardinality(1 .. Tries) = Tries
  BY <1>1, FS_Interval
<1>3. IsFiniteSet(pairs) /\ Cardinality(pairs) = Tries * Requested
  <2> DEFINE S == 1 .. Tries
  <2>1. IsFiniteSet(S) /\ Cardinality(S) = Tries
    BY <1>2
  <2> HIDE DEF S
  <2>2. IsFiniteSet(S \X RequestedIds) /\ Cardinality(S \X RequestedIds) = Tries * Requested
    BY <2>1, EvidenceSizes, FS_Product
  <2> QED  BY <2>2 DEF S
<1>4. TerminalRows = {TerminalRow(n, i) : n \in 1 .. Tries, i \in RequestedIds}
  BY <1>1 DEF TerminalRows
<1>5. f \in Bijection(pairs, TerminalRows)
  <2>1. \A p \in pairs : f[p] \in TerminalRows
    BY <1>4
  <2>2. \A p, q \in pairs : p # q => f[p] # f[q]
    <3> SUFFICES ASSUME NEW p \in pairs, NEW q \in pairs, f[p] = f[q] PROVE p = q
      OBVIOUS
    <3>1. TerminalRow(p[1], p[2]) = TerminalRow(q[1], q[2])
      OBVIOUS
    <3>2. p[1] = q[1] /\ p[2] = q[2]
      BY <3>1, TerminalRowIs
    <3> QED  BY <3>2
  <2>3. \A r \in TerminalRows : \E p \in pairs : f[p] = r
    <3> SUFFICES ASSUME NEW n \in 1 .. Tries, NEW i \in RequestedIds
                 PROVE  \E p \in pairs : f[p] = TerminalRow(n, i)
      BY <1>4
    <3>1. <<n, i>> \in pairs /\ f[<<n, i>>] = TerminalRow(n, i)
      OBVIOUS
    <3> QED  BY <3>1
  <2>4. f \in [pairs -> TerminalRows]
    BY <2>1
  <2> HIDE DEF pairs, f
  <2> QED  BY <2>2, <2>3, <2>4, Fun_IsBij
<1>6. IsFiniteSet(TerminalRows) /\ Cardinality(TerminalRows) = Tries * Requested
  <2> HIDE DEF pairs, f
  <2>1. ExistsBijection(pairs, TerminalRows)
    BY <1>5 DEF ExistsBijection
  <2> QED  BY <1>3, <2>1, FS_Bijection
<1>7. IsFiniteSet(RowsOfLast)
  BY <1>6, FS_Subset DEF RowsOfLast
<1>8. \A i \in RequestedIds : Tries > 0 => TerminalRow(Tries, i) \in RowsOfLast
  <2> SUFFICES ASSUME NEW i \in RequestedIds, Tries > 0 PROVE TerminalRow(Tries, i) \in RowsOfLast
    OBVIOUS
  <2>1. Tries \in 1 .. Tries
    BY <1>1
  <2> QED  BY <1>4, <2>1, TerminalRowIs DEF RowsOfLast
<1>9. CASE Tries = 0
  <2>1. 1 .. Tries = {}
    BY <1>9
  <2>2. TerminalRows = {} /\ RowsOfLast = {}
    BY <1>4, <2>1 DEF RowsOfLast
  <2>3. Cardinality(TerminalRows) = 0 /\ Cardinality(RowsOfLast) = 0
    BY <2>2, FS_EmptySet
  <2> QED  BY <1>1, <1>6, <1>7, <1>8, <1>9, <2>3
<1>10. CASE Tries # 0
  <2>1. g \in Bijection(RequestedIds, RowsOfLast)
    <3>1. \A i \in RequestedIds : g[i] \in RowsOfLast
      BY <1>1, <1>8, <1>10
    <3>2. \A i, j \in RequestedIds : i # j => g[i] # g[j]
      <4> SUFFICES ASSUME NEW i \in RequestedIds, NEW j \in RequestedIds, g[i] = g[j] PROVE i = j
        OBVIOUS
      <4>1. TerminalRow(Tries, i) = TerminalRow(Tries, j)
        OBVIOUS
      <4> QED  BY <4>1, TerminalRowIs
    <3>3. \A r \in RowsOfLast : \E i \in RequestedIds : g[i] = r
      <4> SUFFICES ASSUME NEW r \in RowsOfLast PROVE \E i \in RequestedIds : g[i] = r
        OBVIOUS
      <4>1. PICK n \in 1 .. Tries, i \in RequestedIds : r = TerminalRow(n, i)
        BY <1>4 DEF RowsOfLast
      <4>2. n = Tries
        BY <4>1, TerminalRowIs DEF RowsOfLast
      <4> QED  BY <4>1, <4>2
    <3>4. g \in [RequestedIds -> RowsOfLast]
      BY <3>1
    <3> HIDE DEF g
    <3> QED  BY <3>2, <3>3, <3>4, Fun_IsBij
  <2>2. ExistsBijection(RequestedIds, RowsOfLast)
    BY <2>1 DEF ExistsBijection
  <2>3. Cardinality(RowsOfLast) = Requested
    BY <2>2, EvidenceSizes, FS_Bijection
  <2> QED  BY <1>1, <1>6, <1>7, <1>8, <2>3
<1> QED  BY <1>9, <1>10

\* What the tracker counts is what its rows count.
LEMMA SummaryIs ==
  ASSUME tracker \in TrackerType
  PROVE  Summary = SummaryOfRows(TerminalRows)
<1>1. /\ tracker.attempts \in Seq(AttemptType) /\ Tries \in Nat /\ DOMAIN tracker.attempts = 1 .. Tries
      /\ Requested \in Nat \ {0} /\ 1 \in RequestedIds
  BY LenProperties, EvidenceSizes DEF TrackerType, Tries
<1>2. TerminalRows = {TerminalRow(n, i) : n \in 1 .. Tries, i \in RequestedIds}
  BY <1>1 DEF TerminalRows
<1>3. LatestRows(TerminalRows) = RowsOfLast
  <2>1. ASSUME NEW r \in LatestRows(TerminalRows) PROVE r \in RowsOfLast
    <3>1. PICK n \in 1 .. Tries, i \in RequestedIds : r = TerminalRow(n, i)
      BY <1>2 DEF LatestRows
    <3>2. Tries \in 1 .. Tries
      BY <1>1
    <3>3. TerminalRow(Tries, i) \in TerminalRows
      BY <1>2, <3>2
    <3>4. Tries <= n
      BY <3>1, <3>3, TerminalRowIs DEF LatestRows
    <3>5. n = Tries
      BY <1>1, <3>4
    <3> QED  BY <3>1, <3>5, TerminalRowIs DEF LatestRows, RowsOfLast
  <2>2. ASSUME NEW r \in RowsOfLast PROVE r \in LatestRows(TerminalRows)
    <3>1. ASSUME NEW s \in TerminalRows PROVE s.attempt <= r.attempt
      <4>1. PICK n \in 1 .. Tries, i \in RequestedIds : s = TerminalRow(n, i)
        BY <1>2
      <4>2. s.attempt = n /\ r.attempt = Tries
        BY <4>1, TerminalRowIs DEF RowsOfLast
      <4> QED  BY <1>1, <4>2
    <3> QED  BY <3>1 DEF LatestRows, RowsOfLast
  <2> QED  BY <2>1, <2>2
<1>4. {r.attempt : r \in TerminalRows} = 1 .. Tries
  <2>1. ASSUME NEW r \in TerminalRows PROVE r.attempt \in 1 .. Tries
    BY <1>2, TerminalRowIs
  <2>2. ASSUME NEW n \in 1 .. Tries PROVE \E r \in TerminalRows : r.attempt = n
    <3>1. TerminalRow(n, 1) \in TerminalRows
      BY <1>1, <1>2
    <3> QED  BY <3>1, TerminalRowIs
  <2> QED  BY <2>1, <2>2
<1>5. Cardinality({r.attempt : r \in TerminalRows}) = Tries
  <2>1. Cardinality(1 .. Tries) = Tries
    BY <1>1, FS_Interval
  <2> QED  BY <1>4, <2>1
<1>6. {r.attempt : r \in {s \in TerminalRows : s.established}}
        = {n \in 1 .. Tries : tracker.attempts[n].established # NotYet}
  <2>0. \A n, i : TerminalRow(n, i).established = (tracker.attempts[n].established # NotYet)
    BY DEF TerminalRow
  <2>1. ASSUME NEW r \in TerminalRows, r.established
        PROVE  r.attempt \in {n \in 1 .. Tries : tracker.attempts[n].established # NotYet}
    <3>1. PICK n \in 1 .. Tries, i \in RequestedIds : r = TerminalRow(n, i)
      BY <1>2
    <3>2. tracker.attempts[n].established # NotYet
      BY <2>0, <2>1, <3>1, Zenon
    <3>3. r.attempt = n
      BY <3>1, TerminalRowIs
    <3> QED  BY <3>2, <3>3
  <2>2. ASSUME NEW n \in 1 .. Tries, tracker.attempts[n].established # NotYet
        PROVE  \E r \in TerminalRows : r.established /\ r.attempt = n
    <3>1. TerminalRow(n, 1) \in TerminalRows
      BY <1>1, <1>2
    <3> QED  BY <2>0, <2>2, <3>1, TerminalRowIs
  <2> QED  BY <2>1, <2>2
<1>7. Cardinality(TerminalRows) = Tries * Cardinality(RowsOfLast)
  BY RowsCounted
<1>8. Summary = OfLatest(RowsOfLast, Tries * Cardinality(RowsOfLast), Tries,
                         Cardinality({n \in 1 .. Tries : tracker.attempts[n].established # NotYet}))
  BY DEF Summary, Tries, RowsOfLast
<1> QED  BY <1>3, <1>5, <1>6, <1>7, <1>8 DEF SummaryOfRows

\* A capture that is complete has seen each instrument, or need not.
LEMMA CompleteHasObserved ==
  ASSUME EvidenceInv, NEW end, AcceptanceEligible(Summary, end), NEW i \in RequestedIds
  PROVE  Observed(i) \/ Excused(i)
<1>1. /\ tracker \in TrackerType /\ Tries \in Nat /\ IsFiniteSet(RowsOfLast)
      /\ \A j \in RequestedIds : Tries > 0 => TerminalRow(Tries, j) \in RowsOfLast
  BY RowsCounted DEF EvidenceInv
<1> DEFINE unknown == {r \in RowsOfLast : r.eligibility = "unknown"}
           eligible == {r \in RowsOfLast : r.eligibility = "eligible"}
           late == {r \in RowsOfLast : r.verdict = "late"}
           missing == Unexplained(RowsOfLast)
<1>2. /\ Summary.unknown = Cardinality(unknown) /\ Summary.eligible = Cardinality(eligible)
      /\ Summary.late = Cardinality(late) /\ Summary.missing = Cardinality(missing)
  BY DEF Summary, OfLatest, RowsOfLast, Tries
<1>3. ~(Summary.unknown > 0 \/ Summary.late > 0 \/ Summary.missing > 0) /\ Summary.eligible > 0
  BY DEF AcceptanceEligible, CaptureStatus
<1>4. IsFiniteSet(unknown) /\ IsFiniteSet(eligible) /\ IsFiniteSet(late) /\ IsFiniteSet(missing)
  BY <1>1, FS_Subset DEF Unexplained
<1> HIDE DEF unknown, eligible, late, missing
<1>5. unknown = {} /\ late = {} /\ missing = {} /\ eligible # {}
  <2>1. /\ Cardinality(unknown) \in Nat /\ Cardinality(late) \in Nat /\ Cardinality(missing) \in Nat
    BY <1>4, FS_CardinalityType
  <2>2. Cardinality(unknown) = 0 /\ Cardinality(late) = 0 /\ Cardinality(missing) = 0
    BY <1>2, <1>3, <2>1
  <2>3. Cardinality(eligible) # 0
    BY <1>2, <1>3
  <2> QED  BY <1>4, <2>2, <2>3, FS_EmptySet
<1>6. Tries > 0
  <2>1. PICK r : r \in RowsOfLast
    BY <1>5 DEF eligible
  <2>2. DOMAIN tracker.attempts = 1 .. Tries
    BY <1>1, LenProperties DEF TrackerType, Tries
  <2>3. 1 .. Tries # {}
    BY <2>1, <2>2 DEF RowsOfLast, TerminalRows
  <2> QED  BY <1>1, <2>3
<1> DEFINE a == tracker.attempts[Tries]
           row == TerminalRow(Tries, i)
<1>7. row \in RowsOfLast
  BY <1>1, <1>6
<1>8. /\ row.eligibility = Eligibility(i, a.checked) /\ row.verdict = Verdict(a, i)[1]
      /\ row.outcome = Outcome(a, i)
  BY DEF TerminalRow
<1>9. /\ Eligibility(i, a.checked) # "unknown" /\ Verdict(a, i)[1] # "late"
      /\ Eligibility(i, a.checked) # "ineligible" =>
           Outcome(a, i) \notin {"missing", "not_established", "integrity_failed"}
  BY <1>5, <1>7, <1>8 DEF unknown, late, missing, Unexplained
<1>10. a \in AttemptType /\ WitnessedBy(a, witnessed)
  <2>1. tracker.attempts \in Seq(AttemptType) /\ Tries \in 1 .. Tries /\ tracker.attempts # <<>>
    BY <1>1, <1>6, EmptySeq DEF TrackerType, Tries
  <2>2. a \in AttemptType
    BY <2>1, ElementOfSeq DEF Tries
  <2> QED  BY <2>1, <2>2 DEF EvidenceInv, Tries
<1> HIDE DEF a, row
<1>11. CASE Eligibility(i, a.checked) = "ineligible"
  <2>1. tracker.sources[i] \in SourceType /\ a.checked = witnessed.begun /\ a.checked \in Nat
    BY <1>1, <1>10 DEF TrackerType, AttemptType, WitnessedBy
  <2>2. /\ tracker.sources[i].sound /\ a.checked - tracker.sources[i].at <= EligibleAge
        /\ tracker.sources[i].status = "ineligible"
    BY <1>11, <2>1 DEF Eligibility, SourceType
  <2>3. witnessed.begun <= tracker.sources[i].at + EligibleAge
    BY <2>1, <2>2, EvidenceSizes DEF SourceType
  <2> QED  BY <2>2, <2>3 DEF Excused
<1>12. CASE Eligibility(i, a.checked) # "ineligible"
  <2>1. Outcome(a, i) \notin {"missing", "not_established", "integrity_failed"}
    BY <1>9, <1>12
  <2>2. Outcome(a, i) = Verdict(a, i)[2] /\ (tracker.integrity => a.first[i] = NotYet \/ a.intact[i])
    BY <2>1 DEF Outcome
  <2>3. a.established # NotYet /\ a.first[i] # NotYet /\ ~(Later(a.established, a.first[i]) > InitialSla)
    BY <1>9, <1>12, <2>1, <2>2 DEF Verdict
  <2>4. a.established \in Nat /\ a.first[i] \in Nat
    BY <1>10, <2>3 DEF AttemptType, Ticks
  <2>5. a.first[i] <= a.established + InitialSla
    BY <2>3, <2>4, EvidenceSizes DEF Later
  <2>6. /\ a.established \in witnessed.established
        /\ \E n \in 1 .. Len(witnessed.books[i]) :
             witnessed.books[i][n].intact /\ witnessed.books[i][n].at = a.first[i]
        /\ a.intact[i] = witnessed.books[i][Len(witnessed.books[i])].intact
    BY <1>10, <2>3 DEF WitnessedBy
  <2>7. DOMAIN witnessed.books[i] = 1 .. Len(witnessed.books[i])
    BY LenProperties DEF EvidenceInv, WitnessType
  <2>8. tracker.integrity => witnessed.books[i][Len(witnessed.books[i])].intact
    BY <2>2, <2>3, <2>6
  <2> QED  BY <2>5, <2>6, <2>7, <2>8 DEF Observed
<1> QED  BY <1>11, <1>12

-----------------------------------------------------------------------------
(* What each call leaves. *)

LEMMA AttemptIs ==
  ASSUME tick \in Nat
  PROVE  /\ Attempt \in AttemptType
         /\ \A n \in Nat : Begun(n) \in WitnessType /\ WitnessedBy(Attempt, Begun(n))
<1>1. Attempt \in AttemptType
  BY DEF Attempt, AttemptType, Ticks
<1>2. ASSUME NEW n \in Nat PROVE Begun(n) \in WitnessType /\ WitnessedBy(Attempt, Begun(n))
  <2>1. <<>> \in Seq(NotedBook)
    OBVIOUS
  <2>2. Begun(n) \in WitnessType
    BY <2>1 DEF Begun, WitnessType
  <2>3. WitnessedBy(Attempt, Begun(n))
    BY DEF WitnessedBy, Attempt, Begun
  <2> QED  BY <2>2, <2>3
<1> QED  BY <1>1, <1>2

AfterBook(w, i, intact) ==
  [w EXCEPT !.books[i] = Append(@, [at |-> tick, intact |-> intact]), !.noted = @ + 1]

LEMMA NotingKeeps ==
  ASSUME NEW a \in AttemptType, NEW w \in WitnessType, WitnessedBy(a, w), tick \in Nat,
         NEW i \in RequestedIds, NEW intact \in BOOLEAN
  PROVE  /\ Noting(a, i, intact) \in AttemptType /\ AfterBook(w, i, intact) \in WitnessType
         /\ WitnessedBy(Noting(a, i, intact), AfterBook(w, i, intact))
<1> DEFINE book == [at |-> tick, intact |-> intact]
           old == w.books[i]
           new == Append(old, book)
           x == IF intact /\ a.first[i] = NotYet THEN tick ELSE a.first[i]
           noted == w.noted + 1
           b == Noting(a, i, intact)
           v == AfterBook(w, i, intact)
<1>1. /\ a.first \in [RequestedIds -> Ticks] /\ a.intact \in [RequestedIds -> BOOLEAN]
      /\ a.checked \in Nat /\ a.established \in Ticks /\ x \in Ticks
      /\ a = [checked |-> a.checked, established |-> a.established, first |-> a.first, intact |-> a.intact]
  BY DEF AttemptType, Ticks
<1>2. /\ w.books \in [RequestedIds -> Seq(NotedBook)] /\ old \in Seq(NotedBook) /\ w.begun \in Nat
      /\ w.established \in SUBSET Nat /\ noted \in Nat
      /\ w = [noted |-> w.noted, begun |-> w.begun, established |-> w.established, books |-> w.books]
  BY DEF WitnessType
<1>3. book \in NotedBook /\ book.at = tick /\ book.intact = intact
  BY DEF NotedBook
<1>4. b = [checked |-> a.checked, established |-> a.established,
           first |-> [a.first EXCEPT ![i] = x], intact |-> [a.intact EXCEPT ![i] = intact]]
  <2>1. b = [a EXCEPT !.first[i] = x, !.intact[i] = intact]
    BY DEF Noting
  <2> HIDE DEF b, x
  <2> QED  BY <1>1, <2>1
<1>5. v = [noted |-> noted, begun |-> w.begun, established |-> w.established,
           books |-> [w.books EXCEPT ![i] = new]]
  <2>1. v = [w EXCEPT !.books[i] = new, !.noted = noted]
    BY DEF AfterBook
  <2> HIDE DEF v, new, noted, old
  <2> QED  BY <1>2, <2>1
<1> HIDE DEF book, b, noted, v
<1>6. /\ new \in Seq(NotedBook) /\ Len(old) \in Nat /\ Len(new) = Len(old) + 1
      /\ new[Len(old) + 1] = book /\ \A n \in 1 .. Len(old) : new[n] = old[n]
  BY <1>2, <1>3, AppendProperties, LenProperties
<1> HIDE DEF old, new, x
<1>7. b \in AttemptType
  BY <1>1, <1>4 DEF AttemptType
<1>8. v \in WitnessType
  <2>1. [w.books EXCEPT ![i] = new] \in [RequestedIds -> Seq(NotedBook)]
    BY <1>2, <1>6
  <2> QED  BY <1>2, <1>5, <2>1 DEF WitnessType
<1>9. b.checked = v.begun /\ (b.established # NotYet => b.established \in v.established)
  BY <1>4, <1>5 DEF WitnessedBy
<1>10. ASSUME NEW j \in RequestedIds, b.first[j] # NotYet
       PROVE  /\ \E n \in 1 .. Len(v.books[j]) : v.books[j][n].intact /\ v.books[j][n].at = b.first[j]
              /\ b.intact[j] = v.books[j][Len(v.books[j])].intact
  <2>1. CASE j # i
    <3>1. b.first[j] = a.first[j] /\ b.intact[j] = a.intact[j] /\ v.books[j] = w.books[j]
      BY <1>1, <1>2, <1>4, <1>5, <2>1
    <3> QED  BY <1>10, <3>1 DEF WitnessedBy
  <2>2. CASE j = i
    <3>1. b.first[j] = x /\ b.intact[j] = intact /\ v.books[j] = new
      <4>1. b.first = [a.first EXCEPT ![i] = x] /\ b.intact = [a.intact EXCEPT ![i] = intact]
        BY <1>4
      <4>2. v.books = [w.books EXCEPT ![i] = new]
        BY <1>5
      <4> QED  BY <1>1, <1>2, <2>2, <4>1, <4>2
    <3>2. new[Len(new)] = book
      BY <1>6
    <3>3. b.intact[j] = v.books[j][Len(v.books[j])].intact
      BY <1>3, <3>1, <3>2
    <3>4. \E n \in 1 .. Len(new) : new[n].intact /\ new[n].at = x
      <4>1. CASE intact /\ a.first[i] = NotYet
        <5>1. Len(old) + 1 \in 1 .. Len(new) /\ x = tick
          BY <1>6, <4>1 DEF x
        <5> QED  BY <1>3, <1>6, <4>1, <5>1
      <4>2. CASE ~(intact /\ a.first[i] = NotYet)
        <5>1. x = a.first[i] /\ a.first[i] # NotYet
          BY <1>10, <3>1, <4>2 DEF x
        <5>2. PICK n \in 1 .. Len(old) : old[n].intact /\ old[n].at = a.first[i]
          BY <5>1 DEF WitnessedBy, old
        <5>3. n \in 1 .. Len(new) /\ new[n] = old[n]
          BY <1>6
        <5> QED  BY <5>1, <5>2, <5>3
      <4> QED  BY <4>1, <4>2
    <3> QED  BY <3>1, <3>3, <3>4
  <2> QED  BY <2>1, <2>2
<1>11. WitnessedBy(b, v)
  BY <1>9, <1>10 DEF WitnessedBy
<1> QED  BY <1>7, <1>8, <1>11 DEF b, v

\* A call while the capture runs concludes nothing.
LEMMA StillCapturing ==
  ASSUME EvidenceInv, Capturing, evidence' = evidence,
         tracker' \in TrackerType, tick' \in Nat, witnessed' \in WitnessType,
         tracker'.attempts # <<>> =>
           WitnessedBy(tracker'.attempts[Len(tracker'.attempts)], witnessed')
  PROVE  EvidenceInv'
<1>1. ~Concluded' /\ evidence'.read = "no"
  BY DEF Capturing, Concluded
<1>2. evidence' = [rows |-> evidence'.rows, report |-> evidence'.report, read |-> evidence'.read]
  BY DEF EvidenceInv
<1>3. tracker'.attempts # <<>> =>
        WitnessedBy(tracker'.attempts[Len(tracker'.attempts)], witnessed')
  OBVIOUS
<1> QED  BY <1>1, <1>2, <1>3 DEF EvidenceInv, WitnessedBy

LEMMA EvidenceStarts == EvidenceInit => EvidenceInv
<1> SUFFICES ASSUME EvidenceInit PROVE EvidenceInv
  OBVIOUS
<1>1. tracker \in TrackerType /\ tracker.attempts = <<>>
  <2>1. \A s \in Sources : s \in SourceType
    <3> SUFFICES ASSUME NEW s \in Sources PROVE s \in SourceType
      OBVIOUS
    <3>1. ListedSource \in SourceType
      BY DEF ListedSource, SourceType
    <3>2. [ListedSource EXCEPT !.sound = FALSE] \in SourceType
      BY <3>1 DEF SourceType
    <3>3. [ListedSource EXCEPT !.status = "ineligible"] \in SourceType
      BY <3>1 DEF SourceType
    <3> QED  BY <3>1, <3>2, <3>3 DEF Sources
  <2>2. tracker \in [integrity : BOOLEAN, sources : [RequestedIds -> Sources], attempts : {<<>>}]
    BY DEF EvidenceInit
  <2>3. <<>> \in Seq(AttemptType)
    OBVIOUS
  <2> QED  BY <2>1, <2>2, <2>3 DEF TrackerType
<1>2. tick \in Nat /\ witnessed \in WitnessType
  BY AttemptIs DEF EvidenceInit
<1>3. /\ evidence = [rows |-> evidence.rows, report |-> evidence.report, read |-> evidence.read]
      /\ ~Concluded /\ evidence.read = "no"
  BY DEF EvidenceInit, Concluded
<1> QED  BY <1>1, <1>2, <1>3 DEF EvidenceInv

LEMMA BeginKeeps == EvidenceInv /\ BeginSubscription => EvidenceInv'
<1> SUFFICES ASSUME EvidenceInv, BeginSubscription PROVE EvidenceInv'
  OBVIOUS
<1> DEFINE more == Append(tracker.attempts, Attempt)
<1>1. tracker \in TrackerType /\ tick \in Nat /\ witnessed.noted \in Nat
  BY DEF EvidenceInv, WitnessType
<1>2. Attempt \in AttemptType /\ Begun(witnessed.noted) \in WitnessType
      /\ WitnessedBy(Attempt, Begun(witnessed.noted))
  BY <1>1, AttemptIs
<1>3. more \in Seq(AttemptType) /\ more[Len(more)] = Attempt
  BY <1>1, <1>2, AppendProperties DEF TrackerType
<1>4. tracker' = [integrity |-> tracker.integrity, sources |-> tracker.sources, attempts |-> more]
  BY <1>1 DEF BeginSubscription, TrackerType
<1> HIDE DEF more
<1>5. tracker' \in TrackerType /\ tracker'.attempts = more
  BY <1>1, <1>3, <1>4 DEF TrackerType
<1>6. witnessed' = Begun(witnessed.noted) /\ tick' = tick /\ evidence' = evidence /\ Capturing
  BY DEF BeginSubscription
<1> QED  BY <1>1, <1>2, <1>3, <1>5, <1>6, StillCapturing

LEMMA EstablishKeeps == EvidenceInv /\ Establish => EvidenceInv'
<1> SUFFICES ASSUME EvidenceInv, Establish PROVE EvidenceInv'
  OBVIOUS
<1> DEFINE a == tracker.attempts[Tries]
           b == [a EXCEPT !.established = tick]
           more == [tracker.attempts EXCEPT ![Tries] = b]
           known == witnessed.established \cup {tick}
<1>1. /\ tracker \in TrackerType /\ tracker.attempts \in Seq(AttemptType) /\ tick \in Nat
      /\ witnessed \in WitnessType /\ tracker.attempts # <<>>
  BY DEF EvidenceInv, TrackerType, Establish
<1>2. Tries \in 1 .. Tries /\ a \in AttemptType /\ WitnessedBy(a, witnessed)
  <2>1. Tries \in 1 .. Tries
    BY <1>1, EmptySeq, LenProperties DEF Tries
  <2>2. a \in AttemptType
    BY <1>1, <2>1, ElementOfSeq DEF Tries
  <2> QED  BY <1>1, <2>1, <2>2 DEF EvidenceInv, Tries
<1>3. b \in AttemptType
  BY <1>1, <1>2 DEF AttemptType, Ticks
<1>4. /\ witnessed' = [noted |-> witnessed.noted, begun |-> witnessed.begun, established |-> known,
                       books |-> witnessed.books]
      /\ witnessed' \in WitnessType
  BY <1>1 DEF Establish, WitnessType
<1>5. WitnessedBy(b, witnessed')
  <2>1. /\ b.checked = a.checked /\ b.established = tick /\ b.first = a.first /\ b.intact = a.intact
    BY <1>2 DEF AttemptType
  <2>2. /\ witnessed'.begun = witnessed.begun /\ witnessed'.books = witnessed.books
        /\ tick \in witnessed'.established
    BY <1>4
  <2> HIDE DEF b
  <2> QED  BY <1>2, <2>1, <2>2 DEF WitnessedBy
<1> HIDE DEF b
<1>6. more \in Seq(AttemptType) /\ Len(more) = Tries /\ more[Tries] = b
  BY <1>1, <1>2, <1>3, ExceptSeq, LenProperties DEF Tries
<1>7. tracker' = [integrity |-> tracker.integrity, sources |-> tracker.sources, attempts |-> more]
  BY <1>1 DEF Establish, TrackerType, Tries, b
<1> HIDE DEF more
<1>8. tracker' \in TrackerType /\ tracker'.attempts = more
  BY <1>1, <1>6, <1>7 DEF TrackerType
<1>9. tick' = tick /\ evidence' = evidence /\ Capturing
  BY DEF Establish
<1> QED  BY <1>1, <1>4, <1>5, <1>6, <1>8, <1>9, StillCapturing

LEMMA BookKeeps == EvidenceInv /\ RecordInstrumentBook => EvidenceInv'
<1> SUFFICES ASSUME EvidenceInv, RecordInstrumentBook PROVE EvidenceInv'
  OBVIOUS
<1> DEFINE some == WithAttempt(tracker.attempts)
           w == IF tracker.attempts = <<>> THEN Begun(0) ELSE witnessed
<1>1. PICK i \in RequestedIds, intact \in BOOLEAN :
        /\ tracker' = [tracker EXCEPT !.attempts = [some EXCEPT ![Len(some)] = Noting(@, i, intact)]]
        /\ witnessed' = AfterBook(w, i, intact)
  BY DEF RecordInstrumentBook, AfterBook
<1>2. /\ tracker \in TrackerType /\ tracker.attempts \in Seq(AttemptType) /\ tick \in Nat
      /\ witnessed \in WitnessType
  BY DEF EvidenceInv, TrackerType
<1>3. /\ some \in Seq(AttemptType) /\ Len(some) \in 1 .. Len(some) /\ some[Len(some)] \in AttemptType
      /\ w \in WitnessType /\ WitnessedBy(some[Len(some)], w)
  <2>1. CASE tracker.attempts = <<>>
    <3>1. some = <<Attempt>> /\ w = Begun(0)
      BY <2>1 DEF WithAttempt
    <3>2. Attempt \in AttemptType /\ Begun(0) \in WitnessType /\ WitnessedBy(Attempt, Begun(0))
      BY <1>2, AttemptIs
    <3>3. Len(<<Attempt>>) = 1 /\ <<Attempt>>[1] = Attempt /\ <<Attempt>> \in Seq(AttemptType)
      BY <3>2
    <3>4. 1 \in 1 .. 1
      OBVIOUS
    <3> QED  BY <3>1, <3>2, <3>3, <3>4
  <2>2. CASE tracker.attempts # <<>>
    <3>1. some = tracker.attempts /\ w = witnessed
      BY <2>2 DEF WithAttempt
    <3>2. Len(tracker.attempts) \in 1 .. Len(tracker.attempts)
      BY <1>2, <2>2, EmptySeq, LenProperties
    <3>3. tracker.attempts[Len(tracker.attempts)] \in AttemptType
      BY <1>2, <3>2, ElementOfSeq
    <3> QED  BY <1>2, <2>2, <3>1, <3>2, <3>3 DEF EvidenceInv
  <2> QED  BY <2>1, <2>2
<1> HIDE DEF some, w
<1> DEFINE b == Noting(some[Len(some)], i, intact)
           more == [some EXCEPT ![Len(some)] = b]
<1>4. b \in AttemptType /\ witnessed' \in WitnessType /\ WitnessedBy(b, witnessed')
  BY <1>1, <1>2, <1>3, NotingKeeps
<1>5. tracker' = [integrity |-> tracker.integrity, sources |-> tracker.sources, attempts |-> more]
  BY <1>1, <1>2 DEF TrackerType
<1> HIDE DEF b
<1>6. more \in Seq(AttemptType) /\ Len(more) = Len(some) /\ more[Len(some)] = b
  BY <1>3, <1>4, ExceptSeq, LenProperties
<1> HIDE DEF more
<1>7. tracker' \in TrackerType /\ tracker'.attempts = more
  BY <1>2, <1>5, <1>6 DEF TrackerType
<1>8. tick' = tick /\ evidence' = evidence /\ Capturing
  BY DEF RecordInstrumentBook
<1> QED  BY <1>2, <1>4, <1>6, <1>7, <1>8, StillCapturing

LEMMA CaptureTickKeeps == EvidenceInv /\ CaptureTick => EvidenceInv'
<1> SUFFICES ASSUME EvidenceInv, CaptureTick PROVE EvidenceInv'
  OBVIOUS
<1>1. tracker' = tracker /\ witnessed' = witnessed /\ evidence' = evidence /\ Capturing
  BY DEF CaptureTick
<1>2. tick' \in Nat /\ tracker \in TrackerType /\ witnessed \in WitnessType
  BY DEF CaptureTick, EvidenceInv
<1>3. tracker.attempts # <<>> => WitnessedBy(tracker.attempts[Len(tracker.attempts)], witnessed)
  BY DEF EvidenceInv
<1> QED  BY <1>1, <1>2, <1>3, StillCapturing

-----------------------------------------------------------------------------
(* The report, and its reader. *)

LEMMA FinishKeeps == EvidenceInv /\ FinishCapture => EvidenceInv'
<1> SUFFICES ASSUME EvidenceInv, FinishCapture PROVE EvidenceInv'
  OBVIOUS
<1>1. PICK end \in Endings :
        evidence' = [evidence EXCEPT !.rows = TerminalRows, !.report = Evaluate(Summary, end)]
  BY DEF FinishCapture
<1>2. tracker' = tracker /\ tick' = tick /\ witnessed' = witnessed /\ evidence.read = "no"
  BY DEF FinishCapture, Capturing
<1>3. evidence' = [rows |-> TerminalRows, report |-> Evaluate(Summary, end), read |-> "no"]
  BY <1>1, <1>2 DEF EvidenceInv
<1>4. TerminalRows' = TerminalRows /\ Summary' = Summary
  BY <1>2 DEF TerminalRows, TerminalRow, Eligibility, Verdict, Outcome, Summary
<1>5. \A i \in RequestedIds : (Observed(i) => Observed(i)') /\ (Excused(i) => Excused(i)')
  BY <1>2 DEF Observed, Excused
<1>6. evidence'.report.counts = Summary /\ evidence'.report.acceptance = AcceptanceEligible(Summary, end)
  BY <1>3 DEF Evaluate
<1>7. evidence'.report.acceptance => \A i \in RequestedIds : Observed(i)' \/ Excused(i)'
  BY <1>5, <1>6, CompleteHasObserved
<1>8. /\ evidence'.rows = TerminalRows' /\ evidence'.report.counts = Summary' /\ evidence'.read = "no"
      /\ evidence' = [rows |-> evidence'.rows, report |-> evidence'.report, read |-> evidence'.read]
  BY <1>3, <1>4, <1>6
<1>9. /\ tracker' \in TrackerType /\ tick' \in Nat /\ witnessed' \in WitnessType
      /\ tracker'.attempts # <<>> =>
           WitnessedBy(tracker'.attempts[Len(tracker'.attempts)], witnessed')
  BY <1>2 DEF EvidenceInv
<1> QED  BY <1>7, <1>8, <1>9 DEF EvidenceInv, WitnessedBy

LEMMA LoseKeeps == EvidenceInv /\ LoseProcess => EvidenceInv'
<1> SUFFICES ASSUME EvidenceInv, LoseProcess PROVE EvidenceInv'
  OBVIOUS
<1>1. PICK rows : evidence' = [evidence EXCEPT !.read = "lost", !.rows = rows]
  BY DEF LoseProcess
<1>2. /\ tracker \in TrackerType /\ tick' = tick /\ tick \in Nat /\ witnessed' = Begun(0)
      /\ tracker' = [tracker EXCEPT !.attempts = <<>>] /\ evidence.report = NoReport
  BY DEF EvidenceInv, LoseProcess, Capturing
<1>3. evidence' = [rows |-> rows, report |-> evidence.report, read |-> "lost"]
  BY <1>1 DEF EvidenceInv
<1>4. ~Concluded' /\ evidence'.read = "lost"
  BY <1>2, <1>3 DEF Concluded
<1>5. tracker' \in TrackerType /\ tracker'.attempts = <<>>
  <2>1. tracker' = [integrity |-> tracker.integrity, sources |-> tracker.sources, attempts |-> <<>>]
    BY <1>2 DEF TrackerType
  <2>2. <<>> \in Seq(AttemptType)
    OBVIOUS
  <2> QED  BY <1>2, <2>1, <2>2 DEF TrackerType
<1>6. witnessed' \in WitnessType /\ tick' \in Nat
  BY <1>2, AttemptIs
<1>7. evidence' = [rows |-> evidence'.rows, report |-> evidence'.report, read |-> evidence'.read]
  BY <1>3
<1> QED  BY <1>4, <1>5, <1>6, <1>7 DEF EvidenceInv

LEMMA RecoverKeeps == EvidenceInv /\ RecoverEvidence => EvidenceInv'
<1> SUFFICES ASSUME EvidenceInv, RecoverEvidence PROVE EvidenceInv'
  OBVIOUS
<1>1. /\ tracker' = tracker /\ tick' = tick /\ witnessed' = witnessed
      /\ \E report : /\ report.crashed = TRUE /\ report.acceptance = FALSE
                     /\ evidence' = [evidence EXCEPT !.read = "no", !.report = report]
  BY DEF RecoverEvidence
<1>2. /\ evidence'.report.crashed = TRUE /\ evidence'.report.acceptance = FALSE /\ evidence'.read = "no"
      /\ evidence' = [rows |-> evidence'.rows, report |-> evidence'.report, read |-> evidence'.read]
  BY <1>1 DEF EvidenceInv
<1>3. /\ tracker' \in TrackerType /\ tick' \in Nat /\ witnessed' \in WitnessType
      /\ tracker'.attempts # <<>> =>
           WitnessedBy(tracker'.attempts[Len(tracker'.attempts)], witnessed')
  BY <1>1 DEF EvidenceInv
<1> QED  BY <1>2, <1>3 DEF EvidenceInv, WitnessedBy

LEMMA ReadKeeps == EvidenceInv /\ ReadEvidence => EvidenceInv'
<1> SUFFICES ASSUME EvidenceInv, ReadEvidence PROVE EvidenceInv'
  OBVIOUS
<1>1. PICK gone : /\ Concluded /\ evidence.read = "no"
                  /\ evidence' = IF Reconciles(evidence.rows \ gone, evidence.report)
                                   THEN [evidence EXCEPT !.rows = @ \ gone, !.read = "accepted"]
                                   ELSE [rows |-> {}, report |-> NoReport, read |-> "refused"]
  BY DEF ReadEvidence, Concluded
<1>2. tracker' = tracker /\ tick' = tick /\ witnessed' = witnessed
  BY DEF ReadEvidence
<1>3. TerminalRows' = TerminalRows /\ Summary' = Summary
  BY <1>2 DEF TerminalRows, TerminalRow, Eligibility, Verdict, Outcome, Summary
<1>4. \A i \in RequestedIds : (Observed(i) => Observed(i)') /\ (Excused(i) => Excused(i)')
  BY <1>2 DEF Observed, Excused
<1>5. /\ tracker' \in TrackerType /\ tick' \in Nat /\ witnessed' \in WitnessType
      /\ tracker'.attempts # <<>> =>
           WitnessedBy(tracker'.attempts[Len(tracker'.attempts)], witnessed')
  BY <1>2 DEF EvidenceInv
<1>6. CASE Reconciles(evidence.rows \ gone, evidence.report)
  <2>1. evidence' = [rows |-> evidence.rows \ gone, report |-> evidence.report, read |-> "accepted"]
    BY <1>1, <1>6 DEF EvidenceInv
  <2>2. Concluded' /\ evidence'.report = evidence.report /\ evidence'.read = "accepted"
    BY <1>1, <2>1 DEF Concluded
  <2>3. Cardinality(evidence'.rows) = evidence'.report.counts.rows
    <3>1. \A rows : SummaryOfRows(rows).rows = Cardinality(rows)
      BY DEF SummaryOfRows, OfLatest
    <3>2. evidence.report.counts = SummaryOfRows(evidence.rows \ gone)
      BY <1>6 DEF Reconciles
    <3> HIDE DEF SummaryOfRows
    <3> QED  BY <2>1, <3>1, <3>2
  <2>4. ASSUME ~evidence.report.crashed PROVE evidence'.rows = TerminalRows
    <3>1. evidence.rows = TerminalRows /\ evidence.report.counts = Summary
      BY <1>1, <2>4 DEF EvidenceInv
    <3>2. IsFiniteSet(TerminalRows) /\ Summary.rows = Cardinality(TerminalRows)
      BY RowsCounted, SummaryIs DEF EvidenceInv, SummaryOfRows, OfLatest
    <3>3. evidence'.rows \subseteq TerminalRows /\ Cardinality(evidence'.rows) = Cardinality(TerminalRows)
      BY <2>1, <2>2, <2>3, <3>1, <3>2
    <3> QED  BY <3>2, <3>3, FS_Subset
  <2>5. evidence.report.acceptance => \A i \in RequestedIds : Observed(i)' \/ Excused(i)'
    BY <1>1, <1>4 DEF EvidenceInv
  <2>6. ~evidence.report.crashed => evidence.report.counts = Summary
    BY <1>1 DEF EvidenceInv
  <2>7. evidence' = [rows |-> evidence'.rows, report |-> evidence'.report, read |-> evidence'.read]
    BY <2>1
  <2> QED  BY <1>3, <1>5, <2>2, <2>3, <2>4, <2>5, <2>6, <2>7 DEF EvidenceInv, WitnessedBy
<1>7. CASE ~Reconciles(evidence.rows \ gone, evidence.report)
  <2>1. evidence' = [rows |-> {}, report |-> NoReport, read |-> "refused"]
    BY <1>1, <1>7
  <2>2. ~Concluded' /\ evidence'.read = "refused"
        /\ evidence' = [rows |-> evidence'.rows, report |-> evidence'.report, read |-> evidence'.read]
    BY <2>1 DEF Concluded, NoReport
  <2> QED  BY <1>5, <2>2 DEF EvidenceInv, WitnessedBy
<1> QED  BY <1>6, <1>7

LEMMA EvidenceSteps == EvidenceInv /\ [CaptureEvidenceNext]_evidenceVars => EvidenceInv'
<1> SUFFICES ASSUME EvidenceInv, [CaptureEvidenceNext]_evidenceVars PROVE EvidenceInv'
  OBVIOUS
<1>1. CASE CaptureEvidenceNext
  BY <1>1, BeginKeeps, EstablishKeeps, BookKeeps, CaptureTickKeeps, FinishKeeps, LoseKeeps, RecoverKeeps,
     ReadKeeps DEF CaptureEvidenceNext
<1>2. CASE UNCHANGED evidenceVars
  <2>1. tracker' = tracker /\ tick' = tick /\ witnessed' = witnessed /\ evidence' = evidence
    BY <1>2 DEF evidenceVars
  <2>2. TerminalRows' = TerminalRows /\ Summary' = Summary
    BY <2>1 DEF TerminalRows, TerminalRow, Eligibility, Verdict, Outcome, Summary
  <2>3. \A i \in RequestedIds : (Observed(i) => Observed(i)') /\ (Excused(i) => Excused(i)')
    BY <2>1 DEF Observed, Excused
  <2> QED  BY <2>1, <2>2, <2>3 DEF EvidenceInv, WitnessedBy, Concluded
<1> QED  BY <1>1, <1>2

LEMMA EvidenceTold == EvidenceInv => EvidenceIsHonest
<1> SUFFICES ASSUME EvidenceInv PROVE EvidenceIsHonest
  OBVIOUS
<1>1. Summary = SummaryOfRows(TerminalRows)
  BY SummaryIs DEF EvidenceInv
<1> QED  BY <1>1 DEF EvidenceInv, Concluded, EvidenceIsHonest

LEMMA EvidenceBegins == Init => EvidenceInit
  BY DEF Init

LEMMA EvidenceGoes == [Next]_commandVars => [CaptureEvidenceNext]_evidenceVars
  BY DEF commandVars, Next, Capture, RunJobs, ResolveMarkets, SuperviseShard,
    ReadVenue, ReplayTape, UseRun, IngestMarkets, PollVenue, OpenCatalog,
    ObserveShard, EmitQuotes, StreamDatasets, ResolveBatch, PlanFeed, ReadSocket,
    evidenceVars

(***************************************************************************)
(* A report that would be accepted means that each requested instrument    *)
(* was observed in time or excused; the counts of the tracker are those of *)
(* its rows; and a reader that accepts a manifest has every row it counts; *)
(* for any instruments, attempts, clock and limits (capture_evidence.py).  *)
(***************************************************************************)
THEOREM ReportsAreHonest == Spec => []EvidenceIsHonest
<1>1. Init => EvidenceInv
  BY EvidenceBegins, EvidenceStarts
<1>2. EvidenceInv /\ [Next]_commandVars => EvidenceInv'
  BY EvidenceGoes, EvidenceSteps
<1> QED  BY <1>1, <1>2, EvidenceTold, PTL DEF Spec

-----------------------------------------------------------------------------
(* The quotes of a stream.                                                  *)

EmittedRows == [role : {"main", "checkpoint"}, print : Fingerprints, received : Int]

\* The main row that row n of a sequence restates, or is: the last one not behind it.
RestatesMain(rows, m, n) ==
  /\ m \in 1 .. n /\ rows[m].role = "main" /\ rows[m].print = rows[n].print
  /\ \A k \in 1 .. n : rows[k].role = "main" => k <= m

EmissionInv ==
  /\ quote \in [print : Fingerprints \cup {Unseen}, checkpoint : Nat, last : Int]
  /\ stored \in Seq(EmittedRows) /\ mono \in Nat
  /\ \A n \in 1 .. Len(stored) : stored[n].received <= quote.last
  /\ \A m, n \in 1 .. Len(stored) : m < n => stored[m].received < stored[n].received
  /\ \A n \in 1 .. Len(stored) : \E m \in 1 .. n : RestatesMain(stored, m, n)
  /\ quote.print # Unseen => stored # <<>> /\ stored[Len(stored)].print = quote.print
  /\ quote.print = Unseen => stored = <<>>

LEMMA EmissionStarts == EmissionInit => EmissionInv
  BY DEF EmissionInit, EmissionInv

\* A row of the main role has a receive time of its own.
LEMMA MainTimeIs ==
  ASSUME EmissionInv, NEW received \in Int
  PROVE  MainTime(received) \in Int /\ MainTime(received) > quote.last
<1>1. quote.last \in Int /\ Len(stored) \in Nat /\ DOMAIN stored = 1 .. Len(stored)
  BY LenProperties DEF EmissionInv
<1>2. CASE received > quote.last
  BY <1>1, <1>2 DEF MainTime
<1>3. CASE ~(received > quote.last)
  <2> DEFINE r == quote.last + 1
             fits(t) == t \notin Keys /\ \A u \in r .. t - 1 : u \in Keys
  <2>1. r \in Int /\ r > quote.last /\ r \in r .. r + Len(stored)
    BY <1>1
  <2>2. \A k \in Keys : k <= quote.last
    BY <1>1 DEF Keys, EmissionInv
  <2>3. r \notin Keys
    BY <1>1, <2>2
  <2> HIDE DEF r
  <2>4. fits(r)
    BY <2>1, <2>3
  <2>5. \A t \in r .. r + Len(stored) : fits(t) => t = r
    <3> SUFFICES ASSUME NEW t \in r .. r + Len(stored), fits(t), t # r PROVE FALSE
      OBVIOUS
    <3>1. r \in r .. t - 1
      BY <1>1, <2>1
    <3> QED  BY <2>3, <3>1
  <2>6. TakenLater(r) = CHOOSE t \in r .. r + Len(stored) : fits(t)
    BY DEF TakenLater
  <2> HIDE DEF fits
  <2>7. (CHOOSE t \in r .. r + Len(stored) : fits(t)) = r
    BY <2>1, <2>4, <2>5
  <2>8. MainTime(received) = TakenLater(r)
    BY <1>3 DEF MainTime, r
  <2> QED  BY <2>1, <2>6, <2>7, <2>8
<1> QED  BY <1>2, <1>3

LEMMA StoreStep ==
  ASSUME EmissionInv, NEW role \in {"main", "checkpoint"}, NEW print \in Fingerprints,
         NEW received \in Int, received > quote.last,
         role = "checkpoint" => print = quote.print,
         Store(role, print, received), UNCHANGED mono
  PROVE  EmissionInv'
<1> DEFINE row == [role |-> role, print |-> print, received |-> received]
           n == Len(stored)
<1>1. /\ stored \in Seq(EmittedRows) /\ n \in Nat /\ DOMAIN stored = 1 .. n /\ mono \in Nat
      /\ quote.last \in Int
  BY LenProperties DEF EmissionInv
<1>2. row \in EmittedRows /\ stored' = Append(stored, row)
  BY DEF EmittedRows, Store
<1>3. quote' = [print |-> print, checkpoint |-> mono, last |-> received]
  BY DEF Store
<1>4. row.role = role /\ row.print = print /\ row.received = received
  OBVIOUS
<1> HIDE DEF row, n
<1>5. /\ stored' \in Seq(EmittedRows) /\ Len(stored') = n + 1 /\ stored'[n + 1] = row
      /\ \A k \in 1 .. n : stored'[k] = stored[k]
  BY <1>1, <1>2, AppendProperties DEF n
<1>6. \A k \in 1 .. n : stored[k].received \in Int /\ stored[k].received <= quote.last
  <2>1. \A k \in 1 .. n : stored[k] \in EmittedRows
    BY <1>1, ElementOfSeq DEF n
  <2> QED  BY <2>1 DEF EmissionInv, EmittedRows, n
<1>7. \A k \in 1 .. n + 1 : k \in 1 .. n \/ k = n + 1
  BY <1>1
<1>8. \A k \in 1 .. n + 1 : stored'[k].received <= received
  BY <1>1, <1>4, <1>5, <1>6, <1>7
<1>9. ASSUME NEW j \in 1 .. n + 1, NEW k \in 1 .. n + 1, j < k
      PROVE  stored'[j].received < stored'[k].received
  <2>1. j \in 1 .. n
    BY <1>1, <1>9
  <2>2. CASE k \in 1 .. n
    BY <1>5, <1>9, <2>1, <2>2 DEF EmissionInv, n
  <2>3. CASE k = n + 1
    BY <1>1, <1>4, <1>5, <1>6, <2>1, <2>3
  <2> QED  BY <1>7, <2>2, <2>3
<1>10. ASSUME NEW k \in 1 .. n PROVE \E m \in 1 .. k : RestatesMain(stored', m, k)
  <2>1. PICK m \in 1 .. k : RestatesMain(stored, m, k)
    BY <1>10 DEF EmissionInv, n
  <2>2. \A j \in 1 .. k : j \in 1 .. n
    BY <1>1, <1>10
  <2> QED  BY <1>5, <2>1, <2>2 DEF RestatesMain
<1>11. \E m \in 1 .. n + 1 : RestatesMain(stored', m, n + 1)
  <2>1. CASE role = "main"
    <3>1. n + 1 \in 1 .. n + 1 /\ \A k \in 1 .. n + 1 : k <= n + 1
      BY <1>1
    <3>2. RestatesMain(stored', n + 1, n + 1)
      BY <1>4, <1>5, <2>1, <3>1 DEF RestatesMain
    <3> QED  BY <3>1, <3>2
  <2>2. CASE role = "checkpoint"
    <3>1. print = quote.print /\ quote.print # Unseen
      BY <2>2, EmissionAssumption DEF Unseen
    <3>2. stored # <<>> /\ stored[n].print = print /\ n \in 1 .. n
      BY <1>1, <3>1, EmptySeq DEF EmissionInv, n
    <3>3. PICK m \in 1 .. n : RestatesMain(stored, m, n)
      BY <3>2 DEF EmissionInv, n
    <3>4. m \in 1 .. n + 1
      BY <1>1
    <3>5. \A k \in 1 .. n + 1 : stored'[k].role = "main" => k <= m
      BY <1>4, <1>5, <1>7, <2>2, <3>3 DEF RestatesMain
    <3>6. RestatesMain(stored', m, n + 1)
      BY <1>4, <1>5, <3>2, <3>3, <3>4, <3>5 DEF RestatesMain
    <3> QED  BY <3>4, <3>6
  <2> QED  BY <2>1, <2>2
<1>12. /\ quote' \in [print : Fingerprints \cup {Unseen}, checkpoint : Nat, last : Int]
       /\ quote'.print = print /\ quote'.last = received /\ print # Unseen
  BY <1>1, <1>3, EmissionAssumption DEF Unseen
<1>13. stored' # <<>> /\ stored'[Len(stored')].print = print
  BY <1>1, <1>4, <1>5, EmptySeq
<1> QED
  BY <1>1, <1>5, <1>7, <1>8, <1>9, <1>10, <1>11, <1>12, <1>13 DEF EmissionInv

LEMMA ObserveStep ==
  ASSUME EmissionInv, NEW print \in Fingerprints, NEW received \in 0 .. LastReceived,
         NEW asked \in BOOLEAN, NEW dense \in BOOLEAN,
         Observe(print, received, asked, dense), UNCHANGED mono
  PROVE  EmissionInv'
<1>1. received \in Int
  BY EmissionAssumption
<1>2. CASE print # quote.print \/ dense
  <2>1. Store("main", print, MainTime(received))
    BY <1>2 DEF Observe
  <2>2. MainTime(received) \in Int /\ MainTime(received) > quote.last
    BY <1>1, MainTimeIs
  <2> QED  BY <2>1, <2>2, StoreStep
<1>3. CASE /\ ~(print # quote.print \/ dense)
           /\ (asked \/ RestatementDue) /\ received > quote.last /\ received \notin Keys
  <2>1. Store("checkpoint", print, received) /\ print = quote.print
    BY <1>3 DEF Observe
  <2> QED  BY <1>1, <1>3, <2>1, StoreStep
<1>4. CASE quote' = quote /\ stored' = stored
  BY <1>4 DEF EmissionInv
<1> QED  BY <1>2, <1>3, <1>4 DEF Observe

LEMMA EmissionSteps == EmissionInv /\ [EmissionNext]_emissionVars => EmissionInv'
<1> SUFFICES ASSUME EmissionInv, [EmissionNext]_emissionVars PROVE EmissionInv'
  OBVIOUS
<1>1. quote.print # Unseen => quote.print \in Fingerprints
  BY DEF EmissionInv
<1>2. CASE UNCHANGED emissionVars
  BY <1>2 DEF emissionVars, EmissionInv
<1>3. CASE ObserveRow
  BY <1>3, ObserveStep DEF ObserveRow
<1>4. CASE RestateWhenDue
  BY <1>1, <1>4, ObserveStep DEF RestateWhenDue
<1>5. CASE RestateAtBoundary
  BY <1>1, <1>5, ObserveStep DEF RestateAtBoundary
<1>6. CASE Elapse
  BY <1>6 DEF Elapse, EmissionInv
<1> QED  BY <1>2, <1>3, <1>4, <1>5, <1>6 DEF EmissionNext

LEMMA EmissionTold == EmissionInv => EmissionReplays
<1> SUFFICES ASSUME EmissionInv PROVE EmissionReplays
  OBVIOUS
<1>1. Len(stored) \in Nat /\ DOMAIN stored = 1 .. Len(stored)
  BY LenProperties DEF EmissionInv
<1>2. ASSUME NEW n \in 1 .. Len(stored)
      PROVE  stored[CHOOSE m \in Mains(n) : \A k \in Mains(n) : k <= m].print = stored[n].print
  <2>1. PICK m \in 1 .. n : RestatesMain(stored, m, n)
    BY DEF EmissionInv
  <2>2. Mains(n) \subseteq Nat /\ m \in Mains(n) /\ \A k \in Mains(n) : k <= m
    BY <2>1 DEF Mains, RestatesMain
  <2>3. \A j \in Mains(n) : (\A k \in Mains(n) : k <= j) => j = m
    BY <2>2
  <2>4. (CHOOSE j \in Mains(n) : \A k \in Mains(n) : k <= j) = m
    BY <2>2, <2>3
  <2> QED  BY <2>1, <2>4 DEF RestatesMain
<1>3. stored # <<>> => stored[Len(stored)].print = quote.print
  BY DEF EmissionInv
<1>4. \A m, n \in 1 .. Len(stored) : m < n => stored[m].received < stored[n].received
  BY DEF EmissionInv
<1> QED  BY <1>1, <1>2, <1>3, <1>4 DEF EmissionReplays

LEMMA EmissionBegins == Init => EmissionInit
  BY DEF Init

LEMMA EmissionGoes == [Next]_commandVars => [EmissionNext]_emissionVars
  BY DEF commandVars, Next, Capture, RunJobs, ResolveMarkets, SuperviseShard,
    ReadVenue, ReplayTape, UseRun, IngestMarkets, PollVenue, OpenCatalog,
    ObserveShard, EmitQuotes, StreamDatasets, ResolveBatch, PlanFeed, ReadSocket,
    emissionVars

(***************************************************************************)
(* The rows of an instrument, read in the order of their receive times,    *)
(* give at each row the quote that was in force: times are strictly        *)
(* increasing and a checkpoint restates the last main row, for any quotes  *)
(* and any clock (the first half of StreamRowsAreKept).                    *)
(***************************************************************************)
THEOREM QuotesReplay == Spec => []EmissionReplays
<1>1. Init => EmissionInv
  BY EmissionBegins, EmissionStarts
<1>2. EmissionInv /\ [Next]_commandVars => EmissionInv'
  BY EmissionGoes, EmissionSteps
<1> QED  BY <1>1, <1>2, EmissionTold, PTL DEF Spec

-----------------------------------------------------------------------------
(* The sinks of a streaming run.                                            *)

Rising(q) == \A i, j \in DOMAIN q : i < j => q[i] < q[j]

\* Of two sequences joined.
LEMMA JoinedRange ==
  ASSUME NEW s \in Seq(Nat), NEW t \in Seq(Nat)
  PROVE  s \o t \in Seq(Nat) /\ Range(s \o t) = Range(s) \cup Range(t)
<1>1. s \o t \in Seq(Nat) /\ Len(s \o t) = Len(s) + Len(t)
  OBVIOUS
<1>2. /\ \A i \in 1 .. Len(s) : (s \o t)[i] = s[i]
      /\ \A i \in 1 .. Len(t) : (s \o t)[Len(s) + i] = t[i]
  OBVIOUS
<1>3. DOMAIN s = 1 .. Len(s) /\ DOMAIN t = 1 .. Len(t) /\ DOMAIN (s \o t) = 1 .. Len(s) + Len(t)
      /\ Len(s) \in Nat /\ Len(t) \in Nat
  OBVIOUS
<1>4. \A i \in 1 .. Len(s) + Len(t) : (s \o t)[i] \in Range(s) \cup Range(t)
  <2> SUFFICES ASSUME NEW i \in 1 .. Len(s) + Len(t) PROVE (s \o t)[i] \in Range(s) \cup Range(t)
    OBVIOUS
  <2>1. CASE i \in 1 .. Len(s)
    BY <1>2, <1>3, <2>1 DEF Range
  <2>2. CASE i \notin 1 .. Len(s)
    <3>1. i - Len(s) \in 1 .. Len(t) /\ Len(s) + (i - Len(s)) = i
      BY <1>3, <2>2
    <3> QED  BY <1>2, <1>3, <3>1 DEF Range
  <2> QED  BY <2>1, <2>2
<1>5. Range(s) \subseteq Range(s \o t)
  BY <1>2, <1>3 DEF Range
<1>6. Range(t) \subseteq Range(s \o t)
  <2> SUFFICES ASSUME NEW i \in 1 .. Len(t) PROVE t[i] \in Range(s \o t)
    BY <1>3 DEF Range
  <2>1. Len(s) + i \in 1 .. Len(s) + Len(t)
    BY <1>3
  <2> QED  BY <1>2, <1>3, <2>1 DEF Range
<1> QED  BY <1>1, <1>3, <1>4, <1>5, <1>6 DEF Range

LEMMA JoinedRises ==
  ASSUME NEW s \in Seq(Nat), NEW t \in Seq(Nat)
  PROVE  Rising(s \o t) <=> /\ Rising(s) /\ Rising(t)
                            /\ \A a \in Range(s), b \in Range(t) : a < b
<1>2. /\ \A i \in 1 .. Len(s) : (s \o t)[i] = s[i]
      /\ \A i \in 1 .. Len(t) : (s \o t)[Len(s) + i] = t[i]
  OBVIOUS
<1>3. DOMAIN s = 1 .. Len(s) /\ DOMAIN t = 1 .. Len(t) /\ DOMAIN (s \o t) = 1 .. Len(s) + Len(t)
      /\ Len(s) \in Nat /\ Len(t) \in Nat
  OBVIOUS
<1> DEFINE q == s \o t
<1>4. \A i \in 1 .. Len(s) : i \in DOMAIN q /\ q[i] = s[i]
  BY <1>2, <1>3
<1>5. \A i \in 1 .. Len(t) : Len(s) + i \in DOMAIN q /\ q[Len(s) + i] = t[i]
  BY <1>2, <1>3
<1>6. \A i \in DOMAIN q : i \in 1 .. Len(s) \/ \E k \in 1 .. Len(t) : i = Len(s) + k
  <2> SUFFICES ASSUME NEW i \in 1 .. Len(s) + Len(t), i \notin 1 .. Len(s)
               PROVE  \E k \in 1 .. Len(t) : i = Len(s) + k
    BY <1>3
  <2>1. i - Len(s) \in 1 .. Len(t) /\ i = Len(s) + (i - Len(s))
    BY <1>3
  <2> QED  BY <2>1
<1> HIDE DEF q
<1>7. ASSUME Rising(q) PROVE Rising(s) /\ Rising(t) /\ \A a \in Range(s), b \in Range(t) : a < b
  <2>1. Rising(s)
    BY <1>3, <1>4, <1>7 DEF Rising
  <2>2. Rising(t)
    <3> SUFFICES ASSUME NEW i \in 1 .. Len(t), NEW j \in 1 .. Len(t), i < j PROVE t[i] < t[j]
      BY <1>3 DEF Rising
    <3>1. Len(s) + i < Len(s) + j
      BY <1>3
    <3> QED  BY <1>5, <1>7, <3>1 DEF Rising
  <2>3. ASSUME NEW i \in 1 .. Len(s), NEW j \in 1 .. Len(t) PROVE s[i] < t[j]
    <3>1. i < Len(s) + j
      BY <1>3
    <3> QED  BY <1>4, <1>5, <1>7, <3>1 DEF Rising
  <2> QED  BY <1>3, <2>1, <2>2, <2>3 DEF Range
<1>8. ASSUME Rising(s), Rising(t), \A a \in Range(s), b \in Range(t) : a < b PROVE Rising(q)
  <2> SUFFICES ASSUME NEW i \in DOMAIN q, NEW j \in DOMAIN q, i < j PROVE q[i] < q[j]
    BY DEF Rising
  <2>1. CASE i \in 1 .. Len(s) /\ j \in 1 .. Len(s)
    BY <1>3, <1>4, <1>8, <2>1 DEF Rising
  <2>2. CASE i \in 1 .. Len(s) /\ j \notin 1 .. Len(s)
    <3>1. PICK k \in 1 .. Len(t) : j = Len(s) + k
      BY <1>6, <2>2
    <3>2. q[i] = s[i] /\ q[j] = t[k] /\ s[i] \in Range(s) /\ t[k] \in Range(t)
      BY <1>3, <1>4, <1>5, <2>2, <3>1 DEF Range
    <3> QED  BY <1>8, <3>2
  <2>3. CASE i \notin 1 .. Len(s)
    <3>1. PICK k \in 1 .. Len(t) : i = Len(s) + k
      BY <1>6, <2>3
    <3>2. j \notin 1 .. Len(s)
      BY <1>3, <3>1
    <3>3. PICK l \in 1 .. Len(t) : j = Len(s) + l
      BY <1>6, <3>2
    <3>4. k < l
      BY <1>3, <3>1, <3>3
    <3> QED  BY <1>3, <1>5, <1>8, <3>1, <3>3, <3>4 DEF Rising
  <2> QED  BY <2>1, <2>2, <2>3
<1> QED  BY <1>7, <1>8 DEF q

LEMMA SplitInTwo ==
  ASSUME NEW p \in Seq(Nat), NEW n \in 0 .. Len(p)
  PROVE  /\ SubSeq(p, 1, n) \in Seq(Nat) /\ Len(SubSeq(p, 1, n)) = n
         /\ SubSeq(p, n + 1, Len(p)) \in Seq(Nat) /\ Len(SubSeq(p, n + 1, Len(p))) = Len(p) - n
         /\ SubSeq(p, 1, n) \o SubSeq(p, n + 1, Len(p)) = p
<1>0. Len(p) \in Nat /\ n \in Nat /\ \A i \in 1 .. Len(p) : p[i] \in Nat
  OBVIOUS
<1>1. PICK b \in Seq(Nat) : b = SubSeq(p, 1, n) /\ Len(b) = n
  <2>1. SubSeq(p, 1, n) \in Seq(Nat) /\ Len(SubSeq(p, 1, n)) = n
    OBVIOUS
  <2> QED  BY <2>1
<1>2. PICK c \in Seq(Nat) : c = SubSeq(p, n + 1, Len(p)) /\ Len(c) = Len(p) - n
  <2>1. \A i \in n + 1 .. Len(p) : p[i] \in Nat
    BY <1>0
  <2>2. SubSeq(p, n + 1, Len(p)) \in Seq(Nat) /\ Len(SubSeq(p, n + 1, Len(p))) = Len(p) - n
    BY <1>0, <2>1, SubSeqProperties
  <2> QED  BY <2>2
<1>3. b \o c = p
  <2>1. 1 \in 1 .. Len(p) + 1 /\ n \in 1 - 1 .. Len(p) /\ Len(p) \in n .. Len(p)
    BY <1>0
  <2>2. SubSeq(p, 1, n) \o SubSeq(p, n + 1, Len(p)) = SubSeq(p, 1, Len(p))
    BY <2>1, ConcatAdjacentSubSeq
  <2>3. SubSeq(p, 1, Len(p)) = p
    BY SubSeqFull
  <2> QED  BY <1>1, <1>2, <2>2, <2>3
<1> QED  BY <1>1, <1>2, <1>3

LEMMA LengthenedRange ==
  ASSUME NEW s \in Seq(Nat), NEW e \in Nat
  PROVE  /\ Append(s, e) \in Seq(Nat) /\ Len(Append(s, e)) = Len(s) + 1
         /\ Range(Append(s, e)) = Range(s) \cup {e}
         /\ Rising(s) /\ (\A x \in Range(s) : x < e) => Rising(Append(s, e))
<1>1. PICK n \in Nat : n = Len(s)
  OBVIOUS
<1>2. PICK q \in Seq(Nat) : q = Append(s, e) /\ DOMAIN q = 1 .. n + 1 /\ q[n + 1] = e /\ Len(q) = n + 1
                            /\ \A i \in 1 .. n : q[i] = s[i]
  <2>1. Append(s, e) \in Seq(Nat) /\ DOMAIN Append(s, e) = 1 .. n + 1 /\ Append(s, e)[n + 1] = e
        /\ Len(Append(s, e)) = n + 1
    BY <1>1
  <2>2. \A i \in 1 .. n : Append(s, e)[i] = s[i]
    BY <1>1
  <2> QED  BY <2>1, <2>2
<1>3. DOMAIN s = 1 .. n
  BY <1>1
<1>4. Range(q) = Range(s) \cup {e}
  <2>1. \A x \in Range(q) : x \in Range(s) \cup {e}
    BY <1>2, <1>3 DEF Range
  <2>2. \A x \in Range(s) : x \in Range(q)
    BY <1>2, <1>3 DEF Range
  <2>3. e \in Range(q)
    BY <1>2 DEF Range
  <2> QED  BY <2>1, <2>2, <2>3
<1>5. ASSUME Rising(s), \A x \in Range(s) : x < e PROVE Rising(q)
  <2> SUFFICES ASSUME NEW i \in 1 .. n + 1, NEW j \in 1 .. n + 1, i < j PROVE q[i] < q[j]
    BY <1>2 DEF Rising
  <2>1. i \in 1 .. n /\ q[i] = s[i] /\ s[i] \in Range(s)
    BY <1>2, <1>3 DEF Range
  <2>2. CASE j = n + 1
    BY <1>2, <1>5, <2>1, <2>2
  <2>3. CASE j \in 1 .. n
    BY <1>2, <1>3, <1>5, <2>1, <2>3 DEF Rising
  <2> QED  BY <2>2, <2>3
<1> QED  BY <1>1, <1>2, <1>4, <1>5

LEMMA NothingRises == <<>> \in Seq(Nat) /\ Range(<<>>) = {} /\ Rising(<<>>) /\ Len(<<>>) = 0
  BY DEF Range, Rising

-----------------------------------------------------------------------------
LEMMA LeastOfNumbers ==
  ASSUME NEW S, NEW m \in S, m \in Nat, \A y \in S : y \in Nat /\ m <= y
  PROVE  Min(S) = m
<1>1. \E x \in S : \A y \in S : x =< y
  OBVIOUS
<1>2. Min(S) \in S /\ \A y \in S : Min(S) =< y
  BY <1>1 DEF Min
<1>3. PICK x : x = Min(S)
  OBVIOUS
<1>4. x \in Nat /\ x <= m /\ m <= x
  BY <1>2, <1>3
<1> QED  BY <1>3, <1>4

LEMMA LesserOfTwo ==
  ASSUME NEW l \in Nat, NEW m \in Nat
  PROVE  \/ Min({l, m}) = l /\ l <= m
         \/ Min({l, m}) = m /\ m <= l
<1>1. CASE l <= m
  <2>1. \A y \in {l, m} : y \in Nat /\ l <= y
    BY <1>1
  <2>2. Min({l, m}) = l
    BY <2>1, LeastOfNumbers
  <2> QED  BY <1>1, <2>2
<1>2. CASE m <= l
  <2>1. \A y \in {l, m} : y \in Nat /\ m <= y
    BY <1>2
  <2>2. Min({l, m}) = m
    BY <2>1, LeastOfNumbers
  <2> QED  BY <1>2, <2>2
<1> QED  BY <1>1, <1>2

\* What a sink and its directory are.

Files == [index : Nat, rows : Seq(Nat), whole : BOOLEAN]
PartFiles == [index : Nat, rows : Seq(Nat), at : {"none", "open", "left"}, whole : BOOLEAN]
PartEntries == [index : Nat, count : Nat]
SinkStates == {"rest", "flush", "start", "place", "list"}
Sinks == [rows : Seq(Nat), pending : Seq(Nat), item : Seq(Nat), active : PartFiles, done : Seq(PartEntries),
          step : SinkStates]
Listings == [status : {"none", "open", "closed"}, completed : Seq(PartEntries), incomplete : SUBSET Nat]
Directories == [finals : SUBSET Files, temps : SUBSET Nat, manifest : Listings, stale : BOOLEAN,
                clearing : BOOLEAN, given : Seq(Nat), lost : SUBSET Nat]

\* What the property asks of a directory.
SoundDirectory(o) ==
  ~o.clearing =>
    /\ FilesInOrder(o) /\ FirstAreKept(o) /\ ListedAreThere(o)
    /\ ~o.stale => Cardinality(o.finals) <= Len(o.manifest.completed) + 1
    /\ o.manifest.status = "closed" => ClosedIsWhole(o)

\* Three parts of a sink, one after the other.
InTurn(a, p, b) ==
  /\ Rising(a) /\ Rising(p) /\ Rising(b)
  /\ \A x \in Range(a) : (\A y \in Range(p) : x < y) /\ \A y \in Range(b) : x < y
  /\ \A x \in Range(p), y \in Range(b) : x < y
\* The rows of the segment that may still be kept, and those that wait for one.
Loose(s) == IF s.step # "list" /\ s.active.at = "open" /\ s.active.whole THEN s.active.rows ELSE <<>>
Buffered(s) == s.rows \o s.item
Underway(s) == Range(Loose(s)) \cup Range(s.pending) \cup Range(Buffered(s))
\* The rows that are accepted are those of the segments, then those in the sink.
Flows(o, s) ==
  /\ InTurn(Loose(s), s.pending, Buffered(s))
  /\ KeptRows(o) \cup Underway(s) = AcceptedRows(o)
  /\ \A k \in KeptRows(o), u \in Underway(s) : k < u
\* Segments are numbered as they are placed, and those that are placed are there.
HeldBy(o, index, count) == \E f \in o.finals : f.index = index /\ Len(f.rows) = count
Indexed(o, s) ==
  /\ IsFiniteSet(o.finals)
  /\ \A f \in o.finals : f.index < Len(s.done) \/ (s.step = "list" /\ f.index = Len(s.done))
  /\ Cardinality(o.finals) = Len(s.done) + (IF s.step = "list" THEN 1 ELSE 0)
  /\ s.step = "list" => HeldBy(o, s.active.index, Len(s.active.rows))
  /\ \A n \in DOMAIN s.done : HeldBy(o, s.done[n].index, s.done[n].count)
  /\ s.active.at = "open" => s.active.index = Len(s.done)
OpenListing(o, s) ==
  ~o.clearing /\ o.manifest.status = "open" /\ (~o.stale => o.manifest.completed = s.done)
InNumbers(o) == (\A i \in DOMAIN o.given : o.given[i] = i) /\ o.lost \subseteq Range(o.given)
Ruined(o, a) == ~a.whole => Range(a.rows) \subseteq o.lost
LiveSink(o, s) ==
  /\ OpenListing(o, s) /\ InNumbers(o) /\ FilesInOrder(o) /\ ListedAreThere(o)
  /\ Flows(o, s) /\ Indexed(o, s) /\ Ruined(o, s.active)
\* Where a sink stands, and what it holds there.
Stands(s) ==
  /\ s.step \in {"place", "list"} => s.active.at = "open"
  /\ s.step \in {"rest", "start"} => s.pending = <<>>
  /\ s.step \notin {"place", "list"} => s.item = <<>>
  /\ s.pending = <<>> \/ s.item = <<>>
  /\ s.step = "flush" => s.pending # <<>>
\* A segment that is left has lost rows; and one that is placed before the end has rows to lose.
Shown(o, s) == s.active.at = "left" => o.lost # {}
MayPlace(s) == s.step # "start" /\ (s.step = "place" => s.active.rows # <<>> \/ s.item # <<>>)

LEMMA RowsAreNumbers ==
  ASSUME NEW o \in Directories, NEW s \in Sinks
  PROVE  /\ KeptRows(o) \subseteq Nat /\ AcceptedRows(o) \subseteq Nat /\ Underway(s) \subseteq Nat
         /\ Loose(s) \in Seq(Nat) /\ s.rows \in Seq(Nat) /\ s.pending \in Seq(Nat) /\ s.item \in Seq(Nat)
         /\ Buffered(s) \in Seq(Nat) /\ Range(Buffered(s)) = Range(s.rows) \cup Range(s.item)
         /\ s.active.rows \in Seq(Nat) /\ Range(s.active.rows) \subseteq Nat
         /\ Range(s.pending) \subseteq Nat /\ Range(s.item) \subseteq Nat
         /\ s.active \in PartFiles /\ s.done \in Seq(PartEntries) /\ Len(s.done) \in Nat
<1>1. \A q \in Seq(Nat) : Range(q) \subseteq Nat
  BY DEF Range
<1>2. \A f \in o.finals : f.rows \in Seq(Nat)
  BY DEF Directories, Files
<1>3. KeptRows(o) \subseteq Nat
  BY <1>1, <1>2 DEF KeptRows, WholeFiles
<1>4. AcceptedRows(o) \subseteq Nat
  <2>1. o.given \in Seq(Nat)
    BY DEF Directories
  <2> QED  BY <1>1, <2>1 DEF AcceptedRows
<1>5. s.active \in PartFiles /\ s.rows \in Seq(Nat) /\ s.pending \in Seq(Nat) /\ s.done \in Seq(PartEntries)
      /\ s.item \in Seq(Nat)
  BY DEF Sinks
<1>6. s.active.rows \in Seq(Nat)
  BY <1>5 DEF PartFiles
<1>7. Loose(s) \in Seq(Nat)
  BY <1>6, NothingRises DEF Loose
<1>8. Buffered(s) \in Seq(Nat) /\ Range(Buffered(s)) = Range(s.rows) \cup Range(s.item)
  BY <1>5, JoinedRange DEF Buffered
<1>9. Underway(s) \subseteq Nat /\ Range(s.active.rows) \subseteq Nat /\ Range(s.pending) \subseteq Nat
      /\ Range(s.item) \subseteq Nat
  BY <1>1, <1>5, <1>6, <1>7, <1>8 DEF Underway
<1>10. Len(s.done) \in Nat
  BY <1>5
<1> QED  BY <1>3, <1>4, <1>5, <1>6, <1>7, <1>8, <1>9, <1>10

\* A sink that holds no row back.
LEMMA NothingHeld ==
  ASSUME NEW s \in Sinks, s.item = <<>>
  PROVE  Buffered(s) = s.rows
<1>1. s.rows \in Seq(Nat)
  BY DEF Sinks
<1>2. s.rows \o <<>> = s.rows
  BY <1>1, ConcatEmptySeq
<1> QED  BY <1>2 DEF Buffered

LEMMA LiveIsSound ==
  ASSUME NEW o \in Directories, NEW s \in Sinks, LiveSink(o, s)
  PROVE  SoundDirectory(o)
<1>1. KeptRows(o) \subseteq Nat /\ AcceptedRows(o) \subseteq Nat /\ Underway(s) \subseteq Nat /\ Len(s.done) \in Nat
  BY RowsAreNumbers
<1>2. FirstAreKept(o)
  <2>1. KeptRows(o) \cup Underway(s) = AcceptedRows(o) /\ \A k \in KeptRows(o), u \in Underway(s) : k < u
    BY DEF LiveSink, Flows
  <2>2. ASSUME NEW row \in AcceptedRows(o), NEW kept \in KeptRows(o), row < kept PROVE row \in KeptRows(o)
    <3>1. row \in Nat /\ kept \in Nat
      BY <1>1
    <3>2. row \notin Underway(s)
      BY <2>1, <2>2, <3>1
    <3> QED  BY <2>1, <3>2
  <2> QED  BY <2>1, <2>2 DEF FirstAreKept
<1>3. FilesInOrder(o) /\ ListedAreThere(o) /\ o.manifest.status = "open"
      /\ (~o.stale => o.manifest.completed = s.done)
  BY DEF LiveSink, OpenListing
<1>4. Cardinality(o.finals) <= Len(s.done) + 1
  <2>1. Cardinality(o.finals) = Len(s.done) + (IF s.step = "list" THEN 1 ELSE 0)
    BY DEF LiveSink, Indexed
  <2>2. PICK m \in Nat : m = Len(s.done)
    BY <1>1
  <2>3. m + 1 <= m + 1 /\ m + 0 <= m + 1
    OBVIOUS
  <2> QED  BY <2>1, <2>2, <2>3
<1> QED  BY <1>2, <1>3, <1>4 DEF SoundDirectory

\* What is asked of the directory depends on its segments, the rows, and what is listed.
SameRows(o, p) == p.finals = o.finals /\ p.given = o.given /\ p.lost = o.lost /\ p.clearing = o.clearing
LEMMA SameDirectory ==
  ASSUME NEW o, NEW p, NEW s, LiveSink(o, s), SameRows(o, p), p.manifest.status = "open",
         \/ p.manifest.completed = s.done
         \/ p.manifest.completed = o.manifest.completed /\ (~p.stale => ~o.stale)
  PROVE  LiveSink(p, s)
<1>1. KeptRows(p) = KeptRows(o) /\ AcceptedRows(p) = AcceptedRows(o)
  BY DEF SameRows, KeptRows, AcceptedRows, WholeFiles
<1>2. Flows(p, s)
  BY <1>1 DEF LiveSink, Flows
<1>3. Indexed(p, s)
  BY DEF LiveSink, Indexed, SameRows, HeldBy
<1>4. InNumbers(p) /\ FilesInOrder(p) /\ Ruined(p, s.active)
  BY DEF LiveSink, InNumbers, FilesInOrder, WholeFiles, Ruined, SameRows
<1>5. OpenListing(p, s)
  BY DEF LiveSink, OpenListing, SameRows
<1>6. ListedAreThere(p)
  <2>1. CASE p.manifest.completed = s.done
    BY <1>3, <2>1 DEF Indexed, HeldBy, ListedAreThere
  <2>2. CASE p.manifest.completed = o.manifest.completed
    BY <2>2 DEF LiveSink, SameRows, ListedAreThere
  <2> QED  BY <2>1, <2>2
<1> QED  BY <1>2, <1>3, <1>4, <1>5, <1>6 DEF LiveSink

\* A step that leaves the rows and the segments alone.
LEMMA StepTaken ==
  ASSUME NEW o, NEW s \in Sinks, LiveSink(o, s), s.step # "list",
         NEW e \in SinkStates, e # "list", NEW t, t = [s EXCEPT !.step = e]
  PROVE  /\ t \in Sinks /\ LiveSink(o, t) /\ t.step = e /\ t.rows = s.rows /\ t.pending = s.pending
         /\ t.item = s.item /\ t.active = s.active /\ t.done = s.done
<1>1. t \in Sinks /\ t.step = e /\ t.rows = s.rows /\ t.pending = s.pending /\ t.item = s.item
      /\ t.active = s.active /\ t.done = s.done
  BY DEF Sinks
<1>2. Loose(t) = Loose(s) /\ Buffered(t) = Buffered(s)
  <2>1. Loose(s) = IF s.active.at = "open" /\ s.active.whole THEN s.active.rows ELSE <<>>
    BY DEF Loose
  <2>2. Loose(t) = IF t.active.at = "open" /\ t.active.whole THEN t.active.rows ELSE <<>>
    BY <1>1 DEF Loose
  <2>3. Buffered(t) = Buffered(s)
    BY <1>1 DEF Buffered
  <2> QED  BY <1>1, <2>1, <2>2, <2>3
<1>3. Flows(o, t)
  BY <1>1, <1>2 DEF LiveSink, Flows, Underway
<1>4. Indexed(o, t)
  BY <1>1 DEF LiveSink, Indexed
<1>5. OpenListing(o, t)
  BY <1>1 DEF LiveSink, OpenListing
<1> QED  BY <1>1, <1>3, <1>4, <1>5 DEF LiveSink

\* A row that is given goes after those of the buffer.
RowGiven(o, row) == [o EXCEPT !.given = Append(o.given, row)]
RowHeld(s, t, row) ==
  /\ t.active = s.active /\ t.done = s.done /\ t.pending = s.pending /\ t.step # "list"
  /\ Buffered(t) = Append(s.rows, row)
LEMMA RowTaken ==
  ASSUME NEW o \in Directories, NEW s \in Sinks, LiveSink(o, s), s.step # "list", s.item = <<>>,
         NEW row, row = Len(o.given) + 1,
         NEW p, p = RowGiven(o, row), NEW t \in Sinks, RowHeld(s, t, row)
  PROVE  p \in Directories /\ LiveSink(p, t) /\ p.lost = o.lost
<1>n. row \in Nat /\ o.given \in Seq(Nat) /\ s.rows \in Seq(Nat) /\ o.lost \subseteq Nat
  BY DEF Directories, Sinks
<1>h. /\ t.active = s.active /\ t.done = s.done /\ t.pending = s.pending /\ t.step # "list"
      /\ Buffered(t) = Append(s.rows, row)
  BY DEF RowHeld
<1>r. /\ KeptRows(o) \subseteq Nat /\ AcceptedRows(o) \subseteq Nat /\ Underway(s) \subseteq Nat
  BY RowsAreNumbers
<1>b. Buffered(s) = s.rows
  BY NothingHeld
<1>1. PICK given \in Seq(Nat) : given = Append(o.given, row) /\ Range(given) = Range(o.given) \cup {row}
                                /\ Len(given) = row
  BY <1>n, LengthenedRange
<1>2. PICK rows \in Seq(Nat) : rows = Append(s.rows, row) /\ Range(rows) = Range(s.rows) \cup {row}
        /\ (Rising(s.rows) /\ (\A x \in Range(s.rows) : x < row) => Rising(rows))
  BY <1>n, LengthenedRange
<1>3. p = [o EXCEPT !.given = given] /\ Buffered(t) = rows
  BY <1>1, <1>2, <1>h DEF RowGiven
<1>4. p \in Directories /\ p.finals = o.finals /\ p.lost = o.lost /\ p.manifest = o.manifest
      /\ p.clearing = o.clearing /\ p.given = given /\ p.stale = o.stale
  BY <1>3 DEF Directories
<1>6. \A x \in Range(o.given) : x \in Nat /\ x < row
  <2>1. \A i \in DOMAIN o.given : o.given[i] = i /\ i \in 1 .. Len(o.given)
    BY <1>n DEF LiveSink, InNumbers
  <2>2. Len(o.given) \in Nat
    BY <1>n
  <2> QED  BY <2>1, <2>2 DEF Range
<1>7. InNumbers(p)
  <2>1. DOMAIN given = 1 .. row /\ given[row] = row /\ \A i \in 1 .. Len(o.given) : given[i] = o.given[i] /\ i \in DOMAIN o.given
    BY <1>n, <1>1
  <2>2. \A i \in 1 .. row : i = row \/ i \in 1 .. Len(o.given)
    BY <1>n
  <2>3. \A i \in DOMAIN given : given[i] = i
    BY <2>1, <2>2 DEF LiveSink, InNumbers
  <2>4. o.lost \subseteq Range(given)
    BY <1>1 DEF LiveSink, InNumbers
  <2> QED  BY <1>4, <2>3, <2>4 DEF InNumbers
<1>8. AcceptedRows(p) = AcceptedRows(o) \cup {row}
  <2>1. row \notin Range(o.given)
    BY <1>6
  <2>2. row \notin o.lost
    BY <2>1 DEF LiveSink, InNumbers
  <2> QED  BY <1>1, <1>4, <2>2 DEF AcceptedRows
<1>9. \A x \in AcceptedRows(o) : x < row
  BY <1>6 DEF AcceptedRows
<1>10. Underway(t) = Underway(s) \cup {row} /\ Loose(t) = Loose(s) /\ KeptRows(p) = KeptRows(o)
  <2>1. Loose(t) = Loose(s)
    BY <1>h DEF Loose
  <2> QED  BY <1>b, <1>h, <1>2, <1>3, <1>4, <2>1 DEF Underway, KeptRows, WholeFiles
<1>11. Flows(p, t)
  <2>1. InTurn(Loose(s), s.pending, s.rows) /\ KeptRows(o) \cup Underway(s) = AcceptedRows(o)
        /\ \A k \in KeptRows(o), u \in Underway(s) : k < u
    BY <1>b DEF LiveSink, Flows
  <2>2. \A x \in Underway(s) : x < row
    BY <1>9, <2>1
  <2>3. \A x \in KeptRows(o) : x < row
    BY <1>9, <2>1
  <2>0. Underway(s) = Range(Loose(s)) \cup Range(s.pending) \cup Range(s.rows)
    BY <1>b DEF Underway
  <2>4. Rising(rows)
    BY <1>2, <2>0, <2>1, <2>2 DEF InTurn
  <2>5. InTurn(Loose(s), s.pending, rows)
    BY <1>2, <2>0, <2>1, <2>2, <2>4 DEF InTurn
  <2>6. KeptRows(p) \cup Underway(t) = AcceptedRows(p)
    BY <1>8, <1>10, <2>1
  <2>7. \A k \in KeptRows(p), u \in Underway(t) : k < u
    BY <1>10, <2>1, <2>3
  <2> QED  BY <1>3, <1>10, <1>h, <2>5, <2>6, <2>7 DEF Flows
<1>12. Indexed(p, t)
  BY <1>4, <1>h DEF LiveSink, Indexed, HeldBy
<1>13. OpenListing(p, t) /\ Ruined(p, t.active)
  BY <1>4, <1>h DEF LiveSink, OpenListing, Ruined
<1>14. FilesInOrder(p)
  BY <1>4 DEF LiveSink, FilesInOrder, WholeFiles
<1>15. ListedAreThere(p)
  BY <1>4 DEF LiveSink, ListedAreThere
<1> QED  BY <1>4, <1>7, <1>11, <1>12, <1>13, <1>14, <1>15 DEF LiveSink

LEMMA BufferTaken ==
  ASSUME NEW o \in Directories, NEW s \in Sinks, LiveSink(o, s), Stands(s), s.step = "rest",
         NEW t, t = Flushing(s)
  PROVE  t \in Sinks /\ LiveSink(o, t) /\ Stands(t) /\ t.active = s.active /\ t.step \in {"rest", "flush"}
<1>0. CASE s.rows = <<>>
  BY <1>0 DEF Flushing
<1>1. CASE s.rows # <<>>
  <2>1. t = [s EXCEPT !.pending = s.rows, !.rows = <<>>, !.step = "flush"]
    BY <1>1 DEF Flushing
  <2>2. t \in Sinks /\ t.pending = s.rows /\ t.rows = <<>> /\ t.step = "flush" /\ t.active = s.active
        /\ t.done = s.done /\ t.item = s.item
    <3>1. PICK e \in Seq(Nat) : e = <<>>
      BY NothingRises
    <3>2. t = [s EXCEPT !.pending = s.rows, !.rows = e, !.step = "flush"]
      BY <2>1, <3>1
    <3> QED  BY <3>1, <3>2 DEF Sinks, SinkStates
  <2>3. s.pending = <<>> /\ s.item = <<>> /\ Loose(t) = Loose(s)
    BY <2>2 DEF Stands, Loose
  <2>4. Buffered(s) = s.rows /\ Buffered(t) = <<>>
    BY <2>2, <2>3, NothingHeld
  <2>5. Underway(t) = Underway(s)
    BY <2>2, <2>3, <2>4 DEF Underway
  <2>6. InTurn(Loose(t), t.pending, Buffered(t))
    BY <2>2, <2>3, <2>4, NothingRises DEF LiveSink, Flows, InTurn
  <2>7. Flows(o, t)
    BY <2>5, <2>6 DEF LiveSink, Flows
  <2>8. Indexed(o, t)
    BY <2>2 DEF LiveSink, Indexed
  <2>9. Stands(t) /\ OpenListing(o, t) /\ Ruined(o, t.active)
    BY <1>1, <2>2, <2>3 DEF LiveSink, Stands, OpenListing
  <2> QED  BY <2>2, <2>7, <2>8, <2>9 DEF LiveSink
<1> QED  BY <1>0, <1>1

\* The next segment, with its writer or without.
BlankSegment(s, at) == [index |-> Len(s.done), rows |-> <<>>, at |-> at, whole |-> TRUE]
LEMMA SegmentFound ==
  ASSUME NEW o, NEW s \in Sinks, LiveSink(o, s), s.step # "list", s.active.at # "open",
         NEW at \in {"open", "left"}, NEW t, t = [s EXCEPT !.active = BlankSegment(s, at)]
  PROVE  /\ t \in Sinks /\ LiveSink(o, t) /\ t.active = BlankSegment(s, at) /\ BlankSegment(s, at) \in PartFiles
         /\ t.step = s.step /\ t.rows = s.rows /\ t.pending = s.pending /\ t.item = s.item /\ t.done = s.done
<1>1. s.done \in Seq(PartEntries)
  BY DEF Sinks
<1>2. PICK m \in Nat : m = Len(s.done)
  BY <1>1
<1>3. PICK e \in Seq(Nat) : e = <<>>
  BY NothingRises
<1>4. PICK a \in PartFiles : a = [index |-> m, rows |-> e, at |-> at, whole |-> TRUE]
  BY DEF PartFiles
<1>5. BlankSegment(s, at) = a
  BY <1>2, <1>3, <1>4 DEF BlankSegment
<1>6. /\ t \in Sinks /\ t.active = a /\ t.step = s.step /\ t.rows = s.rows /\ t.pending = s.pending
      /\ t.item = s.item /\ t.done = s.done
  BY <1>5 DEF Sinks
<1>7. a.rows = <<>> /\ a.whole /\ a.index = Len(s.done)
  BY <1>2, <1>3, <1>4
<1>8. Loose(s) = <<>> /\ Loose(t) = <<>>
  BY <1>6, <1>7 DEF Loose
<1>9. Buffered(t) = Buffered(s)
  BY <1>6 DEF Buffered
<1>10. Flows(o, t)
  BY <1>6, <1>8, <1>9 DEF LiveSink, Flows, Underway
<1>11. Indexed(o, t)
  BY <1>6, <1>7 DEF LiveSink, Indexed
<1>12. OpenListing(o, t) /\ Ruined(o, t.active)
  BY <1>6, <1>7 DEF LiveSink, OpenListing, Ruined
<1> QED  BY <1>5, <1>6, <1>10, <1>11, <1>12 DEF LiveSink

\* The rows a segment has room for.
LEMMA ChunkWritten ==
  ASSUME NEW o \in Directories, NEW s \in Sinks, LiveSink(o, s), s.step = "flush", s.active.at = "open",
         s.active.whole, s.pending # <<>>, Len(s.active.rows) < SegmentRows, NEW t, t = Topped(s)
  PROVE  /\ t \in Sinks /\ LiveSink(o, t) /\ t.step = "flush" /\ t.rows = s.rows /\ t.item = s.item
         /\ t.active.at = "open" /\ t.done = s.done /\ Len(t.active.rows) \in Nat
         /\ t.pending = <<>> \/ Len(t.active.rows) = SegmentRows
<1>t. /\ s.active \in PartFiles /\ s.active.rows \in Seq(Nat) /\ s.pending \in Seq(Nat) /\ s.rows \in Seq(Nat)
      /\ SegmentRows \in Nat
  BY RowsAreNumbers, StreamAssumption
<1>1. PICK a \in Seq(Nat), p \in Seq(Nat) : a = s.active.rows /\ p = s.pending
  BY <1>t
<1>l. PICK k \in Nat, l \in Nat : k = Len(a) /\ l = Len(p)
  OBVIOUS
<1>m. PICK m \in Nat : m = SegmentRows - k
  <2>1. PICK w \in Nat : w = SegmentRows
    BY <1>t
  <2>2. w - k \in Nat
    BY <1>1, <1>l, <2>1
  <2> QED  BY <2>1, <2>2
<1>n. PICK n \in 0 .. Len(p) : n = Min({l, m}) /\ n <= m /\ (n = l \/ n = m)
  <2>1. CASE Min({l, m}) = l /\ l <= m
    BY <1>l, <2>1
  <2>2. CASE Min({l, m}) = m /\ m <= l
    BY <1>l, <2>2
  <2> QED  BY <2>1, <2>2, LesserOfTwo
<1>2. PICK b \in Seq(Nat) : b = SubSeq(p, 1, n) /\ Len(b) = n
  BY SplitInTwo
<1>3. PICK c \in Seq(Nat) : c = SubSeq(p, n + 1, Len(p)) /\ Len(c) = Len(p) - n
  BY SplitInTwo
<1>4. b \o c = p
  BY <1>2, <1>3, SplitInTwo
<1>5. PICK q \in Seq(Nat) : q = a \o b /\ Len(q) = Len(a) + n /\ Range(q) = Range(a) \cup Range(b)
  <2>1. a \o b \in Seq(Nat) /\ Range(a \o b) = Range(a) \cup Range(b)
    BY JoinedRange
  <2>2. Len(a \o b) = Len(a) + Len(b)
    OBVIOUS
  <2> QED  BY <1>2, <2>1, <2>2
<1>6. Range(p) = Range(b) \cup Range(c)
  BY <1>4, JoinedRange
<1>7. PICK filled \in PartFiles : /\ filled = [s.active EXCEPT !.rows = q] /\ filled.rows = q
                                  /\ filled.at = "open" /\ filled.whole /\ filled.index = s.active.index
  <2>1. PICK x : x = [s.active EXCEPT !.rows = q]
    OBVIOUS
  <2>2. x \in PartFiles /\ x.rows = q /\ x.at = s.active.at /\ x.whole = s.active.whole /\ x.index = s.active.index
    BY <1>t, <2>1 DEF PartFiles
  <2> QED  BY <2>1, <2>2
<1>8. t = [s EXCEPT !.active = filled, !.pending = c]
  <2>1. Min({Len(s.pending), SegmentRows - Len(s.active.rows)}) = n
    BY <1>1, <1>l, <1>m, <1>n
  <2>2. t = [s EXCEPT !.active.rows = s.active.rows \o SubSeq(s.pending, 1, n),
                      !.pending = SubSeq(s.pending, n + 1, Len(s.pending))]
    BY <2>1 DEF Topped
  <2>3. t = [s EXCEPT !.active.rows = q, !.pending = c]
    BY <1>1, <1>2, <1>3, <1>5, <2>2
  <2> QED  BY <1>7, <2>3 DEF Sinks
<1>9. t \in Sinks /\ t.active = filled /\ t.pending = c /\ t.step = s.step /\ t.rows = s.rows /\ t.done = s.done
      /\ t.item = s.item
  BY <1>8 DEF Sinks
<1>10. Loose(s) = a /\ Loose(t) = q /\ Buffered(t) = Buffered(s)
  BY <1>1, <1>7, <1>9 DEF Loose, Buffered
<1>11. Underway(t) = Underway(s)
  BY <1>1, <1>5, <1>6, <1>9, <1>10 DEF Underway
<1>12. InTurn(q, c, Buffered(s))
  <2> DEFINE z == Buffered(s)
  <2>1. InTurn(a, p, z)
    BY <1>1, <1>10 DEF LiveSink, Flows
  <2> HIDE DEF z
  <2>2. Rising(b) /\ Rising(c) /\ \A x \in Range(b), y \in Range(c) : x < y
    <3>1. Rising(b \o c)
      BY <1>4, <2>1 DEF InTurn
    <3> QED  BY <3>1, JoinedRises
  <2>3. Rising(q)
    <3>1. Rising(a) /\ Rising(b) /\ \A x \in Range(a), y \in Range(b) : x < y
      BY <1>6, <2>1, <2>2 DEF InTurn
    <3>2. Rising(a \o b)
      BY <3>1, JoinedRises
    <3> QED  BY <1>5, <3>2
  <2>4. \A x \in Range(q) : x \in Range(a) \/ x \in Range(b)
    BY <1>5
  <2>5. \A x \in Range(q) : (\A y \in Range(c) : x < y) /\ \A y \in Range(z) : x < y
    BY <1>6, <2>1, <2>2, <2>4 DEF InTurn
  <2>6. Rising(z) /\ \A x \in Range(c), y \in Range(z) : x < y
    BY <1>6, <2>1 DEF InTurn
  <2>7. InTurn(q, c, z)
    BY <2>2, <2>3, <2>5, <2>6 DEF InTurn
  <2> QED  BY <2>7 DEF z
<1>13. Flows(o, t)
  BY <1>9, <1>10, <1>11, <1>12 DEF LiveSink, Flows
<1>14. Indexed(o, t)
  BY <1>7, <1>9 DEF LiveSink, Indexed
<1>15. OpenListing(o, t) /\ Ruined(o, t.active)
  BY <1>7, <1>9 DEF LiveSink, OpenListing, Ruined
<1>16. Len(q) \in Nat /\ (c = <<>> \/ Len(q) = SegmentRows)
  <2>1. CASE n = l
    <3>1. Len(c) = 0
      BY <1>3, <1>l, <2>1
    <3> QED  BY <3>1, EmptySeq
  <2>2. CASE n = m
    BY <1>5, <1>l, <1>m, <1>t, <2>2
  <2> QED  BY <1>n, <2>1, <2>2
<1> QED  BY <1>7, <1>9, <1>13, <1>14, <1>15, <1>16 DEF LiveSink

\* A call that raises leaves what it held, and the segment with it when lost says so.
LEMMA CallLeft ==
  ASSUME NEW o \in Directories, NEW s \in Sinks, LiveSink(o, s), s.step # "list",
         NEW Q, Q \subseteq o.lost \cup Range(Loose(s)),
         NEW p \in Directories, p.finals = o.finals, p.given = o.given, p.clearing = o.clearing,
         p.lost = o.lost \cup Q \cup Range(s.pending) \cup Range(s.item),
         p.manifest = o.manifest, ~p.stale => ~o.stale,
         NEW t \in Sinks, t.rows = s.rows, t.done = s.done, t.step = "rest", t.pending = <<>>, t.item = <<>>,
         (Q = {} /\ Loose(t) = Loose(s)) \/ (Range(Loose(s)) \subseteq Q /\ Loose(t) = <<>>),
         t.active.at = "open" => t.active.index = Len(s.done), Ruined(p, t.active)
  PROVE  LiveSink(p, t) /\ Stands(t)
<1>1. Buffered(t) = s.rows /\ KeptRows(p) = KeptRows(o)
  BY NothingHeld DEF KeptRows, WholeFiles
<1>2. InTurn(Loose(s), s.pending, Buffered(s)) /\ KeptRows(o) \cup Underway(s) = AcceptedRows(o)
      /\ \A k \in KeptRows(o), u \in Underway(s) : k < u
  BY DEF LiveSink, Flows
<1>3. /\ Range(Buffered(s)) = Range(s.rows) \cup Range(s.item) /\ s.rows \in Seq(Nat) /\ s.item \in Seq(Nat)
      /\ KeptRows(o) \subseteq Nat /\ Underway(s) \subseteq Nat /\ Loose(s) \in Seq(Nat)
  BY RowsAreNumbers
<1>4. Rising(s.rows) /\ \A x \in Range(s.rows), y \in Range(s.item) : x < y
  <2>1. Rising(s.rows \o s.item)
    BY <1>2 DEF InTurn, Buffered
  <2> QED  BY <1>3, <2>1, JoinedRises
<1>5. InTurn(Loose(t), t.pending, Buffered(t))
  <2>1. InTurn(Loose(s), <<>>, s.rows) /\ InTurn(<<>>, <<>>, s.rows)
    BY <1>2, <1>3, <1>4, NothingRises DEF InTurn
  <2> QED  BY <1>1, <2>1
<1>u. Underway(s) = Range(Loose(s)) \cup Range(s.pending) \cup Range(s.rows) \cup Range(s.item)
  BY <1>3 DEF Underway
<1>v. Underway(t) = Range(Loose(t)) \cup Range(s.rows)
  BY <1>1, NothingRises DEF Underway
<1>6. \A x \in Range(s.pending) : x \in Nat /\ x \notin Range(Loose(s)) /\ x \notin Range(s.rows)
  <2>1. \A x \in Range(s.pending) : (\A y \in Range(Loose(s)) : y < x) /\ \A y \in Range(s.rows) : x < y
    BY <1>2, <1>3 DEF InTurn
  <2>2. Range(s.pending) \subseteq Nat
    BY <1>3, <1>u
  <2> QED  BY <2>1, <2>2
<1>7. \A x \in Range(s.item) : x \in Nat /\ x \notin Range(Loose(s)) /\ x \notin Range(s.rows)
  <2>1. \A x \in Range(s.item) : (\A y \in Range(Loose(s)) : y < x) /\ \A y \in Range(s.rows) : y < x
    BY <1>2, <1>3, <1>4 DEF InTurn
  <2>2. Range(s.item) \subseteq Nat
    BY <1>3, <1>u
  <2> QED  BY <2>1, <2>2
<1>8. \A x \in Range(Loose(s)) : x \in Nat /\ x \notin Range(s.rows)
  <2>1. \A x \in Range(Loose(s)), y \in Range(s.rows) : x < y
    BY <1>2, <1>3 DEF InTurn
  <2>2. Range(Loose(s)) \subseteq Nat
    BY <1>3, <1>u
  <2> QED  BY <2>1, <2>2
<1>9. \A x \in KeptRows(o) : x \notin Underway(s)
  BY <1>2, <1>3
<1>10. AcceptedRows(p) = AcceptedRows(o) \ (Q \cup Range(s.pending) \cup Range(s.item))
  BY DEF AcceptedRows
<1>11. AcceptedRows(o) \cap o.lost = {}
  BY DEF AcceptedRows
<1>12. KeptRows(p) \cup Underway(t) = AcceptedRows(p)
  <2>1. CASE Q = {} /\ Loose(t) = Loose(s)
    BY <1>1, <1>2, <1>6, <1>7, <1>9, <1>10, <1>u, <1>v, <2>1
  <2>2. CASE Range(Loose(s)) \subseteq Q /\ Loose(t) = <<>>
    <3>1. Underway(t) = Range(s.rows)
      BY <1>v, <2>2, NothingRises
    <3>2. \A x \in KeptRows(o) \cup Range(s.rows) : x \notin Q
      BY <1>2, <1>8, <1>9, <1>11, <1>u
    <3>3. \A x \in KeptRows(o) \cup Range(s.rows) : x \in AcceptedRows(p)
      BY <1>2, <1>6, <1>7, <1>9, <1>10, <1>u, <3>2
    <3>4. \A x \in AcceptedRows(p) : x \in KeptRows(o) \cup Range(s.rows)
      BY <1>2, <1>10, <1>u, <2>2
    <3> QED  BY <1>1, <3>1, <3>3, <3>4
  <2> QED  BY <2>1, <2>2
<1>13. \A k \in KeptRows(p), u \in Underway(t) : k < u
  <2>1. Underway(t) \subseteq Underway(s)
    BY <1>u, <1>v, NothingRises
  <2> QED  BY <1>1, <1>2, <2>1
<1>14. Flows(p, t)
  BY <1>5, <1>12, <1>13 DEF Flows
<1>15. InNumbers(p)
  <2>1. Range(Loose(s)) \cup Range(s.pending) \cup Range(s.item) \subseteq Range(o.given)
    BY <1>2, <1>u DEF AcceptedRows
  <2>2. o.lost \subseteq Range(o.given)
    BY DEF LiveSink, InNumbers
  <2>3. p.lost \subseteq Range(o.given)
    BY <2>1, <2>2
  <2> QED  BY <2>3 DEF LiveSink, InNumbers
<1>16. Indexed(p, t)
  BY DEF LiveSink, Indexed, HeldBy
<1>17. OpenListing(p, t) /\ Stands(t)
  BY DEF LiveSink, OpenListing, Stands
<1>18. FilesInOrder(p) /\ ListedAreThere(p)
  BY DEF LiveSink, FilesInOrder, ListedAreThere, WholeFiles
<1> QED  BY <1>14, <1>15, <1>16, <1>17, <1>18 DEF LiveSink

\* The segment has the next number, and its rows, when they can be read, follow those that were kept.
LEMMA SegmentRenamed ==
  ASSUME NEW o \in Directories, NEW s \in Sinks, LiveSink(o, s), s.step = "place", s.active.at = "open",
         NEW p \in Directories, NEW f \in Files, f.index = s.active.index, f.rows = s.active.rows,
         f.whole = s.active.whole, p.finals = o.finals \cup {f}, p.given = o.given, p.lost = o.lost,
         p.clearing = o.clearing, p.manifest = o.manifest, p.stale = o.stale,
         NEW t, t = [s EXCEPT !.step = "list"]
  PROVE  t \in Sinks /\ LiveSink(p, t)
<1>1. t \in Sinks /\ t.pending = s.pending /\ t.step = "list" /\ t.rows = s.rows /\ t.active = s.active
      /\ t.done = s.done /\ t.item = s.item
  BY DEF Sinks, SinkStates
<1>2. PICK x \in Seq(Nat) : x = Loose(s) /\ x = IF f.whole THEN f.rows ELSE <<>>
  <2>1. Loose(s) = IF f.whole THEN f.rows ELSE <<>>
    BY DEF Loose
  <2> QED  BY <2>1, RowsAreNumbers
<1>l. Loose(t) = <<>> /\ Buffered(t) = Buffered(s)
  BY <1>1 DEF Loose, Buffered
<1>3. KeptRows(p) = KeptRows(o) \cup Range(x)
  <2>1. CASE f.whole
    <3>1. WholeFiles(p) = WholeFiles(o) \cup {f}
      BY <2>1 DEF WholeFiles
    <3> QED  BY <1>2, <2>1, <3>1 DEF KeptRows
  <2>2. CASE ~f.whole
    <3>1. WholeFiles(p) = WholeFiles(o)
      BY <2>2 DEF WholeFiles
    <3> QED  BY <1>2, <2>2, <3>1, NothingRises DEF KeptRows
  <2> QED  BY <2>1, <2>2
<1>4. InTurn(x, s.pending, Buffered(s)) /\ KeptRows(o) \cup Underway(s) = AcceptedRows(o)
      /\ \A k \in KeptRows(o), u \in Underway(s) : k < u
  BY <1>2 DEF LiveSink, Flows
<1>5. InTurn(Loose(t), t.pending, Buffered(t))
  BY <1>1, <1>l, <1>4, NothingRises DEF InTurn
<1>6. /\ Underway(t) = Range(s.pending) \cup Range(Buffered(s))
      /\ Underway(s) = Range(x) \cup Range(s.pending) \cup Range(Buffered(s))
  BY <1>1, <1>2, <1>l, NothingRises DEF Underway
<1>7. AcceptedRows(p) = AcceptedRows(o)
  BY DEF AcceptedRows
<1>8. KeptRows(p) \cup Underway(t) = AcceptedRows(p)
  BY <1>3, <1>4, <1>6, <1>7
<1>9. \A k \in KeptRows(p), u \in Underway(t) : k < u
  <2>1. \A k \in Range(x), u \in Underway(t) : k < u
    BY <1>4, <1>6 DEF InTurn
  <2> QED  BY <1>3, <1>4, <1>6, <2>1
<1>10. Flows(p, t)
  BY <1>5, <1>8, <1>9 DEF Flows
<1>11. /\ f.index = Len(s.done) /\ Len(s.done) \in Nat
       /\ \A g \in o.finals : g.index < f.index /\ g.index \in Nat
  <2>1. f.index = Len(s.done) /\ Len(s.done) \in Nat
    BY RowsAreNumbers DEF LiveSink, Indexed
  <2>2. \A g \in o.finals : g.index \in Nat
    BY DEF Directories, Files
  <2> QED  BY <2>1, <2>2 DEF LiveSink, Indexed
<1>12. FilesInOrder(p)
  <2>1. \A g, h \in p.finals : g.index = h.index => g = h
    BY <1>11 DEF LiveSink, FilesInOrder
  <2>2. ASSUME NEW g \in WholeFiles(p), NEW h \in WholeFiles(p), NEW i \in DOMAIN g.rows, NEW j \in DOMAIN h.rows,
               g.index < h.index \/ (g = h /\ i < j)
        PROVE  g.rows[i] < h.rows[j]
    <3>0. (g \in WholeFiles(o) \/ (g = f /\ f.whole)) /\ (h \in WholeFiles(o) \/ (h = f /\ f.whole))
      BY DEF WholeFiles
    <3>1. CASE g \in WholeFiles(o) /\ h \in WholeFiles(o)
      BY <2>2, <3>1 DEF LiveSink, FilesInOrder
    <3>2. CASE g \in WholeFiles(o) /\ h = f /\ f.whole
      <4>1. g.rows[i] \in KeptRows(o)
        BY <3>2 DEF KeptRows, Range
      <4>2. h.rows[j] \in Underway(s)
        BY <1>2, <1>6, <3>2 DEF Range
      <4> QED  BY <1>4, <4>1, <4>2
    <3>3. CASE g = f /\ f.whole
      <4>1. h = f
        <5>1. h \in o.finals \/ h = f
          BY <3>0 DEF WholeFiles
        <5> QED  BY <1>11, <2>2, <3>3, <5>1
      <4>2. i < j
        BY <1>11, <2>2, <3>3, <4>1
      <4> QED  BY <1>2, <1>4, <3>3, <4>1, <4>2 DEF InTurn, Rising
    <3> QED  BY <3>0, <3>1, <3>2, <3>3
  <2> QED  BY <2>1, <2>2 DEF FilesInOrder
<1>13. Indexed(p, t)
  <2>1. IsFiniteSet(o.finals) /\ Cardinality(o.finals) = Len(s.done) + 0
    BY DEF LiveSink, Indexed
  <2>2. IsFiniteSet(p.finals)
    <3>1. IsFiniteSet(o.finals \cup {f})
      BY <2>1, FS_AddElement
    <3> QED  BY <3>1
  <2>3. f \notin o.finals
    BY <1>11
  <2>5. Cardinality(p.finals) = Len(s.done) + 1
    <3>1. Cardinality(o.finals \cup {f}) = Cardinality(o.finals) + 1
      BY <2>1, <2>3, FS_AddElement
    <3>2. Cardinality(o.finals) = Len(s.done)
      BY <1>11, <2>1
    <3> QED  BY <3>1, <3>2
  <2>7. HeldBy(p, s.active.index, Len(s.active.rows))
    BY DEF HeldBy
  <2>8. \A g \in p.finals : g.index < Len(s.done) \/ g.index = Len(s.done)
    BY <1>11
  <2>9. \A n \in DOMAIN s.done : HeldBy(p, s.done[n].index, s.done[n].count)
    BY DEF LiveSink, Indexed, HeldBy
  <2> QED  BY <1>1, <1>11, <2>2, <2>5, <2>7, <2>8, <2>9 DEF Indexed
<1>14. OpenListing(p, t) /\ Ruined(p, t.active)
  BY <1>1 DEF LiveSink, OpenListing, Ruined
<1>15. InNumbers(p) /\ ListedAreThere(p)
  BY DEF LiveSink, InNumbers, ListedAreThere
<1> QED  BY <1>1, <1>10, <1>12, <1>13, <1>14, <1>15 DEF LiveSink

\* The segment is among those that are done: the manifest says so, or could not be written.
RecordedAt(s, step) == [Recorded(s) EXCEPT !.step = step]
LEMMA SegmentRecorded ==
  ASSUME NEW o \in Directories, NEW s \in Sinks, LiveSink(o, s), s.step = "list",
         NEW step \in {"flush", "rest"}, NEW t, t = RecordedAt(s, step),
         NEW p \in Directories, SameRows(o, p), p.manifest.status = "open",
         p.manifest.completed = t.done \/ (p.manifest = o.manifest /\ p.stale)
  PROVE  /\ t \in Sinks /\ LiveSink(p, t) /\ t.step = step /\ t.rows = s.rows /\ t.pending = s.pending
         /\ t.item = s.item /\ t.active = NoSegment
<1>u. s.active \in PartFiles /\ s.active.rows \in Seq(Nat) /\ s.done \in Seq(PartEntries) /\ Len(s.done) \in Nat
  BY RowsAreNumbers
<1>1. PICK m \in Nat, l \in Nat : m = Len(s.done) /\ l = Len(s.active.rows)
  BY <1>u
<1>2. PICK x \in PartEntries : x = [index |-> s.active.index, count |-> l]
  BY <1>u, <1>1 DEF PartFiles, PartEntries
<1>3. PICK done \in Seq(PartEntries) : done = Append(s.done, x) /\ Len(done) = m + 1 /\ DOMAIN done = 1 .. m + 1
                                   /\ done[m + 1] = x /\ \A i \in 1 .. m : done[i] = s.done[i] /\ i \in DOMAIN s.done
  <2>1. Append(s.done, x) \in Seq(PartEntries) /\ Len(Append(s.done, x)) = m + 1 /\ DOMAIN Append(s.done, x) = 1 .. m + 1
        /\ Append(s.done, x)[m + 1] = x
    BY <1>u, <1>1
  <2>2. \A i \in 1 .. m : Append(s.done, x)[i] = s.done[i] /\ i \in DOMAIN s.done
    BY <1>u, <1>1
  <2> QED  BY <2>1, <2>2
<1>5. PICK a \in PartFiles : a = NoSegment /\ a.at = "none" /\ a.rows = <<>> /\ a.whole
  <2>1. PICK e \in Seq(Nat) : e = <<>>
    BY NothingRises
  <2>2. PICK a \in PartFiles : a = [index |-> 0, rows |-> e, at |-> "none", whole |-> TRUE]
    BY DEF PartFiles
  <2>3. a = NoSegment /\ a.at = "none" /\ a.rows = <<>> /\ a.whole
    BY <2>1, <2>2 DEF NoSegment
  <2> QED  BY <2>3
<1>6. t \in Sinks /\ t.active = a /\ t.done = done /\ t.step = step /\ t.pending = s.pending /\ t.rows = s.rows
      /\ t.item = s.item
  <2>1. Recorded(s) = [s EXCEPT !.active = a, !.done = done]
    BY <1>1, <1>2, <1>3, <1>5 DEF Recorded
  <2>2. t = [s EXCEPT !.active = a, !.done = done, !.step = step]
    BY <2>1 DEF Sinks, RecordedAt
  <2> QED  BY <2>2 DEF Sinks, SinkStates
<1>7. Loose(s) = <<>> /\ Loose(t) = <<>> /\ Buffered(t) = Buffered(s)
  BY <1>5, <1>6 DEF Loose, Buffered
<1>8. Underway(t) = Underway(s) /\ KeptRows(p) = KeptRows(o) /\ AcceptedRows(p) = AcceptedRows(o)
  BY <1>6, <1>7 DEF Underway, KeptRows, AcceptedRows, WholeFiles, SameRows
<1>9. Flows(p, t)
  BY <1>6, <1>7, <1>8 DEF LiveSink, Flows
<1>10. HeldBy(o, s.active.index, Len(s.active.rows))
  BY DEF LiveSink, Indexed
<1>11. \A n \in DOMAIN done : HeldBy(p, done[n].index, done[n].count)
  <2> SUFFICES ASSUME NEW n \in DOMAIN done PROVE HeldBy(o, done[n].index, done[n].count)
    BY DEF HeldBy, SameRows
  <2>3. n \in 1 .. m + 1
    BY <1>3
  <2>1. CASE n = m + 1
    <3>1. done[n].index = s.active.index /\ done[n].count = Len(s.active.rows)
      BY <1>1, <1>2, <1>3, <2>1
    <3> QED  BY <1>10, <3>1
  <2>2. CASE n \in 1 .. m
    <3>1. done[n] = s.done[n] /\ n \in DOMAIN s.done
      BY <1>3, <2>2
    <3> QED  BY <3>1 DEF LiveSink, Indexed
  <2> QED  BY <1>1, <2>1, <2>2, <2>3
<1>12. Indexed(p, t)
  <2>1. IsFiniteSet(o.finals) /\ Cardinality(o.finals) = m + 1
        /\ \A f \in o.finals : f.index < m \/ f.index = m
    BY <1>1 DEF LiveSink, Indexed
  <2>2. \A f \in o.finals : f.index \in Nat
    BY DEF Directories, Files
  <2>3. \A f \in p.finals : f.index < m + 1
    BY <2>1, <2>2 DEF SameRows
  <2>4. IsFiniteSet(p.finals) /\ Cardinality(p.finals) = (m + 1) + 0
    BY <2>1 DEF SameRows
  <2>6. t.step # "list" /\ Len(t.done) = m + 1 /\ t.active.at # "open"
    BY <1>3, <1>5, <1>6
  <2> QED  BY <1>6, <1>11, <2>3, <2>4, <2>6 DEF Indexed
<1>13. ListedAreThere(p)
  <2>1. CASE p.manifest.completed = t.done
    BY <1>6, <1>11, <2>1 DEF ListedAreThere, HeldBy
  <2>2. CASE p.manifest = o.manifest
    BY <2>2 DEF LiveSink, ListedAreThere, SameRows
  <2> QED  BY <2>1, <2>2
<1>14. OpenListing(p, t)
  BY DEF LiveSink, OpenListing, SameRows
<1>15. InNumbers(p) /\ FilesInOrder(p) /\ Ruined(p, t.active)
  BY <1>5, <1>6 DEF LiveSink, InNumbers, FilesInOrder, WholeFiles, SameRows, Ruined
<1> QED  BY <1>5, <1>6, <1>9, <1>12, <1>13, <1>14, <1>15 DEF LiveSink

\* The row that write() held goes into the buffer.
LEMMA ItemTaken ==
  ASSUME NEW o, NEW s \in Sinks, LiveSink(o, s), s.step = "rest", s.pending = <<>>, s.active = NoSegment,
         NEW t, t = [s EXCEPT !.rows = s.rows \o s.item, !.item = <<>>]
  PROVE  t \in Sinks /\ LiveSink(o, t) /\ Stands(t) /\ t.step = "rest" /\ t.active = NoSegment
<1>1. PICK rows \in Seq(Nat), e \in Seq(Nat) : rows = Buffered(s) /\ e = <<>>
  <2>1. s.rows \in Seq(Nat) /\ s.item \in Seq(Nat)
    BY DEF Sinks
  <2> QED  BY <2>1, JoinedRange, NothingRises DEF Buffered
<1>2. t \in Sinks /\ t.rows = rows /\ t.item = <<>> /\ t.pending = <<>> /\ t.step = "rest" /\ t.done = s.done
      /\ t.active = s.active
  <2>1. t = [s EXCEPT !.rows = rows, !.item = e]
    BY <1>1 DEF Buffered
  <2> QED  BY <1>1, <2>1 DEF Sinks
<1>3. Buffered(t) = Buffered(s)
  BY <1>1, <1>2, NothingHeld
<1>4. Loose(t) = Loose(s)
  BY <1>2 DEF Loose
<1>5. Flows(o, t)
  BY <1>2, <1>3, <1>4 DEF LiveSink, Flows, Underway
<1>6. Indexed(o, t)
  BY <1>2 DEF LiveSink, Indexed
<1>7. OpenListing(o, t) /\ Stands(t)
  BY <1>2 DEF LiveSink, OpenListing, Stands
<1> QED  BY <1>2, <1>5, <1>6, <1>7 DEF LiveSink

LEMMA DirectoryClosed ==
  ASSUME NEW o \in Directories, NEW s \in Sinks, LiveSink(o, s), Stands(s), Shown(o, s), s.step = "rest",
         s.rows = <<>>, s.active.at # "open",
         NEW p \in Directories, SameRows(o, p), p.manifest.completed = s.done,
         s.active.at = "none" => p.manifest.incomplete = {}
  PROVE  SoundDirectory(p)
<1>1. Underway(s) = {}
  <2>1. s.pending = <<>> /\ Loose(s) = <<>> /\ Buffered(s) = <<>>
    BY NothingHeld DEF Stands, Loose
  <2> QED  BY <2>1, NothingRises DEF Underway
<1>2. KeptRows(p) = KeptRows(o) /\ AcceptedRows(p) = AcceptedRows(o) /\ KeptRows(o) = AcceptedRows(o)
  BY <1>1 DEF LiveSink, Flows, KeptRows, AcceptedRows, WholeFiles, SameRows
<1>3. FirstAreKept(p)
  BY <1>2 DEF FirstAreKept
<1>4. Len(s.done) \in Nat /\ s.active \in PartFiles
  BY RowsAreNumbers
<1>5. Cardinality(p.finals) = Len(p.manifest.completed) /\ Len(p.manifest.completed) \in Nat
  <2>1. Cardinality(o.finals) = Len(s.done) + 0
    BY DEF LiveSink, Indexed
  <2> QED  BY <1>4, <2>1 DEF SameRows
<1>6. ClosedIsWhole(p)
  <2>1. p.manifest.incomplete # {} => p.lost # {}
    BY <1>4 DEF Shown, SameRows, PartFiles
  <2> QED  BY <1>2, <1>5, <2>1 DEF ClosedIsWhole
<1>7. FilesInOrder(p)
  BY DEF LiveSink, FilesInOrder, WholeFiles, SameRows
<1>8. ListedAreThere(p)
  BY DEF LiveSink, Indexed, HeldBy, ListedAreThere, SameRows
<1>9. Cardinality(p.finals) <= Len(p.manifest.completed) + 1
  BY <1>5
<1> QED  BY <1>3, <1>6, <1>7, <1>8, <1>9 DEF SoundDirectory

-----------------------------------------------------------------------------
\* The set of sinks.

SinkSets == [phase : {"idle", "entering", "open", "closing"}, at : Nat, runs : Nat, sink : [1 .. SinkCount -> Sinks]]
StreamType == sinks \in SinkSets /\ datasets \in [1 .. SinkCount -> Directories]

\* The sinks that were entered and not left.
IsLive(r) ==
  \/ sinks.phase = "open"
  \/ sinks.phase = "closing" /\ r <= sinks.at
  \/ sinks.phase = "entering" /\ r < sinks.at
RunsWell(o, s) == LiveSink(o, s) /\ Stands(s) /\ Shown(o, s)
StreamInv ==
  /\ StreamType
  /\ \A r \in 1 .. SinkCount : SoundDirectory(datasets[r])
  /\ \A r \in 1 .. SinkCount : IsLive(r) => RunsWell(datasets[r], sinks.sink[r])
  /\ sinks.phase = "entering" => \A r \in 1 .. SinkCount : sinks.sink[r] = FreshSink
  /\ sinks.phase = "open" => \A r \in 1 .. SinkCount : MayPlace(sinks.sink[r])

LEMMA StreamTold == StreamInv => SegmentsAreKept
  BY DEF StreamInv, SoundDirectory, SegmentsAreKept

LEMMA FreshIsFresh ==
  /\ FreshSink \in Sinks /\ FreshSink.rows = <<>> /\ FreshSink.pending = <<>> /\ FreshSink.item = <<>>
  /\ FreshSink.active = NoSegment /\ FreshSink.done = <<>> /\ FreshSink.step = "rest"
  /\ NoSegment \in PartFiles /\ Unlisted \in Listings /\ Empty \in Directories
<1>1. PICK e \in Seq(Nat), d \in Seq(PartEntries) : e = <<>> /\ d = <<>>
  <2>1. <<>> \in Seq(Nat) /\ <<>> \in Seq(PartEntries)
    OBVIOUS
  <2> QED  BY <2>1
<1>2. PICK a \in PartFiles : a = NoSegment
  <2>1. [index |-> 0, rows |-> e, at |-> "none", whole |-> TRUE] \in PartFiles
    BY DEF PartFiles
  <2> QED  BY <1>1, <2>1 DEF NoSegment
<1>3. [rows |-> e, pending |-> e, item |-> e, active |-> a, done |-> d, step |-> "rest"] \in Sinks
  BY DEF Sinks, SinkStates
<1>4. FreshSink = [rows |-> e, pending |-> e, item |-> e, active |-> a, done |-> d, step |-> "rest"]
  BY <1>1, <1>2 DEF FreshSink
<1>5. PICK u \in Listings : u = Unlisted
  <2>1. [status |-> "none", completed |-> d, incomplete |-> {}] \in Listings
    BY DEF Listings
  <2> QED  BY <1>1, <2>1 DEF Unlisted
<1>6. [finals |-> {}, temps |-> {}, manifest |-> u, stale |-> FALSE, clearing |-> FALSE, given |-> e, lost |-> {}]
        \in Directories
  BY DEF Directories
<1>7. FreshSink \in Sinks /\ FreshSink.rows = <<>> /\ FreshSink.pending = <<>> /\ FreshSink.item = <<>>
      /\ FreshSink.active = NoSegment /\ FreshSink.done = <<>> /\ FreshSink.step = "rest"
  BY <1>1, <1>2, <1>3, <1>4
<1> QED  BY <1>1, <1>2, <1>5, <1>6, <1>7 DEF Empty

\* A directory with a new manifest and nothing in it.
LEMMA EnteredIsLive ==
  ASSUME NEW p \in Directories, p.finals = {}, ~p.clearing, p.given = <<>>, p.lost = {},
         p.manifest.status = "open", p.manifest.completed = <<>>
  PROVE  RunsWell(p, FreshSink)
<1>1. KeptRows(p) = {} /\ AcceptedRows(p) = {}
  BY NothingRises DEF KeptRows, AcceptedRows, WholeFiles
<1>0. NoSegment.at = "none" /\ NoSegment.whole
  BY DEF NoSegment
<1>2. Loose(FreshSink) = <<>> /\ Buffered(FreshSink) = <<>>
  BY <1>0, FreshIsFresh, NothingHeld DEF Loose
<1>3. Underway(FreshSink) = {}
  BY <1>2, FreshIsFresh, NothingRises DEF Underway
<1>4. InTurn(Loose(FreshSink), FreshSink.pending, Buffered(FreshSink))
  BY <1>2, FreshIsFresh, NothingRises DEF InTurn
<1>5. Flows(p, FreshSink)
  BY <1>1, <1>3, <1>4 DEF Flows
<1>6. Indexed(p, FreshSink)
  <2>1. IsFiniteSet(p.finals) /\ Cardinality(p.finals) = 0
    BY FS_EmptySet
  <2>2. Len(FreshSink.done) = 0 /\ FreshSink.step = "rest" /\ FreshSink.active.at # "open"
        /\ DOMAIN FreshSink.done = {}
    BY <1>0, FreshIsFresh
  <2> QED  BY <2>1, <2>2 DEF Indexed
<1>7. Stands(FreshSink) /\ Shown(p, FreshSink) /\ Ruined(p, FreshSink.active)
  BY <1>0, FreshIsFresh DEF Stands, Shown, Ruined
<1>8. OpenListing(p, FreshSink) /\ InNumbers(p) /\ FilesInOrder(p) /\ ListedAreThere(p)
  BY FreshIsFresh DEF OpenListing, InNumbers, FilesInOrder, ListedAreThere, WholeFiles
<1> QED  BY <1>5, <1>6, <1>7, <1>8 DEF LiveSink, RunsWell

LEMMA EndedIs ==
  ASSUME NEW n \in Nat
  PROVE  Ended(n) \in SinkSets /\ Ended(n).phase = "idle" /\ Ended(n).at = 0 /\ Ended(n).runs = n
         /\ \A r \in 1 .. SinkCount : Ended(n).sink[r] = FreshSink
<1>1. PICK f \in [1 .. SinkCount -> Sinks] : f = [r \in 1 .. SinkCount |-> FreshSink]
  BY FreshIsFresh
<1>2. Ended(n) = [phase |-> "idle", at |-> 0, runs |-> n, sink |-> f]
  BY <1>1 DEF Ended
<1>3. Ended(n) \in SinkSets
  BY <1>2 DEF SinkSets
<1> QED  BY <1>1, <1>2, <1>3

LEMMA StreamStarts == StreamInit => StreamInv
<1> SUFFICES ASSUME StreamInit PROVE StreamInv
  OBVIOUS
<1>1. sinks \in SinkSets /\ sinks.phase = "idle"
  BY EndedIs DEF StreamInit
<1>2. datasets \in [1 .. SinkCount -> Directories] /\ \A r \in 1 .. SinkCount : datasets[r] = Empty
  BY FreshIsFresh DEF StreamInit
<1>3. SoundDirectory(Empty)
  <2>1. KeptRows(Empty) = {} /\ AcceptedRows(Empty) = {}
    BY NothingRises DEF KeptRows, AcceptedRows, WholeFiles, Empty
  <2>2. Empty.finals = {} /\ Empty.manifest.completed = <<>> /\ Empty.manifest.status = "none"
    BY DEF Empty, Unlisted
  <2>3. Cardinality(Empty.finals) = 0 /\ Len(Empty.manifest.completed) = 0
    BY <2>2, FS_EmptySet
  <2> QED  BY <2>1, <2>2, <2>3 DEF SoundDirectory, FilesInOrder, FirstAreKept, ListedAreThere, WholeFiles
<1> QED  BY <1>1, <1>2, <1>3 DEF StreamInv, StreamType, IsLive

LEMMA RoleSteps ==
  ASSUME StreamInv, NEW r \in 1 .. SinkCount, sinks.phase # "entering", IsLive(r),
         NEW s \in Sinks, NEW o \in Directories, RunsWell(o, s), sinks.phase = "open" => MayPlace(s),
         sinks' = [sinks EXCEPT !.sink[r] = s], datasets' = [datasets EXCEPT ![r] = o]
  PROVE  StreamInv'
<1>t. sinks \in SinkSets /\ datasets \in [1 .. SinkCount -> Directories] /\ sinks.sink \in [1 .. SinkCount -> Sinks]
  BY DEF StreamInv, StreamType, SinkSets
<1>1. PICK f \in [1 .. SinkCount -> Sinks] : f = [sinks.sink EXCEPT ![r] = s] /\ f[r] = s
                                             /\ \A q \in 1 .. SinkCount : q # r => f[q] = sinks.sink[q]
  <2>1. [sinks.sink EXCEPT ![r] = s] \in [1 .. SinkCount -> Sinks]
    BY <1>t
  <2>2. [sinks.sink EXCEPT ![r] = s][r] = s
        /\ \A q \in 1 .. SinkCount : q # r => [sinks.sink EXCEPT ![r] = s][q] = sinks.sink[q]
    BY <1>t
  <2> QED  BY <2>1, <2>2
<1>2. sinks' \in SinkSets /\ sinks'.phase = sinks.phase /\ sinks'.at = sinks.at /\ sinks'.sink = f
  <2>1. sinks' = [sinks EXCEPT !.sink = f]
    BY <1>t, <1>1 DEF SinkSets
  <2> QED  BY <1>t, <2>1 DEF SinkSets
<1>3. datasets' \in [1 .. SinkCount -> Directories] /\ datasets'[r] = o
      /\ \A q \in 1 .. SinkCount : q # r => datasets'[q] = datasets[q]
  BY <1>t
<1>4. SoundDirectory(o)
  BY LiveIsSound DEF RunsWell
<1>5. \A q \in 1 .. SinkCount : IsLive(q)' <=> IsLive(q)
  BY <1>2 DEF IsLive
<1>6. \A q \in 1 .. SinkCount : SoundDirectory(datasets'[q])
  BY <1>3, <1>4 DEF StreamInv
<1>7. \A q \in 1 .. SinkCount : IsLive(q)' => RunsWell(datasets'[q], sinks'.sink[q])
  BY <1>1, <1>2, <1>3, <1>5 DEF StreamInv
<1>8. sinks.phase = "open" => \A q \in 1 .. SinkCount : MayPlace(f[q])
  BY <1>1 DEF StreamInv
<1> QED  BY <1>2, <1>3, <1>6, <1>7, <1>8 DEF StreamInv, StreamType

\* The same, when the directory is not touched.
LEMMA SinkSteps ==
  ASSUME StreamInv, NEW r \in 1 .. SinkCount, sinks.phase # "entering", IsLive(r),
         NEW s \in Sinks, RunsWell(datasets[r], s),
         sinks.phase = "open" => MayPlace(s), sinks' = [sinks EXCEPT !.sink[r] = s], datasets' = datasets
  PROVE  StreamInv'
<1>1. datasets \in [1 .. SinkCount -> Directories] /\ datasets[r] \in Directories
  BY DEF StreamInv, StreamType
<1>2. datasets' = [datasets EXCEPT ![r] = datasets[r]]
  BY <1>1
<1> QED  BY <1>1, <1>2, RoleSteps

LEMMA ProcessEnds ==
  ASSUME StreamInv, Leave, datasets' \in [1 .. SinkCount -> Directories],
         \A r \in 1 .. SinkCount : SoundDirectory(datasets'[r])
  PROVE  StreamInv'
<1>1. sinks.runs \in Nat
  BY DEF StreamInv, StreamType, SinkSets
<1>2. sinks' \in SinkSets /\ sinks'.phase = "idle"
  BY <1>1, EndedIs DEF Leave
<1> QED  BY <1>2 DEF StreamInv, StreamType, IsLive

LEMMA ItsTurn ==
  ASSUME StreamInv, NEW r \in 1 .. SinkCount, SinkTurn(r)
  PROVE  /\ sinks.phase # "entering" /\ IsLive(r) /\ RunsWell(datasets[r], Sink(r))
         /\ sinks.phase = "open" => MayPlace(Sink(r))
         /\ Sink(r) \in Sinks /\ datasets[r] \in Directories
<1>1. sinks.phase \in {"open", "closing"} /\ (sinks.phase = "closing" => r <= sinks.at)
  BY DEF SinkTurn
<1>2. Sink(r) \in Sinks /\ datasets[r] \in Directories
  BY DEF StreamInv, StreamType, SinkSets, Sink
<1> QED  BY <1>1, <1>2 DEF StreamInv, IsLive, Sink

LEMMA NewSegmentIs ==
  ASSUME StreamInv, NEW r \in 1 .. SinkCount, LiveSink(datasets[r], Sink(r)), Sink(r).step # "list",
         Sink(r) \in Sinks, datasets[r] \in Directories
  PROVE  NewSegment(r) = BlankSegment(Sink(r), "open")
<1>1. PICK m \in Nat : m = Len(Sink(r).done)
  BY RowsAreNumbers
<1> DEFINE taken == {f.index : f \in datasets[r].finals}
           free == {i \in m .. m + Cardinality(taken) : i \notin taken}
<1>2. \A i \in taken : i \in 0 .. m - 1
  <2>1. \A f \in datasets[r].finals : f.index \in Nat /\ f.index < m
    BY <1>1 DEF LiveSink, Indexed, Directories, Files
  <2> QED  BY <2>1
<1>3. Cardinality(taken) \in Nat
  <2>1. IsFiniteSet(0 .. m - 1)
    BY FS_Interval
  <2>2. IsFiniteSet(taken)
    BY <1>2, <2>1, FS_Subset
  <2> QED  BY <2>2, FS_CardinalityType
<1>4. m \in free /\ \A i \in free : m <= i /\ i \in Nat
  BY <1>2, <1>3
<1>5. NewSegment(r) = [NoSegment EXCEPT !.index = Min(free), !.at = "open"]
  BY <1>1 DEF NewSegment
<1> HIDE DEF free
<1>6. Min(free) = m
  BY <1>4, LeastOfNumbers
<1> QED  BY <1>1, <1>5, <1>6 DEF BlankSegment, NoSegment

LEMMA ListingIs ==
  ASSUME NEW s \in Sinks, NEW status \in {"open", "closed"}
  PROVE  /\ SegmentListing(s, status) \in Listings /\ SegmentListing(s, status).status = status
         /\ SegmentListing(s, status).completed = s.done
         /\ (s.active.at = "none" => SegmentListing(s, status).incomplete = {})
<1>1. s.active.rows \in Seq(Nat) /\ s.done \in Seq(PartEntries)
  BY DEF Sinks, PartFiles
<1>2. PICK left \in SUBSET Nat : left = IF s.active.at # "none" THEN {Len(s.active.rows)} ELSE {}
  <2>1. Len(s.active.rows) \in Nat
    BY <1>1
  <2> QED  BY <2>1
<1>3. SegmentListing(s, status) = [status |-> status, completed |-> s.done, incomplete |-> left]
  BY <1>2 DEF SegmentListing
<1>4. [status |-> status, completed |-> s.done, incomplete |-> left] \in Listings
  BY <1>1 DEF Listings
<1> QED  BY <1>2, <1>3, <1>4

\* A directory beside which the manifest is written.
LEMMA ManifestWritten ==
  ASSUME NEW o \in Directories, NEW s \in Sinks, NEW p, p = WithManifest(o, s)
  PROVE  p \in Directories /\ SameRows(o, p) /\ p.manifest.status = "open" /\ p.manifest.completed = s.done
<1>1. PICK l \in Listings : l = SegmentListing(s, "open") /\ l.status = "open" /\ l.completed = s.done
  <2>1. SegmentListing(s, "open") \in Listings /\ SegmentListing(s, "open").status = "open"
        /\ SegmentListing(s, "open").completed = s.done
    BY ListingIs
  <2> QED  BY <2>1
<1>2. p = [o EXCEPT !.manifest = l, !.stale = FALSE]
  BY <1>1 DEF WithManifest
<1> QED  BY <1>1, <1>2 DEF Directories, SameRows
LEMMA ManifestKept ==
  ASSUME NEW o \in Directories, NEW p, p = StaleManifest(o)
  PROVE  p \in Directories /\ SameRows(o, p) /\ p.manifest = o.manifest /\ p.stale
<1>1. p = [o EXCEPT !.stale = TRUE]
  BY DEF StaleManifest
<1> QED  BY <1>1 DEF Directories, SameRows
LEMMA TempsChanged ==
  ASSUME NEW o \in Directories, NEW temps \in SUBSET Nat, NEW p, p = [o EXCEPT !.temps = temps]
  PROVE  p \in Directories /\ SameRows(o, p) /\ p.manifest = o.manifest /\ p.stale = o.stale
  BY DEF Directories, SameRows

LEMMA SinksOpened == StreamInv /\ OpenSinks => StreamInv'
<1> SUFFICES ASSUME StreamInv, OpenSinks PROVE StreamInv'
  OBVIOUS
<1>1. PICK n \in Nat : n = sinks.runs + 1
  BY DEF StreamInv, StreamType, SinkSets
<1>2. PICK e \in SinkSets : e = Ended(n) /\ \A r \in 1 .. SinkCount : e.sink[r] = FreshSink
  BY EndedIs
<1>3. sinks' = [e EXCEPT !.phase = "entering", !.at = 1] /\ datasets' = datasets
  BY <1>1, <1>2 DEF OpenSinks
<1>4. sinks' \in SinkSets /\ sinks'.phase = "entering" /\ sinks'.at = 1 /\ sinks'.sink = e.sink
  BY <1>2, <1>3 DEF SinkSets
<1>5. \A r \in 1 .. SinkCount : ~IsLive(r)'
  BY <1>4, StreamAssumption DEF IsLive
<1> QED  BY <1>2, <1>3, <1>4, <1>5 DEF StreamInv, StreamType

LEMMA FileCleared ==
  ASSUME StreamInv, NEW r \in 1 .. SinkCount, ClearFile(r)
  PROVE  StreamInv'
<1>1. PICK d \in Directories : d = datasets[r]
  BY DEF StreamInv, StreamType
<1>2. PICK o \in Directories : o.clearing /\ datasets' = [datasets EXCEPT ![r] = o]
  <2>1. CASE \E f \in datasets[r].finals :
               datasets' = [datasets EXCEPT ![r].finals = @ \ {f}, ![r].clearing = TRUE]
    <3>1. PICK f \in d.finals : datasets' = [datasets EXCEPT ![r] = [d EXCEPT !.finals = d.finals \ {f}, !.clearing = TRUE]]
      BY <1>1, <2>1 DEF StreamInv, StreamType
    <3>2. [d EXCEPT !.finals = d.finals \ {f}, !.clearing = TRUE] \in Directories
          /\ [d EXCEPT !.finals = d.finals \ {f}, !.clearing = TRUE].clearing
      BY <1>1 DEF Directories
    <3> QED  BY <3>1, <3>2
  <2>2. CASE \E t \in datasets[r].temps :
               datasets' = [datasets EXCEPT ![r].temps = @ \ {t}, ![r].clearing = TRUE]
    <3>1. PICK t \in d.temps : datasets' = [datasets EXCEPT ![r] = [d EXCEPT !.temps = d.temps \ {t}, !.clearing = TRUE]]
      BY <1>1, <2>2 DEF StreamInv, StreamType
    <3>2. [d EXCEPT !.temps = d.temps \ {t}, !.clearing = TRUE] \in Directories
          /\ [d EXCEPT !.temps = d.temps \ {t}, !.clearing = TRUE].clearing
      BY <1>1 DEF Directories
    <3> QED  BY <3>1, <3>2
  <2>3. CASE datasets' = [datasets EXCEPT ![r].manifest = Unlisted, ![r].clearing = TRUE]
    <3>1. PICK u \in Listings : u = Unlisted
      BY FreshIsFresh
    <3>2. datasets' = [datasets EXCEPT ![r] = [d EXCEPT !.manifest = u, !.clearing = TRUE]]
      BY <1>1, <2>3, <3>1 DEF StreamInv, StreamType
    <3>3. [d EXCEPT !.manifest = u, !.clearing = TRUE] \in Directories
          /\ [d EXCEPT !.manifest = u, !.clearing = TRUE].clearing
      BY <1>1 DEF Directories
    <3> QED  BY <3>2, <3>3
  <2> QED  BY <2>1, <2>2, <2>3 DEF ClearFile
<1>3. sinks' = sinks /\ ~IsLive(r)
  <2>1. sinks.at \in Nat
    BY DEF StreamInv, StreamType, SinkSets
  <2> QED  BY <2>1 DEF ClearFile, Entering, IsLive
<1>4. datasets' \in [1 .. SinkCount -> Directories] /\ datasets'[r] = o
      /\ \A q \in 1 .. SinkCount : q # r => datasets'[q] = datasets[q]
  BY <1>2 DEF StreamInv, StreamType
<1>5. \A q \in 1 .. SinkCount : SoundDirectory(datasets'[q])
  BY <1>2, <1>4 DEF StreamInv, SoundDirectory
<1>6. \A q \in 1 .. SinkCount : IsLive(q)' => RunsWell(datasets'[q], sinks'.sink[q])
  <2>1. \A q \in 1 .. SinkCount : IsLive(q)' => IsLive(q) /\ q # r
    BY <1>3 DEF IsLive
  <2> QED  BY <1>3, <1>4, <2>1 DEF StreamInv
<1>7. sinks.phase = "entering"
  BY DEF ClearFile, Entering
<1> QED  BY <1>3, <1>4, <1>5, <1>6, <1>7 DEF StreamInv, StreamType

LEMMA SinkEntered ==
  ASSUME StreamInv, NEW r \in 1 .. SinkCount, EnterSink(r)
  PROVE  StreamInv'
<1>t. sinks \in SinkSets /\ datasets \in [1 .. SinkCount -> Directories] /\ r \in Nat
  BY DEF StreamInv, StreamType
<1>1. PICK e \in Directories : e = Empty /\ e.finals = {} /\ ~e.clearing /\ e.given = <<>> /\ e.lost = {}
  BY FreshIsFresh DEF Empty
<1>2. PICK l \in Listings : l = SegmentListing(FreshSink, "open") /\ l.status = "open" /\ l.completed = <<>>
  <2>1. SegmentListing(FreshSink, "open") \in Listings /\ SegmentListing(FreshSink, "open").status = "open"
        /\ SegmentListing(FreshSink, "open").completed = FreshSink.done
    BY FreshIsFresh, ListingIs
  <2> QED  BY <2>1, FreshIsFresh
<1>3. PICK o \in Directories : o = [e EXCEPT !.manifest = l] /\ RunsWell(o, FreshSink)
  <2>3. [e EXCEPT !.manifest = l] \in Directories
    BY <1>1, <1>2 DEF Directories
  <2>4. PICK o : o = [e EXCEPT !.manifest = l]
    OBVIOUS
  <2>1. o \in Directories /\ o.finals = {} /\ ~o.clearing /\ o.given = <<>> /\ o.lost = {} /\ o.manifest = l
    BY <1>1, <1>2, <2>3, <2>4 DEF Directories
  <2>2. RunsWell(o, FreshSink)
    BY <1>2, <2>1, EnteredIsLive
  <2> QED  BY <2>1, <2>2, <2>4
<1>4. datasets' = [datasets EXCEPT ![r] = o]
  BY <1>1, <1>2, <1>3 DEF EnterSink
<1>5. datasets' \in [1 .. SinkCount -> Directories] /\ datasets'[r] = o
      /\ \A q \in 1 .. SinkCount : q # r => datasets'[q] = datasets[q]
  BY <1>t, <1>4
<1>6. sinks.phase = "entering" /\ sinks.at = r /\ \A q \in 1 .. SinkCount : sinks.sink[q] = FreshSink
  BY DEF EnterSink, Entering, StreamInv
<1>7. PICK phase \in {"open", "entering"} : phase = IF r = SinkCount THEN "open" ELSE "entering"
  OBVIOUS
<1>8. PICK at \in Nat : at = r + 1
  BY <1>t
<1>9. sinks' \in SinkSets /\ sinks'.phase = phase /\ sinks'.at = at /\ sinks'.sink = sinks.sink
  <2>1. sinks' = [sinks EXCEPT !.phase = phase, !.at = at]
    BY <1>6, <1>7, <1>8 DEF EnterSink
  <2> QED  BY <1>t, <1>7, <1>8, <2>1 DEF SinkSets
<1>10. SoundDirectory(o)
  BY <1>3, FreshIsFresh, LiveIsSound DEF RunsWell
<1>11. ASSUME NEW q \in 1 .. SinkCount, IsLive(q)' PROVE RunsWell(datasets'[q], sinks'.sink[q])
  <2>1. CASE q = r
    BY <1>3, <1>5, <1>6, <1>9, <2>1
  <2>2. CASE q # r
    <3>1. q < r
      <4>1. q \in Nat /\ SinkCount \in Nat /\ r <= SinkCount /\ q <= SinkCount
        BY StreamAssumption
      <4>2. phase = "open" => q < r
        BY <1>7, <2>2, <4>1
      <4>3. phase = "entering" => q < r
        BY <1>8, <1>9, <1>11, <2>2, <4>1 DEF IsLive
      <4> QED  BY <1>7, <4>2, <4>3
    <3>2. RunsWell(datasets[q], sinks.sink[q])
      BY <1>6, <3>1 DEF StreamInv, IsLive
    <3> QED  BY <1>5, <1>9, <2>2, <3>2
  <2> QED  BY <2>1, <2>2
<1>12. \A q \in 1 .. SinkCount : SoundDirectory(datasets'[q])
  BY <1>5, <1>10 DEF StreamInv
<1>13. MayPlace(FreshSink)
  BY FreshIsFresh DEF MayPlace
<1> QED  BY <1>5, <1>6, <1>9, <1>11, <1>12, <1>13 DEF StreamInv, StreamType

LEMMA ProcessLeft == StreamInv /\ Leave /\ datasets' = datasets => StreamInv'
<1> SUFFICES ASSUME StreamInv, Leave, datasets' = datasets PROVE StreamInv'
  OBVIOUS
<1>1. datasets' \in [1 .. SinkCount -> Directories] /\ \A r \in 1 .. SinkCount : SoundDirectory(datasets'[r])
  BY DEF StreamInv, StreamType
<1> QED  BY <1>1, ProcessEnds

LEMMA RowWritten ==
  ASSUME StreamInv, NEW r \in 1 .. SinkCount, WriteRow(r)
  PROVE  StreamInv'
<1>1. sinks.phase = "open" /\ Sink(r).step = "rest"
  BY DEF WriteRow
<1>2. IsLive(r) /\ RunsWell(datasets[r], Sink(r)) /\ Sink(r) \in Sinks /\ datasets[r] \in Directories
  BY <1>1 DEF StreamInv, StreamType, SinkSets, IsLive, Sink
<1>3. PICK s \in Sinks, o \in Directories : s = Sink(r) /\ o = datasets[r]
  BY <1>2
<1>s. LiveSink(o, s) /\ Stands(s) /\ Shown(o, s) /\ s.step = "rest" /\ s.item = <<>> /\ s.pending = <<>>
  BY <1>1, <1>2, <1>3 DEF RunsWell, Stands
<1>4. PICK row \in Nat : row = Len(o.given) + 1
  <2>1. o.given \in Seq(Nat)
    BY DEF Directories
  <2> QED  BY <2>1
<1>6. PICK p : p = RowGiven(o, row)
  OBVIOUS
<1>8. datasets' = [datasets EXCEPT ![r] = p]
  BY <1>3, <1>4, <1>6 DEF WriteRow, StreamInv, StreamType, RowGiven
<1>9. \/ /\ s.active.at = "open"
         /\ sinks' = [sinks EXCEPT !.sink[r] = [s EXCEPT !.item = <<row>>, !.step = "place"]]
      \/ sinks' = [sinks EXCEPT !.sink[r] = AfterWrite([s EXCEPT !.rows = Append(s.rows, row)])]
  BY <1>3, <1>4 DEF WriteRow
<1>w. s.rows \in Seq(Nat)
  BY DEF Sinks
<1>10. CASE /\ s.active.at = "open"
            /\ sinks' = [sinks EXCEPT !.sink[r] = [s EXCEPT !.item = <<row>>, !.step = "place"]]
  <2>1. PICK t : t = [s EXCEPT !.item = <<row>>, !.step = "place"]
    OBVIOUS
  <2>2. /\ t \in Sinks /\ t.item = <<row>> /\ t.step = "place" /\ t.rows = s.rows /\ t.pending = s.pending
        /\ t.active = s.active /\ t.done = s.done
    <3>1. PICK e \in Seq(Nat) : e = <<row>>
      <4>1. <<row>> \in Seq(Nat)
        BY <1>4
      <4> QED  BY <4>1
    <3>2. t = [s EXCEPT !.item = e, !.step = "place"]
      BY <2>1, <3>1
    <3> QED  BY <1>3, <3>1, <3>2 DEF Sinks, SinkStates
  <2>3. Buffered(t) = Append(s.rows, row)
    <3>1. Append(s.rows, row) = s.rows \o <<row>>
      BY <1>w, AppendIsConcat
    <3> QED  BY <2>2, <3>1 DEF Buffered
  <2>4. s.step # "list" /\ RowHeld(s, t, row)
    BY <1>s, <2>2, <2>3 DEF RowHeld
  <2>5. p \in Directories /\ LiveSink(p, t) /\ p.lost = o.lost
    BY <1>3, <1>s, <1>4, <1>6, <2>2, <2>4, RowTaken
  <2>6. Stands(t) /\ Shown(p, t) /\ MayPlace(t)
    BY <1>s, <1>10, <2>2, <2>5 DEF Stands, Shown, MayPlace
  <2>7. sinks' = [sinks EXCEPT !.sink[r] = t]
    BY <1>10, <2>1
  <2>8. RunsWell(p, t)
    BY <2>5, <2>6 DEF RunsWell
  <2>9. sinks.phase # "entering"
    BY <1>1
  <2> QED  BY <1>2, <1>8, <2>2, <2>5, <2>6, <2>7, <2>8, <2>9, RoleSteps
<1>11. CASE sinks' = [sinks EXCEPT !.sink[r] = AfterWrite([s EXCEPT !.rows = Append(s.rows, row)])]
  <2>1. PICK held : held = [s EXCEPT !.rows = Append(s.rows, row)]
    OBVIOUS
  <2>2. /\ held \in Sinks /\ held.item = s.item /\ held.step = "rest" /\ held.rows = Append(s.rows, row)
        /\ held.pending = s.pending /\ held.active = s.active /\ held.done = s.done
    <3>1. PICK e \in Seq(Nat) : e = Append(s.rows, row)
      <4>1. Append(s.rows, row) \in Seq(Nat)
        BY <1>4, <1>w
      <4> QED  BY <4>1
    <3>2. held = [s EXCEPT !.rows = e]
      BY <2>1, <3>1
    <3> QED  BY <1>3, <1>s, <3>1, <3>2 DEF Sinks
  <2>3. Buffered(held) = Append(s.rows, row)
    BY <1>s, <2>2, NothingHeld
  <2>4. s.step # "list" /\ RowHeld(s, held, row)
    BY <1>s, <2>2, <2>3 DEF RowHeld
  <2>5. p \in Directories /\ LiveSink(p, held) /\ p.lost = o.lost
    BY <1>3, <1>s, <1>4, <1>6, <2>2, <2>4, RowTaken
  <2>6. Stands(held)
    BY <1>s, <2>2 DEF Stands
  <2>7. PICK t : t = AfterWrite(held)
    OBVIOUS
  <2>8. t \in Sinks /\ LiveSink(p, t) /\ Stands(t) /\ t.active = s.active /\ t.step \in {"rest", "flush"}
    <3>1. CASE t = held
      BY <2>2, <2>5, <2>6, <3>1
    <3>2. CASE t = Flushing(held)
      BY <2>2, <2>5, <2>6, <3>2, BufferTaken
    <3> QED  BY <2>7, <3>1, <3>2 DEF AfterWrite
  <2>9. RunsWell(p, t) /\ MayPlace(t)
    BY <1>s, <2>5, <2>8 DEF RunsWell, Shown, MayPlace
  <2>10. sinks' = [sinks EXCEPT !.sink[r] = t] /\ sinks.phase # "entering"
    BY <1>1, <1>11, <2>1, <2>7
  <2> QED  BY <1>2, <1>8, <2>5, <2>8, <2>9, <2>10, RoleSteps
<1> QED  BY <1>9, <1>10, <1>11

\* The next sink to close.
LEMMA SinkPassed ==
  ASSUME StreamInv, NEW r \in 1 .. SinkCount, sinks.phase = "closing", sinks.at = r,
         NEW s \in Sinks, NEW o \in Directories, SoundDirectory(o), NextSink(r, s),
         datasets' = [datasets EXCEPT ![r] = o]
  PROVE  StreamInv'
<1>t. sinks \in SinkSets /\ datasets \in [1 .. SinkCount -> Directories] /\ sinks.sink \in [1 .. SinkCount -> Sinks]
  BY DEF StreamInv, StreamType, SinkSets
<1>1. datasets' \in [1 .. SinkCount -> Directories] /\ datasets'[r] = o
      /\ \A q \in 1 .. SinkCount : q # r => datasets'[q] = datasets[q]
  BY <1>t
<1>2. \A q \in 1 .. SinkCount : SoundDirectory(datasets'[q])
  BY <1>1 DEF StreamInv
<1>3. CASE r = 1
  BY <1>1, <1>2, <1>3, ProcessEnds DEF NextSink
<1>4. CASE r # 1
  <2>1. PICK f \in [1 .. SinkCount -> Sinks] : f = [sinks.sink EXCEPT ![r] = s]
                                               /\ \A q \in 1 .. SinkCount : q # r => f[q] = sinks.sink[q]
    <3>1. [sinks.sink EXCEPT ![r] = s] \in [1 .. SinkCount -> Sinks]
      BY <1>t
    <3>2. \A q \in 1 .. SinkCount : q # r => [sinks.sink EXCEPT ![r] = s][q] = sinks.sink[q]
      BY <1>t
    <3> QED  BY <3>1, <3>2
  <2>2. PICK at \in Nat : at = r - 1
    BY <1>4
  <2>3. sinks' = [sinks EXCEPT !.sink = f, !.at = at]
    BY <1>4, <1>t, <2>1, <2>2 DEF NextSink, SinkSets
  <2>4. sinks' \in SinkSets /\ sinks'.phase = "closing" /\ sinks'.at = at /\ sinks'.sink = f
    BY <1>t, <2>3 DEF SinkSets
  <2>5. \A q \in 1 .. SinkCount : IsLive(q)' => IsLive(q) /\ q # r
    BY <2>2, <2>4 DEF IsLive
  <2>6. \A q \in 1 .. SinkCount : IsLive(q)' => RunsWell(datasets'[q], sinks'.sink[q])
    BY <1>1, <2>1, <2>4, <2>5 DEF StreamInv
  <2> QED  BY <1>1, <1>2, <2>4, <2>6 DEF StreamInv, StreamType
<1> QED  BY <1>3, <1>4

\* What a call that raises leaves of the sink and of the directory it is called with.
HandsEmpty(s) == [s EXCEPT !.pending = <<>>, !.item = <<>>, !.step = "rest"]
HandsLost(o, s) == [o EXCEPT !.lost = o.lost \cup Range(s.pending) \cup Range(s.item)]
LEMMA HandsEmptied ==
  ASSUME NEW o \in Directories, NEW s \in Sinks,
         NEW t, t = HandsEmpty(s), NEW p, p = HandsLost(o, s)
  PROVE  /\ t \in Sinks /\ t.rows = s.rows /\ t.done = s.done /\ t.active = s.active
         /\ t.step = "rest" /\ t.pending = <<>> /\ t.item = <<>>
         /\ p \in Directories /\ p.finals = o.finals /\ p.given = o.given /\ p.clearing = o.clearing
         /\ p.manifest = o.manifest /\ p.stale = o.stale
         /\ p.lost = o.lost \cup Range(s.pending) \cup Range(s.item)
<1>1. PICK e \in Seq(Nat) : e = <<>>
  BY NothingRises
<1>2. t = [s EXCEPT !.pending = e, !.item = e, !.step = "rest"]
  BY <1>1 DEF HandsEmpty
<1>3. /\ t \in Sinks /\ t.rows = s.rows /\ t.done = s.done /\ t.active = s.active
      /\ t.step = "rest" /\ t.pending = <<>> /\ t.item = <<>>
  BY <1>1, <1>2 DEF Sinks, SinkStates
<1>4. PICK lost \in SUBSET Nat : lost = o.lost \cup Range(s.pending) \cup Range(s.item)
  <2>1. Range(s.pending) \subseteq Nat /\ Range(s.item) \subseteq Nat
    BY RowsAreNumbers
  <2>2. o.lost \subseteq Nat
    BY DEF Directories
  <2> QED  BY <2>1, <2>2
<1>5. p = [o EXCEPT !.lost = lost]
  BY <1>4 DEF HandsLost
<1>6. /\ p \in Directories /\ p.finals = o.finals /\ p.given = o.given /\ p.clearing = o.clearing
      /\ p.manifest = o.manifest /\ p.stale = o.stale /\ p.lost = lost
  BY <1>5 DEF Directories
<1> QED  BY <1>3, <1>4, <1>6

\* The rows of a segment that may still be kept when nothing is listed.
Pours(a) == IF a.at = "open" /\ a.whole THEN a.rows ELSE <<>>
LEMMA PoursLoose ==
  ASSUME NEW s, s.step # "list"
  PROVE  Loose(s) = Pours(s.active)
  BY DEF Loose, Pours

\* The sink s and the directory o are live; the call raises with u and q made of them.
LEMMA CallRaised ==
  ASSUME StreamInv, NEW r \in 1 .. SinkCount, SinkTurn(r),
         NEW o \in Directories, NEW s \in Sinks, LiveSink(o, s), s.step # "list",
         NEW u \in Sinks, u.rows = s.rows, u.done = s.done, u.pending = s.pending, u.item = s.item,
         NEW Q, Q \subseteq o.lost \cup Range(Loose(s)),
         NEW q \in Directories, q.finals = o.finals, q.given = o.given, q.clearing = o.clearing,
         q.manifest = o.manifest, ~q.stale => ~o.stale, q.lost = o.lost \cup Q,
         CallRaises(r, u, q),
         (Q = {} /\ Pours(u.active) = Loose(s)) \/ (Range(Loose(s)) \subseteq Q /\ Pours(u.active) = <<>>),
         u.active.at = "open" => u.active.index = Len(s.done),
         ~u.active.whole => Range(u.active.rows) \subseteq q.lost,
         sinks.phase = "open" /\ u.active.at = "left" => q.lost \cup Range(s.pending) \cup Range(s.item) # {}
  PROVE  StreamInv'
<1>0. sinks.phase # "entering" /\ IsLive(r)
  BY ItsTurn
<1>1. PICK t : t = HandsEmpty(u)
  OBVIOUS
<1>2. PICK p : p = HandsLost(q, u)
  OBVIOUS
<1>3. /\ t \in Sinks /\ t.rows = u.rows /\ t.done = u.done /\ t.active = u.active
      /\ t.step = "rest" /\ t.pending = <<>> /\ t.item = <<>>
      /\ p \in Directories /\ p.finals = q.finals /\ p.given = q.given /\ p.clearing = q.clearing
      /\ p.manifest = q.manifest /\ p.stale = q.stale
      /\ p.lost = q.lost \cup Range(u.pending) \cup Range(u.item)
  BY <1>1, <1>2, HandsEmptied
<1>4. Loose(t) = Pours(u.active)
  BY <1>3, PoursLoose
<1>5. Ruined(p, t.active)
  BY <1>3 DEF Ruined
<1>6. LiveSink(p, t) /\ Stands(t)
  <2>1. p.lost = o.lost \cup Q \cup Range(s.pending) \cup Range(s.item) /\ (~p.stale => ~o.stale)
    BY <1>3
  <2>2. p.finals = o.finals /\ p.given = o.given /\ p.clearing = o.clearing /\ p.manifest = o.manifest
    BY <1>3
  <2>3. t.rows = s.rows /\ t.done = s.done /\ (t.active.at = "open" => t.active.index = Len(s.done))
    BY <1>3
  <2>4. (Q = {} /\ Loose(t) = Loose(s)) \/ (Range(Loose(s)) \subseteq Q /\ Loose(t) = <<>>)
    BY <1>4
  <2>5. t \in Sinks /\ t.step = "rest" /\ t.pending = <<>> /\ t.item = <<>> /\ p \in Directories
    BY <1>3
  <2> QED  BY <1>5, <2>1, <2>2, <2>3, <2>4, <2>5, CallLeft
<1>7. NextSink(r, t) /\ datasets' = [datasets EXCEPT ![r] = p]
  BY <1>1, <1>2 DEF CallRaises, HandsEmpty, HandsLost
<1>8. CASE sinks.phase = "closing"
  <2>1. SoundDirectory(p)
    BY <1>3, <1>6, LiveIsSound
  <2>2. sinks.at = r
    BY <1>8 DEF SinkTurn
  <2> QED  BY <1>3, <1>7, <1>8, <2>1, <2>2, SinkPassed
<1>9. CASE sinks.phase = "open"
  <2>1. sinks' = [sinks EXCEPT !.sink[r] = t]
    BY <1>7, <1>9 DEF NextSink
  <2>2. Shown(p, t)
    BY <1>3, <1>9 DEF Shown
  <2>3. RunsWell(p, t) /\ MayPlace(t)
    BY <1>3, <1>6, <2>2 DEF RunsWell, MayPlace
  <2> QED  BY <1>0, <1>3, <1>7, <2>1, <2>3, RoleSteps
<1> QED  BY <1>8, <1>9 DEF SinkTurn

LEMMA SomeRow ==
  ASSUME NEW q \in Seq(Nat), q # <<>>
  PROVE  Range(q) # {}
<1>1. 1 \in DOMAIN q
  <2>1. Len(q) # 0
    BY EmptySeq
  <2> QED  BY <2>1
<1> QED  BY <1>1 DEF Range

\* Whose turn it is, and what is known of it.
LEMMA SinkKnown ==
  ASSUME StreamInv, NEW r \in 1 .. SinkCount, SinkTurn(r)
  PROVE  /\ sinks.phase # "entering" /\ IsLive(r) /\ Sink(r) \in Sinks /\ datasets[r] \in Directories
         /\ LiveSink(datasets[r], Sink(r)) /\ Stands(Sink(r)) /\ Shown(datasets[r], Sink(r))
         /\ sinks.phase = "open" => MayPlace(Sink(r))
  BY ItsTurn DEF RunsWell

LEMMA SegmentBegun ==
  ASSUME StreamInv, NEW r \in 1 .. SinkCount, OpenSegment(r)
  PROVE  StreamInv'
<1>0. SinkTurn(r) /\ Sink(r).step \in {"flush", "start"} /\ Sink(r).active.at # "open" /\ Sink(r).step # "list"
  BY DEF OpenSegment, MayOpen
<1>1. PICK s \in Sinks, o \in Directories : s = Sink(r) /\ o = datasets[r]
  BY <1>0, SinkKnown
<1>2. LiveSink(o, s) /\ Stands(s) /\ IsLive(r) /\ sinks.phase # "entering" /\ (sinks.phase = "open" => MayPlace(s))
  BY <1>0, <1>1, SinkKnown
<1>3. NewSegment(r) = BlankSegment(s, "open")
  BY <1>0, <1>1, <1>2, NewSegmentIs
<1>4. PICK u : u = [s EXCEPT !.active = BlankSegment(s, "open")]
  OBVIOUS
<1>5. /\ u \in Sinks /\ LiveSink(o, u) /\ u.active = BlankSegment(s, "open") /\ BlankSegment(s, "open") \in PartFiles
      /\ u.step = s.step /\ u.rows = s.rows /\ u.pending = s.pending /\ u.item = s.item /\ u.done = s.done
  BY <1>0, <1>1, <1>2, <1>4, SegmentFound
<1>6. PICK e \in {"place", "flush"} : e = IF s.step = "start" THEN "place" ELSE "flush"
  OBVIOUS
<1>7. PICK t : t = [u EXCEPT !.step = e]
  OBVIOUS
<1>8. /\ t \in Sinks /\ LiveSink(o, t) /\ t.step = e /\ t.rows = u.rows /\ t.pending = u.pending
      /\ t.item = u.item /\ t.active = u.active /\ t.done = u.done
  <2>1. u.step # "list" /\ e # "list" /\ e \in SinkStates
    BY <1>0, <1>1, <1>5 DEF SinkStates
  <2> QED  BY <1>5, <1>7, <2>1, StepTaken
<1>9. t = [s EXCEPT !.active = BlankSegment(s, "open"), !.step = e]
  BY <1>4, <1>7 DEF Sinks
<1>10. PICK temps \in SUBSET Nat : temps = o.temps \cup {BlankSegment(s, "open").index}
  BY <1>5 DEF Directories, PartFiles
<1>11. PICK d : d = [o EXCEPT !.temps = temps]
  OBVIOUS
<1>12. d \in Directories /\ SameRows(o, d)
  BY <1>11, TempsChanged
<1>13. PICK p : p = WithManifest(d, t)
  OBVIOUS
<1>14. p \in Directories /\ SameRows(d, p) /\ p.manifest.status = "open" /\ p.manifest.completed = t.done
  BY <1>8, <1>12, <1>13, ManifestWritten
<1>15. LiveSink(p, t)
  <2>1. SameRows(o, p)
    BY <1>12, <1>14 DEF SameRows
  <2> QED  BY <1>8, <1>14, <2>1, SameDirectory
<1>16. BlankSegment(s, "open").at = "open"
  BY DEF BlankSegment
<1>17. Stands(t)
  BY <1>0, <1>1, <1>2, <1>5, <1>6, <1>8, <1>16 DEF Stands
<1>18. Shown(p, t) /\ (sinks.phase = "open" => MayPlace(t))
  BY <1>1, <1>2, <1>5, <1>6, <1>8, <1>16 DEF Shown, MayPlace
<1>19. sinks' = [sinks EXCEPT !.sink[r] = t] /\ datasets' = [datasets EXCEPT ![r] = p]
  BY <1>1, <1>3, <1>6, <1>9, <1>10, <1>11, <1>13 DEF OpenSegment
<1>20. RunsWell(p, t)
  BY <1>15, <1>17, <1>18 DEF RunsWell
<1> QED  BY <1>2, <1>8, <1>14, <1>18, <1>19, <1>20, RoleSteps

LEMMA OpeningFailed ==
  ASSUME StreamInv, NEW r \in 1 .. SinkCount, OpenFails(r)
  PROVE  StreamInv'
<1>0. SinkTurn(r) /\ Sink(r).step \in {"flush", "start"} /\ Sink(r).active.at # "open" /\ Sink(r).step # "list"
  BY DEF OpenFails, MayOpen
<1>1. PICK s \in Sinks, o \in Directories : s = Sink(r) /\ o = datasets[r]
  BY <1>0, SinkKnown
<1>2. LiveSink(o, s) /\ Stands(s) /\ (sinks.phase = "open" => MayPlace(s))
  BY <1>0, <1>1, SinkKnown
<1>3. NewSegment(r) = BlankSegment(s, "open")
  BY <1>0, <1>1, <1>2, NewSegmentIs
<1>4. PICK a \in PartFiles, b \in PartFiles : a = BlankSegment(s, "open") /\ b = BlankSegment(s, "left")
  <2>1. BlankSegment(s, "open") \in PartFiles /\ BlankSegment(s, "left") \in PartFiles
    BY <1>0, <1>1, <1>2, SegmentFound
  <2> QED  BY <2>1
<1>5. /\ a.rows = <<>> /\ a.whole /\ a.at = "open" /\ a.index = Len(s.done)
      /\ b.rows = <<>> /\ b.whole /\ b.at = "left" /\ b = [a EXCEPT !.at = "left"]
  <2>1. /\ a.rows = <<>> /\ a.whole /\ a.at = "open" /\ a.index = Len(s.done)
        /\ b.rows = <<>> /\ b.whole /\ b.at = "left" /\ b.index = Len(s.done)
    BY <1>4 DEF BlankSegment
  <2>2. a.rows = b.rows /\ a.index = b.index /\ a.whole = b.whole
    BY <1>4, <2>1 DEF PartFiles
  <2>3. b = [a EXCEPT !.at = "left"]
    BY <1>4, <2>1, <2>2 DEF PartFiles
  <2> QED  BY <2>1, <2>3
<1>6. Loose(s) = <<>> /\ Pours(s.active) = <<>> /\ Pours(a) = <<>> /\ Pours(b) = <<>>
  BY <1>0, <1>1, <1>5 DEF Loose, Pours
<1>7. sinks.phase = "open" => Range(s.pending) # {}
  <2>1. sinks.phase = "open" => s.pending # <<>>
    BY <1>0, <1>1, <1>2 DEF Stands, MayPlace
  <2> QED  BY <2>1, RowsAreNumbers, SomeRow
<1>8. {} \subseteq o.lost \cup Range(Loose(s)) /\ o.lost = o.lost \cup {} /\ s.step # "list"
  BY <1>0, <1>1
<1>9. \/ CallRaises(r, s, o)
      \/ CallRaises(r, [s EXCEPT !.active = b], [o EXCEPT !.temps = o.temps \ {a.index}])
      \/ CallRaises(r, [s EXCEPT !.active = a], StaleManifest([o EXCEPT !.temps = o.temps \cup {a.index}]))
  BY <1>1, <1>3, <1>4, <1>5 DEF OpenFails
<1>10. CASE CallRaises(r, s, o)
  <2>1. s.active.at # "open"
    BY <1>0, <1>1
  <2>2. ~s.active.whole => Range(s.active.rows) \subseteq o.lost
    BY <1>2 DEF LiveSink, Ruined
  <2> QED  BY <1>0, <1>2, <1>6, <1>7, <1>8, <1>10, <2>1, <2>2, CallRaised
<1>11. CASE CallRaises(r, [s EXCEPT !.active = b], [o EXCEPT !.temps = o.temps \ {a.index}])
  <2>1. PICK u : u = [s EXCEPT !.active = b]
    OBVIOUS
  <2>2. u \in Sinks /\ u.active = b /\ u.rows = s.rows /\ u.done = s.done /\ u.pending = s.pending /\ u.item = s.item
    BY <2>1 DEF Sinks
  <2>3. PICK temps \in SUBSET Nat : temps = o.temps \ {a.index}
    BY DEF Directories
  <2>4. PICK d : d = [o EXCEPT !.temps = temps]
    OBVIOUS
  <2>5. d \in Directories /\ SameRows(o, d) /\ d.manifest = o.manifest /\ d.stale = o.stale
    BY <2>4, TempsChanged
  <2>6. d.finals = o.finals /\ d.given = o.given /\ d.clearing = o.clearing /\ d.lost = o.lost \cup {}
    BY <2>5 DEF SameRows
  <2>7. CallRaises(r, u, d)
    BY <1>11, <2>1, <2>3, <2>4
  <2>8. Pours(u.active) = Loose(s) /\ u.active.at # "open" /\ u.active.whole
    BY <1>5, <1>6, <2>2
  <2> QED  BY <1>0, <1>2, <1>7, <1>8, <2>2, <2>5, <2>6, <2>7, <2>8, CallRaised
<1>12. CASE CallRaises(r, [s EXCEPT !.active = a], StaleManifest([o EXCEPT !.temps = o.temps \cup {a.index}]))
  <2>1. PICK u : u = [s EXCEPT !.active = a]
    OBVIOUS
  <2>2. u \in Sinks /\ u.active = a /\ u.rows = s.rows /\ u.done = s.done /\ u.pending = s.pending /\ u.item = s.item
    BY <2>1 DEF Sinks
  <2>3. PICK temps \in SUBSET Nat : temps = o.temps \cup {a.index}
    BY DEF Directories, PartFiles
  <2>4. PICK c : c = [o EXCEPT !.temps = temps]
    OBVIOUS
  <2>5. c \in Directories /\ SameRows(o, c) /\ c.manifest = o.manifest /\ c.stale = o.stale
    BY <2>4, TempsChanged
  <2>6. PICK d : d = StaleManifest(c)
    OBVIOUS
  <2>7. d \in Directories /\ SameRows(c, d) /\ d.manifest = c.manifest /\ d.stale
    BY <2>5, <2>6, ManifestKept
  <2>8. d.finals = o.finals /\ d.given = o.given /\ d.clearing = o.clearing /\ d.lost = o.lost \cup {}
        /\ d.manifest = o.manifest
    BY <2>5, <2>7 DEF SameRows
  <2>9. CallRaises(r, u, d)
    BY <1>12, <2>1, <2>3, <2>4, <2>6
  <2>10. Pours(u.active) = Loose(s) /\ u.active.at = "open" /\ u.active.index = Len(s.done) /\ u.active.whole
    BY <1>5, <1>6, <2>2
  <2> QED  BY <1>0, <1>2, <1>8, <2>2, <2>7, <2>8, <2>9, <2>10, CallRaised
<1> QED  BY <1>9, <1>10, <1>11, <1>12

LEMMA ChunkFlushed ==
  ASSUME StreamInv, NEW r \in 1 .. SinkCount, FlushChunk(r)
  PROVE  StreamInv'
<1>0. /\ SinkTurn(r) /\ Sink(r).step = "flush" /\ Sink(r).active.at = "open" /\ Sink(r).active.whole
      /\ Len(Sink(r).active.rows) < SegmentRows
  BY DEF FlushChunk, Filling, HasRoom
<1>1. PICK s \in Sinks, o \in Directories : s = Sink(r) /\ o = datasets[r]
  BY <1>0, SinkKnown
<1>2. LiveSink(o, s) /\ Stands(s) /\ IsLive(r) /\ sinks.phase # "entering"
  BY <1>0, <1>1, SinkKnown
<1>3. PICK u : u = Topped(s)
  OBVIOUS
<1>4. /\ u \in Sinks /\ LiveSink(o, u) /\ u.step = "flush" /\ u.rows = s.rows /\ u.item = s.item
      /\ u.active.at = "open" /\ u.done = s.done /\ Len(u.active.rows) \in Nat
      /\ u.pending = <<>> \/ Len(u.active.rows) = SegmentRows
  <2>1. s.pending # <<>>
    BY <1>0, <1>1, <1>2 DEF Stands
  <2> QED  BY <1>0, <1>1, <1>2, <1>3, <2>1, ChunkWritten
<1>5. PICK e \in {"place", "rest"} : e = IF Len(u.active.rows) = SegmentRows THEN "place" ELSE "rest"
  OBVIOUS
<1>6. PICK t : t = [u EXCEPT !.step = e]
  OBVIOUS
<1>7. /\ t \in Sinks /\ LiveSink(o, t) /\ t.step = e /\ t.rows = u.rows /\ t.pending = u.pending
      /\ t.item = u.item /\ t.active = u.active /\ t.done = u.done
  <2>1. u.step # "list" /\ e # "list" /\ e \in SinkStates
    BY <1>4 DEF SinkStates
  <2> QED  BY <1>4, <1>6, <2>1, StepTaken
<1>8. PICK p : p = WithManifest(o, t)
  OBVIOUS
<1>9. p \in Directories /\ SameRows(o, p) /\ p.manifest.status = "open" /\ p.manifest.completed = t.done
  BY <1>7, <1>8, ManifestWritten
<1>10. LiveSink(p, t)
  BY <1>7, <1>9, SameDirectory
<1>11. s.item = <<>>
  BY <1>0, <1>1, <1>2 DEF Stands
<1>12. Stands(t)
  BY <1>4, <1>5, <1>7, <1>11 DEF Stands
<1>13. Shown(p, t) /\ MayPlace(t)
  <2>1. e = "place" => u.active.rows # <<>>
    <3>1. SegmentRows # 0 /\ Len(<<>>) = 0
      BY StreamAssumption, NothingRises
    <3> QED  BY <1>5, <3>1
  <2> QED  BY <1>4, <1>5, <1>7, <2>1 DEF Shown, MayPlace
<1>14. sinks' = [sinks EXCEPT !.sink[r] = t] /\ datasets' = [datasets EXCEPT ![r] = p]
  BY <1>1, <1>3, <1>5, <1>6, <1>8 DEF FlushChunk
<1>15. RunsWell(p, t)
  BY <1>10, <1>12, <1>13 DEF RunsWell
<1> QED  BY <1>2, <1>7, <1>9, <1>13, <1>14, <1>15, RoleSteps

LEMMA ChunkUnlisted ==
  ASSUME StreamInv, NEW r \in 1 .. SinkCount, FlushUnlisted(r)
  PROVE  StreamInv'
<1>0. /\ SinkTurn(r) /\ Sink(r).step = "flush" /\ Sink(r).active.at = "open" /\ Sink(r).active.whole
      /\ Len(Sink(r).active.rows) < SegmentRows
  BY DEF FlushUnlisted, Filling, HasRoom
<1>1. PICK s \in Sinks, o \in Directories : s = Sink(r) /\ o = datasets[r]
  BY <1>0, SinkKnown
<1>2. LiveSink(o, s) /\ Stands(s)
  BY <1>0, <1>1, SinkKnown
<1>3. PICK u : u = Topped(s)
  OBVIOUS
<1>4. u \in Sinks /\ LiveSink(o, u) /\ u.step # "list" /\ u.active.at = "open"
  <2>1. s.pending # <<>>
    BY <1>0, <1>1, <1>2 DEF Stands
  <2> QED  BY <1>0, <1>1, <1>2, <1>3, <2>1, ChunkWritten
<1>5. PICK q : q = StaleManifest(o)
  OBVIOUS
<1>6. q \in Directories /\ SameRows(o, q) /\ q.manifest = o.manifest /\ q.stale
  BY <1>5, ManifestKept
<1>7. q.finals = o.finals /\ q.given = o.given /\ q.clearing = o.clearing /\ q.lost = o.lost \cup {}
  BY <1>6 DEF SameRows
<1>8. CallRaises(r, u, q)
  BY <1>1, <1>3, <1>5 DEF FlushUnlisted
<1>9. Pours(u.active) = Loose(u)
  BY <1>4, PoursLoose
<1>10. u.active.index = Len(u.done) /\ (~u.active.whole => Range(u.active.rows) \subseteq q.lost)
  BY <1>4, <1>7 DEF LiveSink, Indexed, Ruined
<1>11. {} \subseteq o.lost \cup Range(Loose(u)) /\ u.active.at # "left"
  BY <1>4
<1> QED  BY <1>0, <1>4, <1>6, <1>7, <1>8, <1>9, <1>10, <1>11, CallRaised

LEMMA SegmentRotated ==
  ASSUME StreamInv, NEW r \in 1 .. SinkCount, RotateSegment(r)
  PROVE  StreamInv'
<1>0. SinkTurn(r) /\ Sink(r).step = "flush" /\ Sink(r).active.at = "open" /\ Sink(r).active.rows # <<>>
  BY DEF RotateSegment, Filling
<1>1. PICK s \in Sinks, o \in Directories : s = Sink(r) /\ o = datasets[r]
  BY <1>0, SinkKnown
<1>2. LiveSink(o, s) /\ Stands(s) /\ IsLive(r) /\ sinks.phase # "entering"
  BY <1>0, <1>1, SinkKnown
<1>3. PICK t : t = [s EXCEPT !.step = "place"]
  OBVIOUS
<1>4. /\ t \in Sinks /\ LiveSink(o, t) /\ t.step = "place" /\ t.rows = s.rows /\ t.pending = s.pending
      /\ t.item = s.item /\ t.active = s.active /\ t.done = s.done
  <2>1. s.step # "list" /\ "place" \in SinkStates
    BY <1>0, <1>1 DEF SinkStates
  <2> QED  BY <1>2, <1>3, <2>1, StepTaken
<1>5. RunsWell(o, t) /\ MayPlace(t)
  BY <1>0, <1>1, <1>2, <1>4 DEF RunsWell, Stands, Shown, MayPlace
<1>6. sinks' = [sinks EXCEPT !.sink[r] = t] /\ datasets' = datasets
  BY <1>1, <1>3 DEF RotateSegment, StreamInv, StreamType, SinkSets, Sink
<1> QED  BY <1>1, <1>2, <1>4, <1>5, <1>6, SinkSteps

\* A segment whose writer has failed goes with its rows.
LEMMA SegmentRuined ==
  ASSUME StreamInv, NEW r \in 1 .. SinkCount, SinkTurn(r), Sink(r).step \in {"flush", "place"},
         Sink(r).active.at = "open",
         CallRaises(r, Broken(Sink(r)), Without(datasets[r], Sink(r).active))
  PROVE  StreamInv'
<1>1. PICK s \in Sinks, o \in Directories : s = Sink(r) /\ o = datasets[r]
  BY SinkKnown
<1>2. LiveSink(o, s)
  BY <1>1, SinkKnown
<1>3. PICK a \in PartFiles : a = s.active
  BY DEF Sinks
<1>4. PICK u : u = Broken(s)
  OBVIOUS
<1>5. /\ u \in Sinks /\ u.rows = s.rows /\ u.done = s.done /\ u.pending = s.pending /\ u.item = s.item
      /\ ~u.active.whole /\ u.active.at = "open" /\ u.active.index = s.active.index /\ u.active.rows = s.active.rows
  <2>1. PICK b : b = [a EXCEPT !.whole = FALSE]
    OBVIOUS
  <2>2. b \in PartFiles /\ ~b.whole /\ b.at = a.at /\ b.index = a.index /\ b.rows = a.rows
    BY <2>1 DEF PartFiles
  <2>3. u = [s EXCEPT !.active = b]
    BY <1>3, <1>4, <2>1 DEF Broken, Sinks
  <2> QED  BY <1>1, <1>3, <2>2, <2>3 DEF Sinks
<1>6. PICK lost \in SUBSET Nat : lost = o.lost \cup Range(s.active.rows)
  <2>1. Range(s.active.rows) \subseteq Nat /\ o.lost \subseteq Nat
    BY RowsAreNumbers DEF Directories
  <2> QED  BY <2>1
<1>7. PICK q : q = Without(o, s.active)
  OBVIOUS
<1>8. q \in Directories /\ q.finals = o.finals /\ q.given = o.given /\ q.clearing = o.clearing
      /\ q.manifest = o.manifest /\ q.stale = o.stale /\ q.lost = lost
  <2>1. q = [o EXCEPT !.lost = lost]
    BY <1>6, <1>7 DEF Without
  <2> QED  BY <2>1 DEF Directories
<1>9. s.step # "list" /\ s.active.at = "open"
  BY <1>1
<1>10. Range(s.active.rows) \subseteq o.lost \cup Range(Loose(s)) /\ Range(Loose(s)) \subseteq Range(s.active.rows)
  <2>1. CASE s.active.whole
    BY <1>9, <2>1 DEF Loose
  <2>2. CASE ~s.active.whole
    BY <1>2, <2>2, NothingRises DEF Loose, LiveSink, Ruined
  <2> QED  BY <2>1, <2>2
<1>11. Pours(u.active) = <<>> /\ u.active.at # "left"
  BY <1>5 DEF Pours
<1>12. u.active.index = Len(s.done)
  BY <1>2, <1>5, <1>9 DEF LiveSink, Indexed
<1>13. CallRaises(r, u, q)
  BY <1>1, <1>4, <1>7
<1>14. Range(u.active.rows) \subseteq q.lost /\ q.lost = o.lost \cup Range(s.active.rows)
  BY <1>5, <1>6, <1>8
<1> QED  BY <1>2, <1>5, <1>8, <1>9, <1>10, <1>11, <1>12, <1>13, <1>14, CallRaised

LEMMA FlushBroke ==
  ASSUME StreamInv, NEW r \in 1 .. SinkCount, FlushBreaks(r)
  PROVE  StreamInv'
<1>0. SinkTurn(r) /\ Sink(r).step = "flush" /\ Sink(r).active.at = "open"
  BY DEF FlushBreaks, Filling
<1>1. CASE CallRaises(r, Broken(Sink(r)), Without(datasets[r], Sink(r).active))
  BY <1>0, <1>1, SegmentRuined
<1>2. CASE CallRaises(r, Sink(r), datasets[r])
  <2>1. PICK s \in Sinks, o \in Directories : s = Sink(r) /\ o = datasets[r]
    BY <1>0, SinkKnown
  <2>2. LiveSink(o, s) /\ CallRaises(r, s, o) /\ s.step # "list" /\ s.active.at = "open"
    BY <1>0, <1>2, <2>1, SinkKnown
  <2>3. Pours(s.active) = Loose(s)
    BY <2>2, PoursLoose
  <2>4. s.active.index = Len(s.done) /\ (~s.active.whole => Range(s.active.rows) \subseteq o.lost)
    BY <2>2 DEF LiveSink, Indexed, Ruined
  <2>5. {} \subseteq o.lost \cup Range(Loose(s)) /\ o.lost = o.lost \cup {} /\ s.active.at # "left"
    BY <2>2
  <2> QED  BY <1>0, <2>2, <2>3, <2>4, <2>5, CallRaised
<1> QED  BY <1>1, <1>2 DEF FlushBreaks

LEMMA SegmentPlaced ==
  ASSUME StreamInv, NEW r \in 1 .. SinkCount, RenameSegment(r)
  PROVE  StreamInv'
<1>0. SinkTurn(r) /\ Sink(r).step = "place"
  BY DEF RenameSegment, Placing
<1>1. PICK s \in Sinks, o \in Directories : s = Sink(r) /\ o = datasets[r]
  BY <1>0, SinkKnown
<1>2. LiveSink(o, s) /\ Stands(s) /\ Shown(o, s) /\ IsLive(r) /\ sinks.phase # "entering" /\ s.step = "place"
  BY <1>0, <1>1, SinkKnown
<1>3. PICK a \in PartFiles : a = s.active
  BY DEF Sinks
<1>4. PICK f : f = [index |-> a.index, rows |-> a.rows, whole |-> a.whole]
  OBVIOUS
<1>5. f \in Files /\ f.index = a.index /\ f.rows = a.rows /\ f.whole = a.whole
  BY <1>4 DEF PartFiles, Files
<1>6. PICK p : p = [o EXCEPT !.temps = o.temps \ {a.index}, !.finals = o.finals \cup {f}]
  OBVIOUS
<1>7. p \in Directories /\ p.finals = o.finals \cup {f} /\ p.given = o.given /\ p.lost = o.lost
       /\ p.clearing = o.clearing /\ p.manifest = o.manifest /\ p.stale = o.stale
  BY <1>5, <1>6 DEF Directories
<1>8. PICK t : t = [s EXCEPT !.step = "list"]
  OBVIOUS
<1>9. t \in Sinks /\ LiveSink(p, t)
  <2>1. s.active.at = "open"
    BY <1>2 DEF Stands
  <2> QED  BY <1>2, <1>3, <1>5, <1>7, <1>8, <2>1, SegmentRenamed
<1>10. t.step = "list" /\ t.pending = s.pending /\ t.item = s.item /\ t.active = s.active
  BY <1>8 DEF Sinks
<1>11. Stands(t) /\ Shown(p, t) /\ MayPlace(t)
  BY <1>2, <1>7, <1>10 DEF Stands, Shown, MayPlace
<1>12. sinks' = [sinks EXCEPT !.sink[r] = t]
  BY <1>1, <1>8 DEF RenameSegment, StreamInv, StreamType, SinkSets, Sink
<1>13. datasets' = [datasets EXCEPT ![r] = p]
  <2>1. datasets' = [datasets EXCEPT ![r].temps = @ \ {a.index}, ![r].finals = @ \cup {f}]
    BY <1>1, <1>3, <1>4 DEF RenameSegment
  <2> QED  BY <1>1, <1>6, <2>1 DEF StreamInv, StreamType
<1>14. RunsWell(p, t)
  BY <1>9, <1>11 DEF RunsWell
<1> QED  BY <1>2, <1>7, <1>9, <1>11, <1>12, <1>13, <1>14, RoleSteps

LEMMA PlacingFailed ==
  ASSUME StreamInv, NEW r \in 1 .. SinkCount, PlaceFails(r)
  PROVE  StreamInv'
<1>0. SinkTurn(r) /\ Sink(r).step = "place"
  BY DEF PlaceFails, Placing
<1>1. PICK s \in Sinks, o \in Directories : s = Sink(r) /\ o = datasets[r]
  BY <1>0, SinkKnown
<1>2. /\ LiveSink(o, s) /\ Stands(s) /\ s.step = "place" /\ s.step # "list" /\ s.active.at = "open"
      /\ sinks.phase = "open" => MayPlace(s)
  BY <1>0, <1>1, SinkKnown DEF Stands
<1>3. CASE CallRaises(r, Broken(s), Without(o, s.active))
  BY <1>0, <1>1, <1>2, <1>3, SegmentRuined
<1>4. CASE CallRaises(r, [s EXCEPT !.active.at = "left"], Without(o, s.active))
  <2>1. PICK a \in PartFiles : a = s.active
    BY DEF Sinks
  <2>2. PICK u : u = [s EXCEPT !.active.at = "left"]
    OBVIOUS
  <2>3. /\ u \in Sinks /\ u.rows = s.rows /\ u.done = s.done /\ u.pending = s.pending /\ u.item = s.item
        /\ u.active.at = "left" /\ u.active.rows = s.active.rows
    <3>1. PICK b : b = [a EXCEPT !.at = "left"]
      OBVIOUS
    <3>2. b \in PartFiles /\ b.at = "left" /\ b.rows = a.rows
      BY <3>1 DEF PartFiles
    <3>3. u = [s EXCEPT !.active = b]
      BY <2>1, <2>2, <3>1 DEF Sinks
    <3> QED  BY <2>1, <3>2, <3>3 DEF Sinks
  <2>4. PICK lost \in SUBSET Nat : lost = o.lost \cup Range(s.active.rows)
    <3>1. Range(s.active.rows) \subseteq Nat /\ o.lost \subseteq Nat
      BY RowsAreNumbers DEF Directories
    <3> QED  BY <3>1
  <2>5. PICK q : q = Without(o, s.active)
    OBVIOUS
  <2>6. q \in Directories /\ q.finals = o.finals /\ q.given = o.given /\ q.clearing = o.clearing
        /\ q.manifest = o.manifest /\ q.stale = o.stale /\ q.lost = lost
    <3>1. q = [o EXCEPT !.lost = lost]
      BY <2>4, <2>5 DEF Without
    <3> QED  BY <3>1 DEF Directories
  <2>7. Range(s.active.rows) \subseteq o.lost \cup Range(Loose(s)) /\ Range(Loose(s)) \subseteq Range(s.active.rows)
    <3>1. CASE s.active.whole
      BY <1>2, <3>1 DEF Loose
    <3>2. CASE ~s.active.whole
      BY <1>2, <3>2, NothingRises DEF Loose, LiveSink, Ruined
    <3> QED  BY <3>1, <3>2
  <2>8. Pours(u.active) = <<>> /\ u.active.at # "open"
    BY <2>3 DEF Pours
  <2>9. CallRaises(r, u, q)
    BY <1>4, <2>2, <2>5
  <2>10. Range(u.active.rows) \subseteq q.lost /\ q.lost = o.lost \cup Range(s.active.rows)
    BY <2>3, <2>4, <2>6
  <2>11. sinks.phase = "open" => q.lost \cup Range(s.pending) \cup Range(s.item) # {}
    <3>1. s.active.rows \in Seq(Nat) /\ s.item \in Seq(Nat)
      BY RowsAreNumbers
    <3>2. sinks.phase = "open" => Range(s.active.rows) # {} \/ Range(s.item) # {}
      BY <1>2, <3>1, SomeRow DEF MayPlace
    <3> QED  BY <2>10, <3>2
  <2> QED  BY <1>0, <1>2, <2>3, <2>6, <2>7, <2>8, <2>9, <2>10, <2>11, CallRaised
<1> QED  BY <1>1, <1>3, <1>4 DEF PlaceFails

\* What is recorded of a segment, whatever becomes of the manifest.
LEMMA RecordedIs ==
  ASSUME NEW s \in Sinks, NEW t, t = RecordedAt(s, "rest"), t \in Sinks
  PROVE  /\ Recorded(s) \in Sinks /\ Recorded(s) = [t EXCEPT !.step = s.step]
         /\ Recorded(s).rows = t.rows /\ Recorded(s).done = t.done /\ Recorded(s).pending = t.pending
         /\ Recorded(s).item = t.item /\ Recorded(s).active = t.active /\ t.step = "rest"
<1>1. s.step \in SinkStates
  BY DEF Sinks
<1>2. PICK x, y : Recorded(s) = [s EXCEPT !.active = x, !.done = y]
  BY DEF Recorded
<1>3. Recorded(s) = [t EXCEPT !.step = s.step] /\ t.step = "rest"
  BY <1>2 DEF Sinks, RecordedAt
<1> QED  BY <1>1, <1>3 DEF Sinks

LEMMA SegmentListed ==
  ASSUME StreamInv, NEW r \in 1 .. SinkCount, RecordSegment(r)
  PROVE  StreamInv'
<1>0. SinkTurn(r) /\ Sink(r).step = "list"
  BY DEF RecordSegment
<1>1. PICK s \in Sinks, o \in Directories : s = Sink(r) /\ o = datasets[r]
  BY <1>0, SinkKnown
<1>2. LiveSink(o, s) /\ Stands(s) /\ IsLive(r) /\ sinks.phase # "entering" /\ s.step = "list"
  BY <1>0, <1>1, SinkKnown
<1>3. PICK c : c = Recorded(s)
  OBVIOUS
<1>4. PICK b, t : b = RecordedAt(s, "rest") /\ t = RecordedAt(s, "flush")
  OBVIOUS
<1>r. b = [c EXCEPT !.step = "rest"] /\ t = [c EXCEPT !.step = "flush"]
  BY <1>3, <1>4 DEF RecordedAt
<1>q. PICK q : q = StaleManifest(o)
  OBVIOUS
<1>5. /\ b \in Sinks /\ b.step = "rest" /\ b.rows = s.rows /\ b.pending = s.pending /\ b.item = s.item
      /\ b.active = NoSegment
  <2>1. q \in Directories /\ SameRows(o, q) /\ q.manifest = o.manifest /\ q.stale
    BY <1>q, ManifestKept
  <2>2. q.manifest.status = "open"
    BY <1>2, <2>1 DEF LiveSink, OpenListing
  <2> QED  BY <1>1, <1>2, <1>4, <2>1, <2>2, SegmentRecorded
<1>6. c \in Sinks /\ c.rows = b.rows /\ c.done = b.done /\ c.pending = b.pending /\ c.item = b.item
      /\ c.active = b.active
  BY <1>1, <1>3, <1>4, <1>5, RecordedIs
<1>7. PICK p : p = WithManifest(o, c)
  OBVIOUS
<1>8. p \in Directories /\ SameRows(o, p) /\ p.manifest.status = "open" /\ p.manifest.completed = c.done
  BY <1>6, <1>7, ManifestWritten
<1>9. datasets' = [datasets EXCEPT ![r] = p]
  BY <1>1, <1>3, <1>7 DEF RecordSegment
<1>10. NoSegment.at = "none"
  BY DEF NoSegment
<1>11. CASE s.pending # <<>>
  <2>0. t.done = c.done
    BY <1>r, <1>6 DEF Sinks
  <2>1. /\ t \in Sinks /\ LiveSink(p, t) /\ t.step = "flush" /\ t.rows = s.rows /\ t.pending = s.pending
        /\ t.item = s.item /\ t.active = NoSegment
    BY <1>1, <1>2, <1>4, <1>8, <2>0, SegmentRecorded
  <2>2. RunsWell(p, t) /\ MayPlace(t)
    BY <1>2, <1>10, <1>11, <2>1 DEF RunsWell, Stands, Shown, MayPlace
  <2>3. sinks' = [sinks EXCEPT !.sink[r] = t]
    BY <1>1, <1>3, <1>r, <1>5, <1>6, <1>11 DEF RecordSegment
  <2> QED  BY <1>2, <1>8, <1>9, <2>1, <2>2, <2>3, RoleSteps
<1>12. CASE s.pending = <<>>
  <2>1. LiveSink(p, b)
    BY <1>1, <1>2, <1>4, <1>6, <1>8, SegmentRecorded
  <2>2. PICK d : d = [b EXCEPT !.rows = b.rows \o b.item, !.item = <<>>]
    OBVIOUS
  <2>3. d \in Sinks /\ LiveSink(p, d) /\ Stands(d) /\ d.step = "rest" /\ d.active = NoSegment
    BY <1>5, <1>12, <2>1, <2>2, ItemTaken
  <2>4. PICK v : v = AfterWrite(d)
    OBVIOUS
  <2>5. v \in Sinks /\ LiveSink(p, v) /\ Stands(v) /\ v.active = NoSegment /\ v.step \in {"rest", "flush"}
    <3>1. CASE v = d
      BY <2>3, <3>1
    <3>2. CASE v = Flushing(d)
      BY <1>8, <2>3, <3>2, BufferTaken
    <3> QED  BY <2>4, <3>1, <3>2 DEF AfterWrite
  <2>6. RunsWell(p, v) /\ MayPlace(v)
    BY <1>10, <2>5 DEF RunsWell, Shown, MayPlace
  <2>7. d = [c EXCEPT !.rows = c.rows \o c.item, !.item = <<>>, !.step = "rest"]
    BY <1>r, <1>6, <2>2 DEF Sinks
  <2>8. sinks' = [sinks EXCEPT !.sink[r] = v]
    BY <1>1, <1>3, <1>5, <1>6, <1>12, <2>4, <2>7 DEF RecordSegment
  <2> QED  BY <1>2, <1>8, <1>9, <2>5, <2>6, <2>8, RoleSteps
<1> QED  BY <1>11, <1>12

LEMMA SegmentUnlisted ==
  ASSUME StreamInv, NEW r \in 1 .. SinkCount, RecordFails(r)
  PROVE  StreamInv'
<1>0. SinkTurn(r) /\ Sink(r).step = "list"
  BY DEF RecordFails
<1>1. PICK s \in Sinks, o \in Directories : s = Sink(r) /\ o = datasets[r]
  BY <1>0, SinkKnown
<1>2. LiveSink(o, s) /\ s.step = "list"
  BY <1>0, <1>1, SinkKnown
<1>3. PICK c : c = Recorded(s)
  OBVIOUS
<1>4. PICK b : b = RecordedAt(s, "rest")
  OBVIOUS
<1>5. PICK q : q = StaleManifest(o)
  OBVIOUS
<1>6. q \in Directories /\ SameRows(o, q) /\ q.manifest = o.manifest /\ q.stale
  BY <1>5, ManifestKept
<1>7. b \in Sinks /\ LiveSink(q, b) /\ b.step = "rest" /\ b.active = NoSegment
  <2>1. q.manifest.status = "open"
    BY <1>2, <1>6 DEF LiveSink, OpenListing
  <2> QED  BY <1>1, <1>2, <1>4, <1>6, <2>1, SegmentRecorded
<1>8. c \in Sinks /\ c.rows = b.rows /\ c.done = b.done /\ c.pending = b.pending /\ c.item = b.item
      /\ c.active = b.active
  BY <1>1, <1>3, <1>4, <1>7, RecordedIs
<1>9. CallRaises(r, c, q)
  BY <1>1, <1>3, <1>5 DEF RecordFails
<1>10. NoSegment.at = "none" /\ NoSegment.whole
  BY DEF NoSegment
<1>11. Pours(c.active) = Loose(b) /\ c.active.at # "open" /\ c.active.at # "left" /\ c.active.whole
  BY <1>7, <1>8, <1>10, PoursLoose
<1>12. {} \subseteq q.lost \cup Range(Loose(b)) /\ q.lost = q.lost \cup {} /\ b.step # "list"
  BY <1>7
<1> QED  BY <1>0, <1>6, <1>7, <1>8, <1>9, <1>11, <1>12, CallRaised

LEMMA SinksClose == StreamInv /\ CloseSinks => StreamInv'
<1> SUFFICES ASSUME StreamInv, CloseSinks PROVE StreamInv'
  OBVIOUS
<1>1. PICK at \in Nat : at = SinkCount
  BY StreamAssumption
<1>2. sinks' \in SinkSets /\ sinks'.phase = "closing" /\ sinks'.at = at /\ sinks'.sink = sinks.sink
      /\ datasets' = datasets
  <2>1. sinks' = [sinks EXCEPT !.phase = "closing", !.at = at] /\ datasets' = datasets
    BY <1>1 DEF CloseSinks
  <2> QED  BY <2>1 DEF StreamInv, StreamType, SinkSets
<1>3. \A r \in 1 .. SinkCount : IsLive(r)
  BY DEF CloseSinks, IsLive
<1> QED  BY <1>2, <1>3 DEF StreamInv, StreamType

LEMMA SinkClosed ==
  ASSUME StreamInv, NEW r \in 1 .. SinkCount, CloseSink(r)
  PROVE  StreamInv'
<1>0. sinks.phase = "closing" /\ sinks.at = r /\ Sink(r).step = "rest" /\ SinkTurn(r)
  BY DEF CloseSink, SinkTurn
<1>1. PICK s \in Sinks, o \in Directories : s = Sink(r) /\ o = datasets[r]
  BY <1>0, SinkKnown
<1>2. LiveSink(o, s) /\ Stands(s) /\ Shown(o, s) /\ IsLive(r) /\ sinks.phase # "entering" /\ s.step = "rest"
  BY <1>0, <1>1, SinkKnown
<1>3. CASE Closing(r) # Sink(r)
  <2>1. PICK t : t = Closing(r)
    OBVIOUS
  <2>2. sinks' = [sinks EXCEPT !.sink[r] = t] /\ datasets' = datasets
    BY <1>3, <2>1 DEF CloseSink
  <2>3. t \in Sinks /\ LiveSink(o, t) /\ Stands(t) /\ Shown(o, t)
    <3>1. CASE s.rows # <<>>
      <4>1. t = Flushing(s)
        BY <1>1, <2>1, <3>1 DEF Closing
      <4>2. t \in Sinks /\ LiveSink(o, t) /\ Stands(t) /\ t.active = s.active
        BY <1>2, <4>1, BufferTaken
      <4> QED  BY <1>2, <4>2 DEF Shown
    <3>2. CASE s.rows = <<>>
      <4>1. PICK e \in {"place", "start"} : t = [s EXCEPT !.step = e] /\ (e = "place" => s.active.at = "open")
        BY <1>1, <1>3, <2>1, <3>2 DEF Closing
      <4>2. s.step # "list" /\ e # "list" /\ e \in SinkStates
        BY <1>2 DEF SinkStates
      <4>3. /\ t \in Sinks /\ LiveSink(o, t) /\ t.step = e /\ t.pending = s.pending
            /\ t.item = s.item /\ t.active = s.active
        BY <1>2, <4>1, <4>2, StepTaken
      <4> QED  BY <1>2, <4>1, <4>3 DEF Shown, Stands
    <3> QED  BY <3>1, <3>2
  <2>4. RunsWell(o, t) /\ sinks.phase # "open"
    BY <1>0, <2>3 DEF RunsWell
  <2> QED  BY <1>1, <1>2, <2>2, <2>3, <2>4, SinkSteps
<1>4. CASE Closing(r) = Sink(r)
  <2>1. datasets' = [datasets EXCEPT ![r].manifest = SegmentListing(s, "closed"), ![r].stale = FALSE]
        /\ NextSink(r, s)
    BY <1>1, <1>4 DEF CloseSink
  <2>2. s.rows = <<>> /\ s.active.at # "open"
    <3>1. s.rows = <<>>
      <4> SUFFICES ASSUME s.rows # <<>> PROVE FALSE
        OBVIOUS
      <4>1. Flushing(s) = s
        BY <1>1, <1>4 DEF Closing
      <4>2. Flushing(s).step = "flush"
        BY DEF Flushing, Sinks
      <4> QED  BY <1>2, <4>1, <4>2
    <3>2. s.active.at # "open"
      <4> SUFFICES ASSUME s.active.at = "open" PROVE FALSE
        OBVIOUS
      <4>1. [s EXCEPT !.step = "place"] = s
        BY <1>1, <1>4, <3>1 DEF Closing
      <4>2. [s EXCEPT !.step = "place"].step = "place"
        BY DEF Sinks
      <4> QED  BY <1>2, <4>1, <4>2
    <3> QED  BY <3>1, <3>2
  <2>3. PICK l \in Listings : l = SegmentListing(s, "closed") /\ l.completed = s.done
                              /\ (s.active.at = "none" => l.incomplete = {})
    <3>1. SegmentListing(s, "closed") \in Listings /\ SegmentListing(s, "closed").completed = s.done
          /\ (s.active.at = "none" => SegmentListing(s, "closed").incomplete = {})
      BY ListingIs
    <3> QED  BY <3>1
  <2>4. PICK p : p = [o EXCEPT !.manifest = l, !.stale = FALSE]
    OBVIOUS
  <2>5. p \in Directories /\ SameRows(o, p) /\ p.manifest = l
    BY <2>4 DEF Directories, SameRows
  <2>6. SoundDirectory(p)
    BY <1>2, <2>2, <2>3, <2>5, DirectoryClosed
  <2>7. datasets' = [datasets EXCEPT ![r] = p]
    BY <1>1, <2>1, <2>3, <2>4 DEF StreamInv, StreamType
  <2> QED  BY <1>0, <2>1, <2>5, <2>6, <2>7, SinkPassed
<1> QED  BY <1>3, <1>4

LEMMA ClosingFailed ==
  ASSUME StreamInv, NEW r \in 1 .. SinkCount, CloseFails(r)
  PROVE  StreamInv'
<1>0. sinks.phase = "closing" /\ Sink(r).step = "rest" /\ SinkTurn(r)
  BY DEF CloseFails, SinkTurn
<1>1. PICK s \in Sinks, o \in Directories : s = Sink(r) /\ o = datasets[r]
  BY <1>0, SinkKnown
<1>2. LiveSink(o, s) /\ s.step # "list"
  BY <1>0, <1>1, SinkKnown
<1>3. PICK q : q = StaleManifest(o)
  OBVIOUS
<1>4. q \in Directories /\ SameRows(o, q) /\ q.manifest = o.manifest /\ q.stale
  BY <1>3, ManifestKept
<1>5. q.finals = o.finals /\ q.given = o.given /\ q.clearing = o.clearing /\ q.lost = o.lost \cup {}
  BY <1>4 DEF SameRows
<1>6. CallRaises(r, s, q)
  BY <1>1, <1>3 DEF CloseFails
<1>7. Pours(s.active) = Loose(s) /\ {} \subseteq o.lost \cup Range(Loose(s)) /\ sinks.phase # "open"
  BY <1>0, <1>2, PoursLoose
<1>8. (s.active.at = "open" => s.active.index = Len(s.done))
      /\ (~s.active.whole => Range(s.active.rows) \subseteq q.lost)
  BY <1>2, <1>5 DEF LiveSink, Indexed, Ruined
<1> QED  BY <1>0, <1>2, <1>4, <1>5, <1>6, <1>7, <1>8, CallRaised

LEMMA StreamSteps == StreamInv /\ [StreamNext]_streamVars => StreamInv'
<1> SUFFICES ASSUME StreamInv, [StreamNext]_streamVars PROVE StreamInv'
  OBVIOUS
<1>1. CASE UNCHANGED streamVars
  BY <1>1 DEF streamVars, StreamInv, StreamType, IsLive
<1>2. CASE OpenSinks
  BY <1>2, SinksOpened
<1>3. CASE CloseSinks
  BY <1>3, SinksClose
<1>4. CASE StreamDies
  BY <1>4, ProcessLeft DEF StreamDies
<1>5. ASSUME NEW r \in 1 .. SinkCount, ClearFile(r) PROVE StreamInv'
  BY <1>5, FileCleared
<1>6. ASSUME NEW r \in 1 .. SinkCount, EnterSink(r) PROVE StreamInv'
  BY <1>6, SinkEntered
<1>7. ASSUME NEW r \in 1 .. SinkCount, EnterFails(r) PROVE StreamInv'
  BY <1>7, ProcessLeft DEF EnterFails
<1>8. ASSUME NEW r \in 1 .. SinkCount, WriteRow(r) PROVE StreamInv'
  BY <1>8, RowWritten
<1>9. ASSUME NEW r \in 1 .. SinkCount, OpenSegment(r) \/ OpenFails(r) \/ RotateSegment(r) PROVE StreamInv'
  BY <1>9, SegmentBegun, OpeningFailed, SegmentRotated
<1>10. ASSUME NEW r \in 1 .. SinkCount, FlushChunk(r) \/ FlushUnlisted(r) \/ FlushBreaks(r) PROVE StreamInv'
  BY <1>10, ChunkFlushed, ChunkUnlisted, FlushBroke
<1>11. ASSUME NEW r \in 1 .. SinkCount, RenameSegment(r) \/ PlaceFails(r) PROVE StreamInv'
  BY <1>11, SegmentPlaced, PlacingFailed
<1>12. ASSUME NEW r \in 1 .. SinkCount, RecordSegment(r) \/ RecordFails(r) PROVE StreamInv'
  BY <1>12, SegmentListed, SegmentUnlisted
<1>13. ASSUME NEW r \in 1 .. SinkCount, CloseSink(r) \/ CloseFails(r) PROVE StreamInv'
  BY <1>13, SinkClosed, ClosingFailed
<1> QED  BY <1>1, <1>2, <1>3, <1>4, <1>5, <1>6, <1>7, <1>8, <1>9, <1>10, <1>11, <1>12, <1>13 DEF StreamNext

LEMMA StreamBegins == Init => StreamInit
  BY DEF Init

LEMMA StreamGoes == [Next]_commandVars => [StreamNext]_streamVars
  BY DEF commandVars, Next, Capture, RunJobs, ResolveMarkets, SuperviseShard,
    ReadVenue, ReplayTape, UseRun, IngestMarkets, PollVenue, OpenCatalog,
    ObserveShard, EmitQuotes, StreamDatasets, ResolveBatch, PlanFeed, ReadSocket,
    streamVars

(***************************************************************************)
(* What a stream hands over is kept: its quotes replay; and the segments   *)
(* of a dataset hold, in their order and once, the first of the rows that  *)
(* no call that raised had in its hands.  No manifest lists a segment that *)
(* is not there, and a closed one stands beside those rows, lists every    *)
(* segment, and names an unfinished one only where rows are lost; for any  *)
(* sinks, rows, sizes and runs, whichever write, close, rename or listing  *)
(* fails, with a caller that goes on, and wherever the process dies        *)
(* (topbook_emission.py, data/io.py).                                      *)
(***************************************************************************)
THEOREM StreamRowsStay == Spec => []StreamRowsAreKept
<1>1. Init => EmissionInv /\ StreamInv
  BY EmissionBegins, EmissionStarts, StreamBegins, StreamStarts
<1>2. EmissionInv /\ StreamInv /\ [Next]_commandVars => EmissionInv' /\ StreamInv'
  BY EmissionGoes, EmissionSteps, StreamGoes, StreamSteps
<1>3. EmissionInv /\ StreamInv => StreamRowsAreKept
  BY EmissionTold, StreamTold DEF StreamRowsAreKept
<1> QED  BY <1>1, <1>2, <1>3, PTL DEF Spec
=============================================================================
