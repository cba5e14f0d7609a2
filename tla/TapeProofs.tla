------------------------------ MODULE TapeProofs ------------------------------
(***************************************************************************)
(* What a stream run writes of its books can be committed and replayed:    *)
(* producers, coordinator and engine agree on every book after every row,  *)
(* so they agree at the end of every group; for any number of messages,    *)
(* any size of a group and either venue.                                   *)
(***************************************************************************)
EXTENDS MCCommands, FiniteSetTheorems, SequenceTheorems, WellFoundedInduction, TLAPS

-----------------------------------------------------------------------------
(* Induction over the naturals.                                             *)

\* A set of numbers that is not empty has a least one.
LEMMA Least == ASSUME NEW T, T \subseteq Nat, T # {} PROVE \E n \in T : \A m \in T : n <= m
<1> DEFINE R == OpToRel(<, Nat)
<1>1. \A x, y \in Nat : y < x => <<y, x>> \in R
  BY DEF OpToRel
<1>2. IsWellFoundedOn(R, Nat)
  BY NatLessThanWellFounded
<1> HIDE DEF R
<1>3. PICK x \in T : \A y \in T : <<y, x>> \notin R
  BY <1>2, WFMin
<1>4. ASSUME NEW y \in T PROVE x <= y
  <2>1. x \in Nat /\ y \in Nat /\ ~(y < x)
    BY <1>1, <1>3
  <2> QED  BY <2>1
<1> QED  BY <1>4

\* What holds of 0 and passes from each number to the next one holds of all.
LEMMA Upward == ASSUME NEW T, 0 \in T, \A n \in Nat : n \in T => n + 1 \in T PROVE Nat \subseteq T
<1> DEFINE Out == Nat \ T
<1> SUFFICES ASSUME Out # {} PROVE FALSE
  OBVIOUS
<1>1. PICK n \in Out : \A m \in Out : n <= m
  BY Least
<1>2. n # 0 /\ n \in Nat
  BY <1>1
<1>3. n - 1 \in Nat /\ n - 1 \notin Out
  BY <1>1, <1>2
<1>4. (n - 1) + 1 \in T
  BY <1>3
<1> QED  BY <1>1, <1>2, <1>4

-----------------------------------------------------------------------------
(* Folds over the rows of a group.                                          *)

\* What Replays comes to after each row.
ReplayRuns(first, rows, f) ==
  f = [n \in 0 .. Len(rows) |-> IF n = 0 THEN first ELSE Replayed(f[n - 1], rows[n])]

\* The folds of rows are recursive functions: each exists for every sequence.
LEMMA ReplayExists == ASSUME NEW S, NEW rows \in Seq(S), NEW first PROVE \E f : ReplayRuns(first, rows, f)
<1> DEFINE Next1(g, n) == IF n = 0 THEN first ELSE Replayed(g[n - 1], rows[n])
           Upto(f, n) == DOMAIN f = 0 .. n /\ f = [i \in 0 .. n |-> f[i]] /\ \A i \in 0 .. n : f[i] = Next1(f, i)
           T == {n \in Nat : \E f : Upto(f, n)}
<1>1. 0 \in T
  <2>1. PICK f : f = [i \in 0 .. 0 |-> first]
    OBVIOUS
  <2>2. Upto(f, 0)
    BY <2>1
  <2> QED  BY <2>2
<1>2. ASSUME NEW n \in Nat, n \in T PROVE n + 1 \in T
  <2>1. PICK f : Upto(f, n)
    BY <1>2
  <2>2. PICK x : x = Next1(f, n + 1)
    OBVIOUS
  <2>3. PICK g : g = [i \in 0 .. n + 1 |-> IF i <= n THEN f[i] ELSE x]
    OBVIOUS
  <2>4. DOMAIN g = 0 .. n + 1 /\ g = [i \in 0 .. n + 1 |-> g[i]] /\ g[n + 1] = x /\ \A i \in 0 .. n : g[i] = f[i]
    BY <2>3
  <2>5. ASSUME NEW i \in 0 .. n PROVE g[i] = Next1(g, i)
    <3>1. f[i] = Next1(f, i)
      BY <2>1
    <3>2. i # 0 => i - 1 \in 0 .. n
      OBVIOUS
    <3>3. i # 0 => g[i - 1] = f[i - 1]
      BY <2>4, <3>2
    <3> QED  BY <2>4, <3>1, <3>3
  <2>6. g[n + 1] = Next1(g, n + 1)
    <3>1. (n + 1) - 1 = n /\ n \in 0 .. n /\ n + 1 # 0
      OBVIOUS
    <3> QED  BY <2>2, <2>4, <3>1
  <2>7. \A i \in 0 .. n + 1 : i \in 0 .. n \/ i = n + 1
    OBVIOUS
  <2>8. Upto(g, n + 1)
    <3> HIDE DEF Next1
    <3> QED  BY <2>4, <2>5, <2>6, <2>7
  <2>9. n + 1 \in Nat
    OBVIOUS
  <2> HIDE DEF Upto
  <2> QED  BY <2>8, <2>9
<1>3. Len(rows) \in T
  <2>1. Nat \subseteq T
    <3> HIDE DEF T
    <3> QED  BY <1>1, <1>2, Upward
  <2> QED  BY <2>1, LenProperties
<1>4. PICK f : Upto(f, Len(rows))
  BY <1>3
<1>5. PICK g : g = f
  OBVIOUS
<1>6. f = [n \in 0 .. Len(rows) |-> IF n = 0 THEN first ELSE Replayed(g[n - 1], rows[n])]
  BY <1>4, <1>5
<1> QED  BY <1>5, <1>6 DEF ReplayRuns

\* The fold is the function that was found.
LEMMA ReplayIs ==
  ASSUME NEW S, NEW rows \in Seq(S), NEW first
  PROVE  \E f : ReplayRuns(first, rows, f) /\ Replays(first, rows) = f[Len(rows)]
<1> DEFINE g == CHOOSE f : ReplayRuns(first, rows, f)
<1>1. ReplayRuns(first, rows, g)
  BY ReplayExists
<1>2. Replays(first, rows) = g[Len(rows)]
  BY DEF Replays, ReplayRuns
<1> QED  BY <1>1, <1>2

\* Its value at each length.
LEMMA ReplayAt ==
  ASSUME NEW first, NEW rows, NEW f, ReplayRuns(first, rows, f), NEW n \in 0 .. Len(rows)
  PROVE  f[n] = IF n = 0 THEN first ELSE Replayed(f[n - 1], rows[n])
<1>1. PICK h : h = f
  OBVIOUS
<1>2. f = [i \in 0 .. Len(rows) |-> IF i = 0 THEN first ELSE Replayed(h[i - 1], rows[i])]
  BY <1>1 DEF ReplayRuns
<1> QED  BY <1>1, <1>2

\* No rows change nothing.
LEMMA ReplayNone == ASSUME NEW first PROVE Replays(first, <<>>) = first
<1>1. <<>> \in Seq({}) /\ Len(<<>>) = 0
  OBVIOUS
<1>2. PICK f : ReplayRuns(first, <<>>, f) /\ Replays(first, <<>>) = f[0]
  BY <1>1, ReplayIs
<1>3. 0 \in 0 .. Len(<<>>)
  BY <1>1
<1> QED  BY <1>2, <1>3, ReplayAt

\* One row more is one step more.
LEMMA ReplayStep ==
  ASSUME NEW S, NEW rows \in Seq(S), NEW row \in S, NEW first
  PROVE  Replays(first, Append(rows, row)) = Replayed(Replays(first, rows), row)
<1>1. PICK more \in Seq(S) : more = Append(rows, row)
  <2>1. Append(rows, row) \in Seq(S)
    OBVIOUS
  <2> QED  BY <2>1
<1>2. PICK l \in Nat : l = Len(rows)
  BY LenProperties
<1>3. Len(more) = l + 1 /\ more[l + 1] = row /\ \A i \in 1 .. l : more[i] = rows[i]
  BY <1>1, <1>2
<1>4. PICK f : ReplayRuns(first, rows, f) /\ Replays(first, rows) = f[l]
  BY <1>2, ReplayIs
<1>5. PICK g : ReplayRuns(first, more, g) /\ Replays(first, more) = g[l + 1]
  BY <1>3, ReplayIs
<1> DEFINE T == {n \in Nat : n \in 0 .. l => g[n] = f[n]}
<1>6. 0 \in T
  <2>1. 0 \in 0 .. Len(rows) /\ 0 \in 0 .. Len(more)
    BY <1>2, <1>3
  <2> QED  BY <1>4, <1>5, <2>1, ReplayAt
<1>7. ASSUME NEW k \in Nat, k \in T PROVE k + 1 \in T
  <2> SUFFICES ASSUME k + 1 \in 0 .. l PROVE g[k + 1] = f[k + 1]
    OBVIOUS
  <2>1. PICK n \in 1 .. l : n = k + 1 /\ n - 1 = k /\ n # 0
    BY <1>2
  <2>2. n \in 0 .. Len(rows) /\ n \in 0 .. Len(more) /\ k \in 0 .. l
    BY <1>2, <1>3, <2>1
  <2>3. f[n] = Replayed(f[k], rows[n])
    BY <1>4, <2>1, <2>2, ReplayAt
  <2>4. g[n] = Replayed(g[k], more[n])
    BY <1>5, <2>1, <2>2, ReplayAt
  <2> QED  BY <1>3, <1>7, <2>1, <2>2, <2>3, <2>4
<1>8. Nat \subseteq T
  <2> HIDE DEF T
  <2> QED  BY <1>6, <1>7, Upward
<1>9. g[l] = f[l]
  BY <1>8
<1>10. PICK n \in 0 .. Len(more) : n = l + 1 /\ n - 1 = l /\ n # 0
  BY <1>2, <1>3
<1>11. g[n] = Replayed(g[l], more[n])
  BY <1>5, <1>10, ReplayAt
<1> QED  BY <1>1, <1>3, <1>4, <1>5, <1>9, <1>10, <1>11

\* What Checks comes to after each row.
CheckRuns(first, rows, f) ==
  f = [n \in 0 .. Len(rows) |-> IF n = 0 THEN first ELSE Checked(f[n - 1], rows[n])]

\* The same for the coordinator's check.
LEMMA CheckExists == ASSUME NEW S, NEW rows \in Seq(S), NEW first PROVE \E f : CheckRuns(first, rows, f)
<1> DEFINE Next1(g, n) == IF n = 0 THEN first ELSE Checked(g[n - 1], rows[n])
           Upto(f, n) == DOMAIN f = 0 .. n /\ f = [i \in 0 .. n |-> f[i]] /\ \A i \in 0 .. n : f[i] = Next1(f, i)
           T == {n \in Nat : \E f : Upto(f, n)}
<1>1. 0 \in T
  <2>1. PICK f : f = [i \in 0 .. 0 |-> first]
    OBVIOUS
  <2>2. Upto(f, 0)
    BY <2>1
  <2> QED  BY <2>2
<1>2. ASSUME NEW n \in Nat, n \in T PROVE n + 1 \in T
  <2>1. PICK f : Upto(f, n)
    BY <1>2
  <2>2. PICK x : x = Next1(f, n + 1)
    OBVIOUS
  <2>3. PICK g : g = [i \in 0 .. n + 1 |-> IF i <= n THEN f[i] ELSE x]
    OBVIOUS
  <2>4. DOMAIN g = 0 .. n + 1 /\ g = [i \in 0 .. n + 1 |-> g[i]] /\ g[n + 1] = x /\ \A i \in 0 .. n : g[i] = f[i]
    BY <2>3
  <2>5. ASSUME NEW i \in 0 .. n PROVE g[i] = Next1(g, i)
    <3>1. f[i] = Next1(f, i)
      BY <2>1
    <3>2. i # 0 => i - 1 \in 0 .. n
      OBVIOUS
    <3>3. i # 0 => g[i - 1] = f[i - 1]
      BY <2>4, <3>2
    <3> QED  BY <2>4, <3>1, <3>3
  <2>6. g[n + 1] = Next1(g, n + 1)
    <3>1. (n + 1) - 1 = n /\ n \in 0 .. n /\ n + 1 # 0
      OBVIOUS
    <3> QED  BY <2>2, <2>4, <3>1
  <2>7. \A i \in 0 .. n + 1 : i \in 0 .. n \/ i = n + 1
    OBVIOUS
  <2>8. Upto(g, n + 1)
    <3> HIDE DEF Next1
    <3> QED  BY <2>4, <2>5, <2>6, <2>7
  <2>9. n + 1 \in Nat
    OBVIOUS
  <2> HIDE DEF Upto
  <2> QED  BY <2>8, <2>9
<1>3. Len(rows) \in T
  <2>1. Nat \subseteq T
    <3> HIDE DEF T
    <3> QED  BY <1>1, <1>2, Upward
  <2> QED  BY <2>1, LenProperties
<1>4. PICK f : Upto(f, Len(rows))
  BY <1>3
<1>5. PICK g : g = f
  OBVIOUS
<1>6. f = [n \in 0 .. Len(rows) |-> IF n = 0 THEN first ELSE Checked(g[n - 1], rows[n])]
  BY <1>4, <1>5
<1> QED  BY <1>5, <1>6 DEF CheckRuns

\* The fold is the function that was found.
LEMMA CheckIs ==
  ASSUME NEW S, NEW rows \in Seq(S), NEW first
  PROVE  \E f : CheckRuns(first, rows, f) /\ Checks(first, rows) = f[Len(rows)]
<1> DEFINE g == CHOOSE f : CheckRuns(first, rows, f)
<1>1. CheckRuns(first, rows, g)
  BY CheckExists
<1>2. Checks(first, rows) = g[Len(rows)]
  BY DEF Checks, CheckRuns
<1> QED  BY <1>1, <1>2

\* Its value at each length.
LEMMA CheckAt ==
  ASSUME NEW first, NEW rows, NEW f, CheckRuns(first, rows, f), NEW n \in 0 .. Len(rows)
  PROVE  f[n] = IF n = 0 THEN first ELSE Checked(f[n - 1], rows[n])
<1>1. PICK h : h = f
  OBVIOUS
<1>2. f = [i \in 0 .. Len(rows) |-> IF i = 0 THEN first ELSE Checked(h[i - 1], rows[i])]
  BY <1>1 DEF CheckRuns
<1> QED  BY <1>1, <1>2

\* No rows change nothing.
LEMMA CheckNone == ASSUME NEW first PROVE Checks(first, <<>>) = first
<1>1. <<>> \in Seq({}) /\ Len(<<>>) = 0
  OBVIOUS
<1>2. PICK f : CheckRuns(first, <<>>, f) /\ Checks(first, <<>>) = f[0]
  BY <1>1, CheckIs
<1>3. 0 \in 0 .. Len(<<>>)
  BY <1>1
<1> QED  BY <1>2, <1>3, CheckAt

\* One row more is one step more.
LEMMA CheckStep ==
  ASSUME NEW S, NEW rows \in Seq(S), NEW row \in S, NEW first
  PROVE  Checks(first, Append(rows, row)) = Checked(Checks(first, rows), row)
<1>1. PICK more \in Seq(S) : more = Append(rows, row)
  <2>1. Append(rows, row) \in Seq(S)
    OBVIOUS
  <2> QED  BY <2>1
<1>2. PICK l \in Nat : l = Len(rows)
  BY LenProperties
<1>3. Len(more) = l + 1 /\ more[l + 1] = row /\ \A i \in 1 .. l : more[i] = rows[i]
  BY <1>1, <1>2
<1>4. PICK f : CheckRuns(first, rows, f) /\ Checks(first, rows) = f[l]
  BY <1>2, CheckIs
<1>5. PICK g : CheckRuns(first, more, g) /\ Checks(first, more) = g[l + 1]
  BY <1>3, CheckIs
<1> DEFINE T == {n \in Nat : n \in 0 .. l => g[n] = f[n]}
<1>6. 0 \in T
  <2>1. 0 \in 0 .. Len(rows) /\ 0 \in 0 .. Len(more)
    BY <1>2, <1>3
  <2> QED  BY <1>4, <1>5, <2>1, CheckAt
<1>7. ASSUME NEW k \in Nat, k \in T PROVE k + 1 \in T
  <2> SUFFICES ASSUME k + 1 \in 0 .. l PROVE g[k + 1] = f[k + 1]
    OBVIOUS
  <2>1. PICK n \in 1 .. l : n = k + 1 /\ n - 1 = k /\ n # 0
    BY <1>2
  <2>2. n \in 0 .. Len(rows) /\ n \in 0 .. Len(more) /\ k \in 0 .. l
    BY <1>2, <1>3, <2>1
  <2>3. f[n] = Checked(f[k], rows[n])
    BY <1>4, <2>1, <2>2, CheckAt
  <2>4. g[n] = Checked(g[k], more[n])
    BY <1>5, <2>1, <2>2, CheckAt
  <2> QED  BY <1>3, <1>7, <2>1, <2>2, <2>3, <2>4
<1>8. Nat \subseteq T
  <2> HIDE DEF T
  <2> QED  BY <1>6, <1>7, Upward
<1>9. g[l] = f[l]
  BY <1>8
<1>10. PICK n \in 0 .. Len(more) : n = l + 1 /\ n - 1 = l /\ n # 0
  BY <1>2, <1>3
<1>11. g[n] = Checked(g[l], more[n])
  BY <1>5, <1>10, CheckAt
<1> QED  BY <1>1, <1>3, <1>4, <1>5, <1>9, <1>10, <1>11

\* What Due comes to after each row.
DueRuns(first, rows, f) ==
  f = [n \in 0 .. Len(rows) |-> IF n = 0 THEN first ELSE OwedMore(f[n - 1], rows[n])]

\* The same for what the tape owes a reader.
LEMMA DueExists == ASSUME NEW S, NEW rows \in Seq(S), NEW first PROVE \E f : DueRuns(first, rows, f)
<1> DEFINE Next1(g, n) == IF n = 0 THEN first ELSE OwedMore(g[n - 1], rows[n])
           Upto(f, n) == DOMAIN f = 0 .. n /\ f = [i \in 0 .. n |-> f[i]] /\ \A i \in 0 .. n : f[i] = Next1(f, i)
           T == {n \in Nat : \E f : Upto(f, n)}
<1>1. 0 \in T
  <2>1. PICK f : f = [i \in 0 .. 0 |-> first]
    OBVIOUS
  <2>2. Upto(f, 0)
    BY <2>1
  <2> QED  BY <2>2
<1>2. ASSUME NEW n \in Nat, n \in T PROVE n + 1 \in T
  <2>1. PICK f : Upto(f, n)
    BY <1>2
  <2>2. PICK x : x = Next1(f, n + 1)
    OBVIOUS
  <2>3. PICK g : g = [i \in 0 .. n + 1 |-> IF i <= n THEN f[i] ELSE x]
    OBVIOUS
  <2>4. DOMAIN g = 0 .. n + 1 /\ g = [i \in 0 .. n + 1 |-> g[i]] /\ g[n + 1] = x /\ \A i \in 0 .. n : g[i] = f[i]
    BY <2>3
  <2>5. ASSUME NEW i \in 0 .. n PROVE g[i] = Next1(g, i)
    <3>1. f[i] = Next1(f, i)
      BY <2>1
    <3>2. i # 0 => i - 1 \in 0 .. n
      OBVIOUS
    <3>3. i # 0 => g[i - 1] = f[i - 1]
      BY <2>4, <3>2
    <3> QED  BY <2>4, <3>1, <3>3
  <2>6. g[n + 1] = Next1(g, n + 1)
    <3>1. (n + 1) - 1 = n /\ n \in 0 .. n /\ n + 1 # 0
      OBVIOUS
    <3> QED  BY <2>2, <2>4, <3>1
  <2>7. \A i \in 0 .. n + 1 : i \in 0 .. n \/ i = n + 1
    OBVIOUS
  <2>8. Upto(g, n + 1)
    <3> HIDE DEF Next1
    <3> QED  BY <2>4, <2>5, <2>6, <2>7
  <2>9. n + 1 \in Nat
    OBVIOUS
  <2> HIDE DEF Upto
  <2> QED  BY <2>8, <2>9
<1>3. Len(rows) \in T
  <2>1. Nat \subseteq T
    <3> HIDE DEF T
    <3> QED  BY <1>1, <1>2, Upward
  <2> QED  BY <2>1, LenProperties
<1>4. PICK f : Upto(f, Len(rows))
  BY <1>3
<1>5. PICK g : g = f
  OBVIOUS
<1>6. f = [n \in 0 .. Len(rows) |-> IF n = 0 THEN first ELSE OwedMore(g[n - 1], rows[n])]
  BY <1>4, <1>5
<1> QED  BY <1>5, <1>6 DEF DueRuns

\* The fold is the function that was found.
LEMMA DueIs ==
  ASSUME NEW S, NEW rows \in Seq(S), NEW first
  PROVE  \E f : DueRuns(first, rows, f) /\ Due(first, rows) = f[Len(rows)]
<1> DEFINE g == CHOOSE f : DueRuns(first, rows, f)
<1>1. DueRuns(first, rows, g)
  BY DueExists
<1>2. Due(first, rows) = g[Len(rows)]
  BY DEF Due, DueRuns
<1> QED  BY <1>1, <1>2

\* Its value at each length.
LEMMA DueAt ==
  ASSUME NEW first, NEW rows, NEW f, DueRuns(first, rows, f), NEW n \in 0 .. Len(rows)
  PROVE  f[n] = IF n = 0 THEN first ELSE OwedMore(f[n - 1], rows[n])
<1>1. PICK h : h = f
  OBVIOUS
<1>2. f = [i \in 0 .. Len(rows) |-> IF i = 0 THEN first ELSE OwedMore(h[i - 1], rows[i])]
  BY <1>1 DEF DueRuns
<1> QED  BY <1>1, <1>2

\* No rows change nothing.
LEMMA DueNone == ASSUME NEW first PROVE Due(first, <<>>) = first
<1>1. <<>> \in Seq({}) /\ Len(<<>>) = 0
  OBVIOUS
<1>2. PICK f : DueRuns(first, <<>>, f) /\ Due(first, <<>>) = f[0]
  BY <1>1, DueIs
<1>3. 0 \in 0 .. Len(<<>>)
  BY <1>1
<1> QED  BY <1>2, <1>3, DueAt

\* One row more is one step more.
LEMMA DueStep ==
  ASSUME NEW S, NEW rows \in Seq(S), NEW row \in S, NEW first
  PROVE  Due(first, Append(rows, row)) = OwedMore(Due(first, rows), row)
<1>1. PICK more \in Seq(S) : more = Append(rows, row)
  <2>1. Append(rows, row) \in Seq(S)
    OBVIOUS
  <2> QED  BY <2>1
<1>2. PICK l \in Nat : l = Len(rows)
  BY LenProperties
<1>3. Len(more) = l + 1 /\ more[l + 1] = row /\ \A i \in 1 .. l : more[i] = rows[i]
  BY <1>1, <1>2
<1>4. PICK f : DueRuns(first, rows, f) /\ Due(first, rows) = f[l]
  BY <1>2, DueIs
<1>5. PICK g : DueRuns(first, more, g) /\ Due(first, more) = g[l + 1]
  BY <1>3, DueIs
<1> DEFINE T == {n \in Nat : n \in 0 .. l => g[n] = f[n]}
<1>6. 0 \in T
  <2>1. 0 \in 0 .. Len(rows) /\ 0 \in 0 .. Len(more)
    BY <1>2, <1>3
  <2> QED  BY <1>4, <1>5, <2>1, DueAt
<1>7. ASSUME NEW k \in Nat, k \in T PROVE k + 1 \in T
  <2> SUFFICES ASSUME k + 1 \in 0 .. l PROVE g[k + 1] = f[k + 1]
    OBVIOUS
  <2>1. PICK n \in 1 .. l : n = k + 1 /\ n - 1 = k /\ n # 0
    BY <1>2
  <2>2. n \in 0 .. Len(rows) /\ n \in 0 .. Len(more) /\ k \in 0 .. l
    BY <1>2, <1>3, <2>1
  <2>3. f[n] = OwedMore(f[k], rows[n])
    BY <1>4, <2>1, <2>2, DueAt
  <2>4. g[n] = OwedMore(g[k], more[n])
    BY <1>5, <2>1, <2>2, DueAt
  <2> QED  BY <1>3, <1>7, <2>1, <2>2, <2>3, <2>4
<1>8. Nat \subseteq T
  <2> HIDE DEF T
  <2> QED  BY <1>6, <1>7, Upward
<1>9. g[l] = f[l]
  BY <1>8
<1>10. PICK n \in 0 .. Len(more) : n = l + 1 /\ n - 1 = l /\ n # 0
  BY <1>2, <1>3
<1>11. g[n] = OwedMore(g[l], more[n])
  BY <1>5, <1>10, DueAt
<1> QED  BY <1>1, <1>3, <1>4, <1>5, <1>9, <1>10, <1>11

-----------------------------------------------------------------------------
(* Both sorts leave the rows of a group as the producers wrote them.        *)

\* Rows at increasing coordinates are in the order of both sorts.
InTape(rows) == \A m, n \in DOMAIN rows : m < n => Before(rows[m].at, rows[n].at)
IsRows(rows) == rows \in Seq(Range(rows)) /\ \A n \in DOMAIN rows : rows[n].at \in Nat \X Nat

\* Neither order is circular.
LEMMA BeforeIsStrict ==
  ASSUME NEW a \in Nat \X Nat, NEW b \in Nat \X Nat, Before(a, b)
  PROVE  ~Before(b, a) /\ a # b
<1>1. a[1] \in Nat /\ a[2] \in Nat /\ b[1] \in Nat /\ b[2] \in Nat
  OBVIOUS
<1>2. ~Before(b, a)
  BY <1>1 DEF Before
<1>3. a # b
  BY <1>1 DEF Before
<1> QED  BY <1>2, <1>3

\* Rows already in order stay where they are.
LEMMA RankedSame ==
  ASSUME NEW S, NEW rows \in Seq(S), NEW before,
         \A k, m \in DOMAIN rows : <<k, m>> \in before <=> k < m
  PROVE  Ranked(rows, before) = rows
<1>1. PICK l \in Nat : l = Len(rows) /\ DOMAIN rows = 1 .. l
  BY LenProperties
<1>2. ASSUME NEW m \in 1 .. l
      PROVE  Cardinality({k \in DOMAIN rows : <<k, m>> \in before}) = m - 1
  <2>1. {k \in DOMAIN rows : <<k, m>> \in before} = 1 .. m - 1
    <3>1. \A k : k \in DOMAIN rows /\ <<k, m>> \in before <=> k \in 1 .. m - 1
      BY <1>1
    <3> QED  BY <3>1
  <2>2. 1 \in Int /\ m - 1 \in Int
    OBVIOUS
  <2>3. Cardinality(1 .. m - 1) = IF 1 > m - 1 THEN 0 ELSE (m - 1) - 1 + 1
    BY <2>2, FS_Interval
  <2>4. Cardinality(1 .. m - 1) = m - 1
    BY <2>3
  <2> QED  BY <2>1, <2>4
<1>3. ASSUME NEW n \in 1 .. l
      PROVE  (CHOOSE m \in DOMAIN rows : Cardinality({k \in DOMAIN rows : <<k, m>> \in before}) = n - 1) = n
  <2>1. \A m \in DOMAIN rows : Cardinality({k \in DOMAIN rows : <<k, m>> \in before}) = n - 1 <=> m = n
    BY <1>1, <1>2
  <2>2. n \in DOMAIN rows
    BY <1>1
  <2> QED  BY <2>1, <2>2
<1>4. PICK t : t = Ranked(rows, before)
  OBVIOUS
<1>5. DOMAIN t = 1 .. l /\ \A n \in 1 .. l : t[n] = rows[n]
  BY <1>1, <1>3, <1>4 DEF Ranked
<1>6. t = [n \in 1 .. l |-> t[n]]
  BY <1>4, <1>1 DEF Ranked
<1>7. rows = [n \in 1 .. l |-> rows[n]]
  BY <1>1
<1>8. t = rows
  BY <1>5, <1>6, <1>7
<1> QED  BY <1>4, <1>8

\* The sort of the check and the sort of the replay both give back the rows as
\* written.
LEMMA RowsAreOrdered ==
  ASSUME NEW rows, IsRows(rows), InTape(rows)
  PROVE  InOrder(rows) = rows /\ Causal(rows) = rows
<1>1. rows \in Seq(Range(rows)) /\ DOMAIN rows \subseteq Nat
  BY LenProperties DEF IsRows
<1>2. ASSUME NEW k \in DOMAIN rows, NEW m \in DOMAIN rows
      PROVE  /\ Before(rows[k].at, rows[m].at) <=> k < m
             /\ Behind(Progress(rows[k]), Progress(rows[m])) <=> k < m
             /\ rows[k].at = rows[m].at => k = m
             /\ Progress(rows[k]) = Progress(rows[m]) => k = m
  <2>1. k \in Nat /\ m \in Nat
    BY <1>1
  <2>2. k < m \/ m < k \/ k = m
    BY <2>1
  <2>3. PICK a \in Nat \X Nat : a = rows[k].at
    BY DEF IsRows
  <2>4. PICK b \in Nat \X Nat : b = rows[m].at
    BY DEF IsRows
  <2>5. a[1] \in Nat /\ a[2] \in Nat /\ b[1] \in Nat /\ b[2] \in Nat
    OBVIOUS
  <2>6. PICK p, q : p = Priority(rows[k]) /\ q = Priority(rows[m]) /\ p \in Nat /\ q \in Nat
    <3>1. \A row : Priority(row) \in Nat
      BY DEF Priority
    <3> QED  BY <3>1
  <2>7. Progress(rows[k]) = <<a[1], a[2], p>> /\ Progress(rows[m]) = <<b[1], b[2], q>>
    BY <2>3, <2>4, <2>6 DEF Progress
  <2>8. CASE k < m
    <3>1. Before(a, b)
      BY <2>3, <2>4, <2>8 DEF InTape
    <3>2. ~(m < k) /\ k # m
      BY <2>1, <2>8
    <3>3. Behind(<<a[1], a[2], p>>, <<b[1], b[2], q>>) /\ <<a[1], a[2], p>> # <<b[1], b[2], q>>
      BY <2>5, <2>6, <3>1 DEF Before, Behind
    <3> QED  BY <2>3, <2>4, <2>7, <2>8, <3>1, <3>2, <3>3, BeforeIsStrict
  <2>9. CASE m < k
    <3>1. Before(b, a)
      BY <2>3, <2>4, <2>9 DEF InTape
    <3>2. ~(k < m) /\ k # m
      BY <2>1, <2>9
    <3>3. ~Behind(<<a[1], a[2], p>>, <<b[1], b[2], q>>) /\ <<a[1], a[2], p>> # <<b[1], b[2], q>>
      BY <2>5, <2>6, <3>1 DEF Before, Behind
    <3> QED  BY <2>3, <2>4, <2>7, <2>9, <3>1, <3>2, <3>3, BeforeIsStrict
  <2>10. CASE k = m
    <3>1. ~(k < m)
      BY <2>1, <2>10
    <3>2. ~Before(a, a) /\ ~Behind(<<a[1], a[2], p>>, <<a[1], a[2], p>>)
      BY <2>5, <2>6 DEF Before, Behind
    <3> QED  BY <2>3, <2>4, <2>6, <2>7, <2>10, <3>1, <3>2
  <2> QED  BY <2>2, <2>8, <2>9, <2>10
<1>3. PICK before : before = {p \in (DOMAIN rows) \X (DOMAIN rows) :
                  \/ Before(rows[p[1]].at, rows[p[2]].at)
                  \/ rows[p[1]].at = rows[p[2]].at /\ p[1] < p[2]}
  OBVIOUS
<1>4. \A k, m \in DOMAIN rows : <<k, m>> \in before <=> k < m
  BY <1>2, <1>3
<1>5. InOrder(rows) = rows
  BY <1>1, <1>3, <1>4, RankedSame DEF InOrder
<1>6. PICK behind : behind = {p \in (DOMAIN rows) \X (DOMAIN rows) :
                  \/ Behind(Progress(rows[p[1]]), Progress(rows[p[2]]))
                  \/ Progress(rows[p[1]]) = Progress(rows[p[2]]) /\ p[1] < p[2]}
  OBVIOUS
<1>7. \A k, m \in DOMAIN rows : <<k, m>> \in behind <=> k < m
  BY <1>2, <1>6
<1>8. Causal(rows) = rows
  BY <1>1, <1>6, <1>7, RankedSame DEF Causal
<1> QED  BY <1>5, <1>8

-----------------------------------------------------------------------------
(* What a row does to the engine.                                           *)

\* An engine, and what it has of the moments of books: emitted, or held back.
Moments == (Nat \X Nat) \X TapeBooks \X (SUBSET Levels)
Owners == TapeBooks \X Nat \X Nat
IsEngine(e) ==
  /\ DOMAIN e = {"open", "native", "recovering", "ended", "heard", "progress", "shardSeq", "bookSeq",
                 "pending", "out", "error", "owed", "wrong"}
  /\ e.open \in [TapeBooks -> Nat] /\ e.bookSeq \in [TapeBooks -> Nat] /\ e.shardSeq \in Nat
  /\ DOMAIN e.native = TapeBooks /\ DOMAIN e.recovering = TapeBooks
  /\ e.progress \in [TapeBooks -> Nat \X Nat \X Nat]
  /\ e.ended \subseteq TapeBooks /\ e.heard \subseteq TapeBooks
  /\ e.pending = <<>> \/ e.pending \in Owners \X Moments
  /\ e.out \in Seq(Moments)
GivenOrHeld(e) == IF e.pending = <<>> THEN e.out ELSE Append(e.out, e.pending[2])

\* Two engines alike but for what they emit and how far they read.
Alike(e, f) ==
  /\ f.open = e.open /\ f.native = e.native /\ f.recovering = e.recovering
  /\ f.ended = e.ended /\ f.heard = e.heard /\ f.shardSeq = e.shardSeq /\ f.bookSeq = e.bookSeq
  /\ f.error = e.error /\ f.owed = e.owed
\* What was pending goes out, unless the row is a part of the same message.
Emptied(e, f, row) ==
  /\ GivenOrHeld(f) = GivenOrHeld(e)
  /\ f.pending = <<>> \/ (f.pending = e.pending /\ IsEvent(row) /\ e.pending[1] = Owner(row))

\* Emitting what is pending changes nothing but the output.
LEMMA EmittedIs ==
  ASSUME NEW e, IsEngine(e)
  PROVE  /\ IsEngine(EmitPending(e)) /\ Alike(e, EmitPending(e)) /\ EmitPending(e).progress = e.progress
         /\ GivenOrHeld(EmitPending(e)) = GivenOrHeld(e) /\ EmitPending(e).pending = <<>>
         /\ EmitPending(e).out = GivenOrHeld(e)
<1>1. CASE e.pending = <<>>
  <2>1. EmitPending(e) = e
    BY <1>1 DEF EmitPending
  <2> QED  BY <1>1, <2>1 DEF Alike, GivenOrHeld
<1>2. CASE e.pending # <<>>
  <2>1. PICK m \in Moments : m = e.pending[2]
    BY <1>2 DEF IsEngine
  <2>2. PICK f : f = EmitPending(e)
    OBVIOUS
  <2>3. f = [e EXCEPT !.out = Append(e.out, m), !.pending = <<>>]
    BY <1>2, <2>1, <2>2 DEF EmitPending
  <2>4. DOMAIN f = DOMAIN e /\ f.out = Append(e.out, m) /\ f.pending = <<>> /\ f.progress = e.progress
        /\ f.open = e.open /\ f.native = e.native /\ f.recovering = e.recovering
    BY <2>3 DEF IsEngine
  <2>5. /\ f.ended = e.ended /\ f.heard = e.heard /\ f.shardSeq = e.shardSeq /\ f.bookSeq = e.bookSeq
        /\ f.error = e.error /\ f.owed = e.owed
    BY <2>3 DEF IsEngine
  <2>6. f.out \in Seq(Moments)
    BY <2>1, <2>4 DEF IsEngine
  <2>7. IsEngine(f)
    BY <2>4, <2>5, <2>6 DEF IsEngine
  <2>8. GivenOrHeld(f) = GivenOrHeld(e) /\ f.out = GivenOrHeld(e)
    BY <1>2, <2>1, <2>4 DEF GivenOrHeld
  <2> QED  BY <2>2, <2>4, <2>5, <2>7, <2>8 DEF Alike
<1> QED  BY <1>1, <1>2

\* The engine when it comes to a row.
Reached(e, row) == [Flushed(e, row) EXCEPT !.progress[row.book] = Progress(row)]

\* A row in causal order is reached: the message before it has been emitted.
LEMMA ReachedIs ==
  ASSUME NEW e, IsEngine(e), NEW row, row.book \in TapeBooks, row.at \in Nat \X Nat,
         NEW f, f = Reached(e, row)
  PROVE  /\ IsEngine(f) /\ Alike(e, f) /\ Emptied(e, f, row)
         /\ f.progress = [e.progress EXCEPT ![row.book] = Progress(row)]
<1>1. PICK g : g = Flushed(e, row)
  OBVIOUS
<1>2. IsEngine(g) /\ Alike(e, g) /\ Emptied(e, g, row) /\ g.progress = e.progress
  <2>1. CASE e.pending # <<>> /\ ~(IsEvent(row) /\ Owner(row) = e.pending[1])
    BY <1>1, <2>1, EmittedIs DEF Flushed, Emptied
  <2>2. CASE ~(e.pending # <<>> /\ ~(IsEvent(row) /\ Owner(row) = e.pending[1]))
    <3>1. g = e
      BY <1>1, <2>2 DEF Flushed
    <3> QED  BY <2>2, <3>1 DEF Alike, Emptied
  <2> QED  BY <2>1, <2>2
<1>3. PICK p \in Nat \X Nat \X Nat : p = Progress(row)
  <2>1. Priority(row) \in Nat
    BY DEF Priority
  <2>2. Progress(row) \in Nat \X Nat \X Nat
    BY <2>1 DEF Progress
  <2> QED  BY <2>2
<1>4. PICK q : q = [e.progress EXCEPT ![row.book] = p]
  OBVIOUS
<1>5. f = [g EXCEPT !.progress = q]
  BY <1>1, <1>2, <1>3, <1>4 DEF Reached
<1>6. DOMAIN f = DOMAIN g /\ f.progress = q /\ f.out = g.out /\ f.pending = g.pending
      /\ f.open = g.open /\ f.native = g.native /\ f.recovering = g.recovering
  BY <1>2, <1>5 DEF IsEngine
<1>7. /\ f.ended = g.ended /\ f.heard = g.heard /\ f.shardSeq = g.shardSeq /\ f.bookSeq = g.bookSeq
      /\ f.error = g.error /\ f.owed = g.owed
  BY <1>2, <1>5 DEF IsEngine
<1>8. q \in [TapeBooks -> Nat \X Nat \X Nat]
  BY <1>4 DEF IsEngine
<1>9. IsEngine(f)
  BY <1>2, <1>6, <1>7, <1>8 DEF IsEngine
<1>10. Alike(e, f)
  BY <1>2, <1>6, <1>7 DEF Alike
<1>11. Emptied(e, f, row)
  BY <1>2, <1>6 DEF Emptied, GivenOrHeld
<1> QED  BY <1>3, <1>4, <1>6, <1>9, <1>10, <1>11

\* A row the engine can take: further on, of a book that has not ended.
Due1(e, row) ==
  /\ IsEngine(e) /\ e.error = <<>> /\ row.book \in TapeBooks /\ row.at \in Nat \X Nat
  /\ Behind(e.progress[row.book], Progress(row)) /\ row.book \notin e.ended

\* An engine with an error reads nothing more.
LEMMA StuckStays == ASSUME NEW e, e.error # <<>>, NEW row PROVE Replayed(e, row) = e
  BY DEF Replayed

\* What every row that is taken leaves: its progress, the moments the engine has.
Read(e, f, row) ==
  /\ IsEngine(f) /\ f.error = <<>> /\ f.owed = e.owed
  /\ f.progress = [e.progress EXCEPT ![row.book] = Progress(row)]

ControlRead(e, f, row) ==
  /\ Read(e, f, row) /\ GivenOrHeld(f) = GivenOrHeld(e) /\ f.pending = <<>> /\ f.recovering = e.recovering
  /\ f.open = [e.open EXCEPT ![row.book] = None]
  /\ \A b \in TapeBooks : b # row.book => f.native[b] = e.native[b] /\ f.bookSeq[b] = e.bookSeq[b]
  /\ f.ended = IF row.kind = "ended" THEN e.ended \cup {row.book} ELSE e.ended
  /\ row.reason # "reconnect" => f.bookSeq = e.bookSeq /\ f.shardSeq = e.shardSeq
  /\ f.shardSeq \in {e.shardSeq, None}
  /\ row.reason = "reconnect" /\ row.kind = "invalidated" /\ row.venue = "kalshi" => f.shardSeq = None

\* What a control does to the engine.
LEMMA ControlTaken ==
  ASSUME NEW e, NEW row, Due1(e, row), row.kind \in {"invalidated", "ended"}, e.recovering[row.book] = <<>>,
         row.epoch = None \/ row.epoch = e.open[row.book], NEW f, f = Replayed(e, row)
  PROVE  ControlRead(e, f, row)
<1> DEFINE b == row.book
<1>0. ~IsEvent(row) /\ row.kind # "recovered"
  BY DEF IsEvent
<1>1. PICK m : m = Reached(e, row)
  OBVIOUS
<1>2. IsEngine(m) /\ Alike(e, m) /\ Emptied(e, m, row)
      /\ m.progress = [e.progress EXCEPT ![b] = Progress(row)]
  BY <1>1, ReachedIs DEF Due1
<1>3. PICK r : r = OrderReset(m, row)
  OBVIOUS
<1>4. f = AppliedControl(r, row)
  BY <1>0, <1>1, <1>3 DEF Replayed, Due1, Reached
<1>5. /\ IsEngine(r) /\ r.open = m.open /\ r.native = m.native /\ r.recovering = m.recovering
      /\ r.ended = m.ended /\ r.heard = m.heard /\ r.progress = m.progress /\ r.pending = m.pending
      /\ r.out = m.out /\ r.error = m.error /\ r.owed = m.owed
      /\ r.shardSeq \in {m.shardSeq, None}
      /\ \A x \in TapeBooks : x # b => r.bookSeq[x] = m.bookSeq[x]
      /\ row.reason # "reconnect" => r.bookSeq = m.bookSeq /\ r.shardSeq = m.shardSeq
      /\ row.reason = "reconnect" /\ row.kind = "invalidated" /\ row.venue = "kalshi" => r.shardSeq = None
  <2>1. CASE row.venue = "kalshi" /\ row.kind = "invalidated" /\ row.reason = "reconnect"
    <3>1. PICK q : q = [m.bookSeq EXCEPT ![b] = None]
      OBVIOUS
    <3>2. r = [m EXCEPT !.shardSeq = None, !.bookSeq = q]
      BY <1>3, <2>1, <3>1 DEF OrderReset
    <3>3. q \in [TapeBooks -> Nat] /\ \A x \in TapeBooks : x # b => q[x] = m.bookSeq[x]
      BY <1>2, <3>1 DEF IsEngine, None
    <3>4. DOMAIN r = DOMAIN m /\ r.open = m.open /\ r.native = m.native /\ r.recovering = m.recovering
          /\ r.ended = m.ended /\ r.heard = m.heard /\ r.shardSeq = None /\ r.bookSeq = q
      BY <1>2, <3>2 DEF IsEngine
    <3>5. r.progress = m.progress /\ r.pending = m.pending
          /\ r.out = m.out /\ r.error = m.error /\ r.owed = m.owed
      BY <1>2, <3>2 DEF IsEngine
    <3>6. IsEngine(r)
      BY <1>2, <3>3, <3>4, <3>5 DEF IsEngine, None
    <3> QED  BY <2>1, <3>3, <3>4, <3>5, <3>6
  <2>2. CASE ~(row.venue = "kalshi" /\ row.kind = "invalidated" /\ row.reason = "reconnect")
    <3>1. r = m
      BY <1>3, <2>2 DEF OrderReset
    <3> QED  BY <1>2, <2>2, <3>1
  <2> QED  BY <2>1, <2>2
<1>6. r.recovering[b] = <<>> /\ ~(r.open[b] # None /\ row.epoch \notin {None, r.open[b]})
  BY <1>2, <1>5 DEF Alike
<1>7. PICK o, n, d : o = [r.open EXCEPT ![b] = None] /\ n = [r.native EXCEPT ![b] = {}]
                     /\ d = IF row.kind = "ended" THEN r.ended \cup {b} ELSE r.ended
  OBVIOUS
<1>8. f = [r EXCEPT !.open = o, !.native = n, !.ended = d]
  <2>1. f = [r EXCEPT !.open[b] = None, !.native[b] = {},
                      !.ended = IF row.kind = "ended" THEN @ \cup {b} ELSE @]
    BY <1>0, <1>4, <1>6 DEF AppliedControl
  <2> QED  BY <1>5, <1>7, <2>1 DEF IsEngine
<1>9. /\ DOMAIN f = DOMAIN r /\ f.open = o /\ f.native = n /\ f.ended = d /\ f.recovering = r.recovering
      /\ f.heard = r.heard /\ f.progress = r.progress /\ f.pending = r.pending
  BY <1>5, <1>8 DEF IsEngine
<1>10. f.out = r.out /\ f.error = r.error /\ f.owed = r.owed /\ f.shardSeq = r.shardSeq /\ f.bookSeq = r.bookSeq
  BY <1>5, <1>8 DEF IsEngine
<1>11. /\ o \in [TapeBooks -> Nat] /\ DOMAIN n = TapeBooks /\ d \subseteq TapeBooks
       /\ \A x \in TapeBooks : x # b => n[x] = r.native[x]
  BY <1>5, <1>7 DEF IsEngine, Due1, None
<1>12. IsEngine(f)
  BY <1>5, <1>9, <1>10, <1>11 DEF IsEngine
<1>13. GivenOrHeld(f) = GivenOrHeld(e) /\ f.pending = <<>>
  BY <1>0, <1>2, <1>5, <1>9, <1>10 DEF Emptied, GivenOrHeld
<1>14. Read(e, f, row)
  BY <1>2, <1>5, <1>9, <1>10, <1>12 DEF Read, Alike, Due1
<1>15. f.open = [e.open EXCEPT ![b] = None] /\ f.recovering = e.recovering
       /\ f.ended = IF row.kind = "ended" THEN e.ended \cup {b} ELSE e.ended
  BY <1>2, <1>5, <1>7, <1>9 DEF Alike
<1>16. \A x \in TapeBooks : x # b => f.native[x] = e.native[x] /\ f.bookSeq[x] = e.bookSeq[x]
  BY <1>2, <1>5, <1>9, <1>10, <1>11 DEF Alike
<1> QED  BY <1>2, <1>5, <1>10, <1>13, <1>14, <1>15, <1>16 DEF Alike, ControlRead

\* What the announcement of a recovery does to it.
LEMMA RecoveredTaken ==
  ASSUME NEW e, NEW row, Due1(e, row), row.kind = "recovered", e.recovering[row.book] # <<>>,
         e.recovering[row.book] = row.evidence, e.open[row.book] = row.epoch, NEW f, f = Replayed(e, row)
  PROVE  /\ Read(e, f, row) /\ GivenOrHeld(f) = GivenOrHeld(e) /\ f.pending = <<>> /\ f.open = e.open /\ f.native = e.native
         /\ f.recovering = [e.recovering EXCEPT ![row.book] = <<>>]
         /\ f.ended = e.ended /\ f.bookSeq = e.bookSeq /\ f.shardSeq = e.shardSeq
<1> DEFINE b == row.book
<1>0. ~IsEvent(row)
  BY DEF IsEvent
<1>1. PICK m : m = Reached(e, row)
  OBVIOUS
<1>2. IsEngine(m) /\ Alike(e, m) /\ Emptied(e, m, row)
      /\ m.progress = [e.progress EXCEPT ![b] = Progress(row)]
  BY <1>1, ReachedIs DEF Due1
<1>3. OrderReset(m, row) = m
  BY DEF OrderReset
<1>4. f = AppliedControl(m, row)
  BY <1>0, <1>1, <1>3 DEF Replayed, Due1, Reached
<1>5. PICK q : q = [m.recovering EXCEPT ![b] = <<>>]
  OBVIOUS
<1>6. f = [m EXCEPT !.recovering = q]
  BY <1>2, <1>4, <1>5 DEF AppliedControl, Alike
<1>7. /\ DOMAIN f = DOMAIN m /\ f.recovering = q /\ f.open = m.open /\ f.native = m.native /\ f.ended = m.ended
      /\ f.heard = m.heard /\ f.progress = m.progress /\ f.pending = m.pending
  BY <1>2, <1>6 DEF IsEngine
<1>8. f.out = m.out /\ f.error = m.error /\ f.owed = m.owed /\ f.shardSeq = m.shardSeq /\ f.bookSeq = m.bookSeq
  BY <1>2, <1>6 DEF IsEngine
<1>9. IsEngine(f)
  BY <1>2, <1>5, <1>7, <1>8 DEF IsEngine
<1>10. GivenOrHeld(f) = GivenOrHeld(e) /\ f.pending = <<>>
  BY <1>0, <1>2, <1>7, <1>8 DEF Emptied, GivenOrHeld
<1>11. Read(e, f, row)
  BY <1>2, <1>7, <1>8, <1>9 DEF Read, Alike, Due1
<1> QED  BY <1>2, <1>5, <1>7, <1>8, <1>10, <1>11 DEF Alike

\* An event that is in the order of the venue, and the engine that counted it.
SequenceTaken(e, f, row) ==
  /\ f.shardSeq = IF row.venue = "kalshi" /\ ~Restates(row) THEN row.seq ELSE e.shardSeq
  /\ f.bookSeq = IF row.venue = "kalshi" /\ ~Restates(row) THEN [e.bookSeq EXCEPT ![row.book] = row.seq]
                 ELSE e.bookSeq

\* An event comes to its book after the orders are checked.
LEMMA EventReached ==
  ASSUME NEW e, NEW row, Due1(e, row), IsEvent(row), row.seq \in Nat, Ordered(e, row)
  PROVE  \E s : /\ Replayed(e, row) = AppliedEvent(s, row)
                /\ Read(e, s, row) /\ Emptied(e, s, row) /\ SequenceTaken(e, s, row)
                /\ s.open = e.open /\ s.native = e.native /\ s.recovering = e.recovering /\ s.ended = e.ended
<1> DEFINE b == row.book
<1>1. PICK m : m = Reached(e, row)
  OBVIOUS
<1>2. IsEngine(m) /\ Alike(e, m) /\ Emptied(e, m, row)
      /\ m.progress = [e.progress EXCEPT ![b] = Progress(row)]
  BY <1>1, ReachedIs DEF Due1
<1>3. Ordered(m, row)
  BY <1>2 DEF Ordered, Alike
<1>4. PICK q : q = Sequenced(m, row)
  OBVIOUS
<1>5. /\ IsEngine(q) /\ SequenceTaken(m, q, row) /\ q.open = m.open /\ q.native = m.native
      /\ q.recovering = m.recovering /\ q.ended = m.ended /\ q.heard = m.heard /\ q.progress = m.progress
      /\ q.pending = m.pending /\ q.out = m.out /\ q.error = m.error /\ q.owed = m.owed
  <2>1. CASE row.venue # "kalshi" \/ Restates(row)
    <3>1. q = m
      BY <1>4, <2>1 DEF Sequenced
    <3> QED  BY <1>2, <2>1, <3>1 DEF SequenceTaken
  <2>2. CASE row.venue = "kalshi" /\ ~Restates(row)
    <3>1. PICK t : t = [m.bookSeq EXCEPT ![b] = row.seq]
      OBVIOUS
    <3>2. PICK n \in Nat : n = row.seq
      OBVIOUS
    <3>3. q = [m EXCEPT !.shardSeq = n, !.bookSeq = t]
      BY <1>4, <2>2, <3>1, <3>2 DEF Sequenced
    <3>4. t \in [TapeBooks -> Nat]
      BY <1>2, <3>1 DEF IsEngine
    <3>5. DOMAIN q = DOMAIN m /\ q.open = m.open /\ q.native = m.native /\ q.recovering = m.recovering
          /\ q.ended = m.ended /\ q.heard = m.heard /\ q.shardSeq = n /\ q.bookSeq = t
      BY <1>2, <3>3 DEF IsEngine
    <3>6. q.progress = m.progress /\ q.pending = m.pending
          /\ q.out = m.out /\ q.error = m.error /\ q.owed = m.owed
      BY <1>2, <3>3 DEF IsEngine
    <3>7. IsEngine(q)
      BY <1>2, <3>4, <3>5, <3>6 DEF IsEngine
    <3>8. SequenceTaken(m, q, row)
      BY <2>2, <3>1, <3>2, <3>5 DEF SequenceTaken
    <3> QED  BY <3>5, <3>6, <3>7, <3>8
  <2> QED  BY <2>1, <2>2
<1>6. PICK h : h = q.heard \cup {b}
  OBVIOUS
<1>7. PICK s : s = [q EXCEPT !.heard = h]
  OBVIOUS
<1>8. /\ DOMAIN s = DOMAIN q /\ s.open = q.open /\ s.native = q.native /\ s.recovering = q.recovering
      /\ s.ended = q.ended /\ s.heard = h /\ s.progress = q.progress /\ s.pending = q.pending
  BY <1>5, <1>7 DEF IsEngine
<1>9. s.out = q.out /\ s.error = q.error /\ s.owed = q.owed /\ s.shardSeq = q.shardSeq /\ s.bookSeq = q.bookSeq
  BY <1>5, <1>7 DEF IsEngine
<1>10. h \subseteq TapeBooks
  BY <1>5, <1>6 DEF IsEngine, Due1
<1>11. IsEngine(s)
  BY <1>5, <1>8, <1>9, <1>10 DEF IsEngine
<1>12. Replayed(e, row) = AppliedEvent(s, row)
  <2>1. s = [Sequenced(m, row) EXCEPT !.heard = @ \cup {row.book}]
    BY <1>4, <1>5, <1>6, <1>7 DEF IsEngine
  <2>2. Behind(e.progress[row.book], Progress(row)) /\ row.book \notin e.ended /\ e.error = <<>>
    BY DEF Due1
  <2> QED  BY <1>1, <1>3, <2>1, <2>2 DEF Replayed, Reached
<1>13. Read(e, s, row)
  BY <1>2, <1>5, <1>8, <1>9, <1>11 DEF Read, Alike, Due1
<1>14. Emptied(e, s, row)
  BY <1>2, <1>5, <1>8, <1>9 DEF Emptied, GivenOrHeld
<1>15. SequenceTaken(e, s, row)
  BY <1>2, <1>5, <1>9 DEF SequenceTaken, Alike
<1> QED  BY <1>2, <1>5, <1>8, <1>12, <1>13, <1>14, <1>15 DEF Alike

\* An event of a book that is not whole leaves the books alone.
LEMMA BadEventTaken ==
  ASSUME NEW e, NEW row, Due1(e, row), IsEvent(row), row.seq \in Nat, Ordered(e, row), ~row.good,
         e.open[row.book] = None, e.recovering[row.book] = <<>>, row.kind = "delta" => row.epoch = None,
         NEW f, f = Replayed(e, row)
  PROVE  /\ Read(e, f, row) /\ Emptied(e, f, row) /\ SequenceTaken(e, f, row)
         /\ f.open = e.open /\ f.native = e.native /\ f.recovering = e.recovering /\ f.ended = e.ended
<1>1. PICK s : /\ f = AppliedEvent(s, row)
               /\ Read(e, s, row) /\ Emptied(e, s, row) /\ SequenceTaken(e, s, row)
               /\ s.open = e.open /\ s.native = e.native /\ s.recovering = e.recovering /\ s.ended = e.ended
  BY EventReached
<1>2. f = s
  BY <1>1 DEF AppliedEvent
<1> QED  BY <1>1, <1>2

\* An event that is held back until its message is over.
EmitsOf(s, f, row) ==
  /\ IsEngine(f) /\ f.progress = s.progress /\ f.open = s.open /\ f.recovering = s.recovering
  /\ f.ended = s.ended /\ f.shardSeq = s.shardSeq /\ f.bookSeq = s.bookSeq
  /\ f.error = <<>> /\ f.owed = s.owed
  /\ f.native = [s.native EXCEPT ![row.book] = row.after]
  /\ GivenOrHeld(f) = Append(GivenOrHeld(s), <<row.at, row.book, row.after>>)
  /\ f.pending # <<>> /\ f.pending[1] = Owner(row)

\* An event of a whole book waits for the rest of its message.
LEMMA EmitsIs ==
  ASSUME NEW s, IsEngine(s), s.error = <<>>, NEW row, row.book \in TapeBooks, row.at \in Nat \X Nat,
         row.epoch \in Nat, row.after \subseteq Levels, s.pending = <<>>, NEW f, f = Emits(s, row, row.after)
  PROVE  EmitsOf(s, f, row)
<1>1. PICK n, p : n = [s.native EXCEPT ![row.book] = row.after]
                  /\ p = <<Owner(row), <<row.at, row.book, row.after>>>>
  OBVIOUS
<1>2. f = [s EXCEPT !.native = n, !.pending = p]
  BY <1>1 DEF Emits, IsEngine
<1>3. /\ DOMAIN f = DOMAIN s /\ f.native = n /\ f.open = s.open /\ f.ended = s.ended /\ f.recovering = s.recovering
      /\ f.heard = s.heard /\ f.progress = s.progress /\ f.pending = p
  BY <1>2 DEF IsEngine
<1>4. f.out = s.out /\ f.error = s.error /\ f.owed = s.owed /\ f.shardSeq = s.shardSeq /\ f.bookSeq = s.bookSeq
  BY <1>2 DEF IsEngine
<1>5. Owner(row) \in Owners /\ <<row.at, row.book, row.after>> \in Moments
  <2>1. row.at[1] \in Nat
    OBVIOUS
  <2> QED  BY <2>1 DEF Owner, Owners, Moments
<1>6. p \in Owners \X Moments /\ p # <<>> /\ p[1] = Owner(row) /\ p[2] = <<row.at, row.book, row.after>>
  BY <1>1, <1>5
<1>7. DOMAIN n = TapeBooks
  BY <1>1 DEF IsEngine
<1>8. IsEngine(f)
  BY <1>3, <1>4, <1>6, <1>7 DEF IsEngine
<1> QED  BY <1>1, <1>3, <1>4, <1>6, <1>8 DEF GivenOrHeld, EmitsOf

\* The book comes out after its event, with the levels the event says.
Tells(e, f, row) ==
  /\ Read(e, f, row) /\ SequenceTaken(e, f, row) /\ f.ended = e.ended
  /\ f.native = [e.native EXCEPT ![row.book] = row.after]
  /\ GivenOrHeld(f) = Append(GivenOrHeld(e), <<row.at, row.book, row.after>>)
  /\ f.pending # <<>> /\ f.pending[1] = Owner(row)
\* A message has one event of a book at most.
Fresh(e, row) == e.pending # <<>> => e.pending[1] # Owner(row)
GoodEvent(row) == row.good /\ row.seq \in Nat /\ row.epoch \in Nat /\ row.after \subseteq Levels

\* A checkpoint opens its epoch, and the book recovers until a row says so.
EpochOpens(e, f, row) ==
  /\ f.open = [e.open EXCEPT ![row.book] = row.epoch]
  /\ f.recovering = [e.recovering EXCEPT ![row.book] = row.at]

\* A checkpoint sets the book and ends the recovery.
LEMMA CheckpointTaken ==
  ASSUME NEW e, NEW row, Due1(e, row), row.kind = "checkpoint", Ordered(e, row), GoodEvent(row), Fresh(e, row),
         row.mutations = [l \in row.after |-> TRUE], e.recovering[row.book] = <<>>,
         e.open[row.book] # row.epoch, NEW f, f = Replayed(e, row)
  PROVE  Tells(e, f, row) /\ EpochOpens(e, f, row)
<1> DEFINE b == row.book
<1>0. IsEvent(row) /\ row.seq \in Nat
  BY DEF IsEvent, GoodEvent
<1>1. PICK s : /\ f = AppliedEvent(s, row)
               /\ Read(e, s, row) /\ Emptied(e, s, row) /\ SequenceTaken(e, s, row)
               /\ s.open = e.open /\ s.native = e.native /\ s.recovering = e.recovering /\ s.ended = e.ended
  BY <1>0, EventReached
<1>2. s.pending = <<>>
  BY <1>1 DEF Emptied, Fresh
<1>3. PICK o, r : o = [s.open EXCEPT ![b] = row.epoch] /\ r = [s.recovering EXCEPT ![b] = row.at]
  OBVIOUS
<1>4. PICK q : q = [s EXCEPT !.open = o, !.recovering = r]
  OBVIOUS
<1>5. IsEngine(s) /\ s.error = <<>>
  BY <1>1 DEF Read
<1>6. Applied({}, row.mutations) = row.after
  <2>1. PICK m : m = row.mutations
    OBVIOUS
  <2>2. DOMAIN m = row.after /\ \A l \in row.after : m[l]
    BY <2>1
  <2>3. ({} \ DOMAIN m) \cup {l \in DOMAIN m : m[l]} = row.after
    BY <2>2
  <2> QED  BY <2>1, <2>3 DEF Applied
<1>7. f = Emits(q, row, row.after)
  <2>1. f = Emits([s EXCEPT !.open[b] = row.epoch, !.recovering[b] = row.at], row, Applied({}, row.mutations))
    BY <1>1 DEF AppliedEvent, GoodEvent
  <2>2. q = [s EXCEPT !.open[b] = row.epoch, !.recovering[b] = row.at]
    BY <1>3, <1>4, <1>5 DEF IsEngine
  <2> QED  BY <1>6, <2>1, <2>2
<1>8. /\ DOMAIN q = DOMAIN s /\ q.open = o /\ q.recovering = r /\ q.native = s.native /\ q.ended = s.ended
      /\ q.heard = s.heard /\ q.progress = s.progress /\ q.pending = s.pending
  BY <1>4, <1>5 DEF IsEngine
<1>9. q.out = s.out /\ q.error = s.error /\ q.owed = s.owed /\ q.shardSeq = s.shardSeq /\ q.bookSeq = s.bookSeq
  BY <1>4, <1>5 DEF IsEngine
<1>10. o \in [TapeBooks -> Nat] /\ DOMAIN r = TapeBooks
  BY <1>3, <1>5 DEF IsEngine, GoodEvent
<1>11. IsEngine(q) /\ q.error = <<>> /\ q.pending = <<>>
  BY <1>2, <1>5, <1>8, <1>9, <1>10 DEF IsEngine
<1>12. row.book \in TapeBooks /\ row.at \in Nat \X Nat /\ row.epoch \in Nat /\ row.after \subseteq Levels
  BY DEF Due1, GoodEvent
<1>13. EmitsOf(q, f, row)
  BY <1>7, <1>11, <1>12, EmitsIs
<1>14. GivenOrHeld(q) = GivenOrHeld(e)
  BY <1>1, <1>8, <1>9 DEF Emptied, GivenOrHeld
<1>15. Tells(e, f, row)
  BY <1>1, <1>8, <1>9, <1>13, <1>14 DEF EmitsOf, Tells, Read, SequenceTaken
<1> QED  BY <1>1, <1>3, <1>8, <1>13, <1>15 DEF EmitsOf, EpochOpens

\* A delta on an open epoch leads to the book it was taken from.
LEMMA DeltaTaken ==
  ASSUME NEW e, NEW row, Due1(e, row), row.kind = "delta", Ordered(e, row), GoodEvent(row), Fresh(e, row),
         Applied(e.native[row.book], row.mutations) = row.after, e.recovering[row.book] = <<>>,
         e.open[row.book] = row.epoch, row.epoch # None, NEW f, f = Replayed(e, row)
  PROVE  Tells(e, f, row) /\ f.open = e.open /\ f.recovering = e.recovering
<1>0. IsEvent(row) /\ row.seq \in Nat
  BY DEF IsEvent, GoodEvent
<1>1. PICK s : /\ f = AppliedEvent(s, row)
               /\ Read(e, s, row) /\ Emptied(e, s, row) /\ SequenceTaken(e, s, row)
               /\ s.open = e.open /\ s.native = e.native /\ s.recovering = e.recovering /\ s.ended = e.ended
  BY <1>0, EventReached
<1>2. s.pending = <<>>
  BY <1>1 DEF Emptied, Fresh
<1>3. f = Emits(s, row, row.after)
  BY <1>1 DEF AppliedEvent, GoodEvent
<1>4. row.book \in TapeBooks /\ row.at \in Nat \X Nat /\ row.epoch \in Nat /\ row.after \subseteq Levels
  BY DEF Due1, GoodEvent
<1>5. IsEngine(s) /\ s.error = <<>>
  BY <1>1 DEF Read
<1>6. EmitsOf(s, f, row)
  BY <1>2, <1>3, <1>4, <1>5, EmitsIs
<1>7. GivenOrHeld(s) = GivenOrHeld(e)
  BY <1>1 DEF Emptied
<1>8. Tells(e, f, row)
  BY <1>1, <1>6, <1>7 DEF EmitsOf, Tells, Read, SequenceTaken
<1> QED  BY <1>1, <1>6, <1>8 DEF EmitsOf

\* An event out of the order of the venue stops the engine.
LEMMA DisorderStops ==
  ASSUME NEW e, NEW row, Due1(e, row), IsEvent(row), ~Ordered(e, row), NEW f, f = Replayed(e, row)
  PROVE  IsEngine(f) /\ f.error = <<row>> /\ f.owed = e.owed
<1>1. PICK m : m = Reached(e, row)
  OBVIOUS
<1>2. IsEngine(m) /\ Alike(e, m)
  BY <1>1, ReachedIs DEF Due1
<1>3. ~Ordered(m, row)
  BY <1>2 DEF Ordered, Alike
<1>4. f = Raise(m, row)
  <2>1. Behind(e.progress[row.book], Progress(row)) /\ row.book \notin e.ended /\ e.error = <<>>
    BY DEF Due1
  <2> QED  BY <1>1, <1>3, <2>1 DEF Replayed, Reached
<1>5. PICK x : x = <<row>>
  OBVIOUS
<1>6. f = [m EXCEPT !.error = x]
  BY <1>4, <1>5 DEF Raise
<1>7. /\ DOMAIN f = DOMAIN m /\ f.native = m.native /\ f.open = m.open /\ f.ended = m.ended /\ f.recovering = m.recovering
      /\ f.heard = m.heard /\ f.progress = m.progress /\ f.pending = m.pending
  BY <1>2, <1>6 DEF IsEngine
<1>8. f.out = m.out /\ f.error = x /\ f.owed = m.owed /\ f.shardSeq = m.shardSeq /\ f.bookSeq = m.bookSeq
  BY <1>2, <1>6 DEF IsEngine
<1>9. IsEngine(f)
  BY <1>2, <1>7, <1>8 DEF IsEngine
<1> QED  BY <1>2, <1>5, <1>8, <1>9 DEF Alike

-----------------------------------------------------------------------------
(* What the producers, the coordinator and the engine have of a book.       *)

\* A book of the producers, an epoch tracker.
IsBook(book) ==
  /\ DOMAIN book = {"levels", "snapshot", "flaw", "seq", "baseline", "counted"}
  /\ book.levels \in SUBSET Levels /\ book.seq \in Nat
  /\ book.snapshot \in BOOLEAN /\ book.flaw \in BOOLEAN /\ book.baseline \in BOOLEAN /\ book.counted \in BOOLEAN
AreBooks(ladders) ==
  DOMAIN ladders = TapeBooks /\ ladders = [b \in TapeBooks |-> ladders[b]] /\ \A b \in TapeBooks : IsBook(ladders[b])
IsTracker(tr) ==
  DOMAIN tr = {"last", "open"} /\ tr = [last |-> tr.last, open |-> tr.open]
  /\ tr.last \in [TapeBooks -> Nat] /\ tr.open \in [TapeBooks -> Nat]

\* Two cases of the code are no fault of the tape.
Blamed(row) ==
  row.venue = "kalshi" /\ row.kind = "checkpoint" /\ row.reason = "periodic" /\ ~row.counted
BaselessDelta(row) == row.kind = "delta" /\ ~row.baseline

\* Where a group stands: the venue, the number of the message, the engine and
\* the committed books before the group.
IsGround(g) == g.venue \in {"polymarket", "kalshi"} /\ g.local \in Nat

\* What the engine has of a book when the producer has it so.
BookSeen(e, b, exchange, book, last, open) ==
  /\ e.recovering[b] = <<>> /\ e.open[b] = open /\ open <= last
  /\ open # None => e.native[b] = book.levels
  /\ exchange = "kalshi" /\ book.snapshot => book.seq # None /\ (book.counted => e.bookSeq[b] = book.seq)
\* The engine up to subsequence k of a message; it has heard `done' in it.
EngineReads(g, e, owed, ladders, tr, k, done, top) ==
  /\ e.ended = {} /\ GivenOrHeld(e) = owed
  /\ \A b \in TapeBooks : /\ BookSeen(e, b, g.venue, ladders[b], tr.last[b], tr.open[b])
                          /\ Behind(e.progress[b], <<g.local, k, 0>>)
  /\ e.pending # <<>> => /\ e.pending[1][3] <= g.local
                         /\ e.pending[1][3] < g.local \/ e.pending[1][1] \in done
  /\ g.venue = "kalshi" => e.shardSeq <= top
\* The coordinator's check of the same rows.
ChecksRead(c, ladders) ==
  /\ DOMAIN c = {"books", "refused"} /\ DOMAIN c.books = TapeBooks
  /\ \A b \in TapeBooks : /\ ladders[b].baseline = ladders[b].snapshot
                          /\ ladders[b].baseline => c.books[b] = ladders[b].levels
  /\ \A row \in c.refused : BaselessDelta(row)
Told(g, e, c, owed, ladders, tr, k, done, top) ==
  /\ IsEngine(e) /\ e.owed = g.run.owed
  /\ e.error = <<>> => EngineReads(g, e, owed, ladders, tr, k, done, top)
  /\ e.error # <<>> => Blamed(e.error[1]) /\ g.venue = "kalshi"
  /\ ChecksRead(c, ladders)

\* An event of the tape, taken of a book.
EventOf(g, row, ladders, book, top, top2) ==
  /\ IsEvent(row) /\ row.book \in TapeBooks /\ row.venue = g.venue /\ row.seq = book.seq
  /\ row.after = book.levels /\ row.baseline = book.baseline /\ row.counted = book.counted
  /\ IsBook(book) /\ book.baseline = book.snapshot
  /\ row.kind = "checkpoint" => row.mutations = [l \in row.after |-> TRUE]
  /\ row.kind = "delta" => /\ book.snapshot = ladders[row.book].snapshot
                           /\ Applied(ladders[row.book].levels, row.mutations) = book.levels
  /\ Restates(row) => book = ladders[row.book] /\ book.snapshot
  /\ g.venue = "kalshi" =>
       row.seq # None /\ top <= top2 /\ (~Restates(row) => top < row.seq /\ row.seq <= top2)

\* What was behind a place is behind every later one.
LEMMA BehindRow ==
  ASSUME NEW l \in Nat, NEW k \in Nat, NEW j \in Nat, k <= j, NEW p \in Nat \X Nat \X Nat,
         Behind(p, <<l, k, 0>>), NEW row, row.at = <<l, j>>
  PROVE  /\ Behind(p, Progress(row)) /\ Behind(p, <<l, j + 1, 0>>) /\ Behind(p, <<l, j, 0>>)
         /\ Behind(Progress(row), <<l, j + 1, 0>>) /\ row.at \in Nat \X Nat
<1>1. PICK p1 \in Nat, p2 \in Nat, p3 \in Nat : p1 = p[1] /\ p2 = p[2] /\ p3 = p[3]
  OBVIOUS
<1>2. PICK q \in Nat : q = Priority(row)
  <2>1. Priority(row) \in Nat
    BY DEF Priority
  <2> QED  BY <2>1
<1>3. PICK r : r = Progress(row) /\ r = <<l, j, q>>
  <2>1. row.at[1] = l /\ row.at[2] = j
    OBVIOUS
  <2>2. Progress(row) = <<l, j, q>>
    BY <1>2, <2>1 DEF Progress
  <2> QED  BY <2>2
<1>4. r[1] = l /\ r[2] = j /\ r[3] = q
  BY <1>3
<1>5. p1 < l \/ (p1 = l /\ p2 < k) \/ (p1 = l /\ p2 = k /\ p3 < 0)
  BY <1>1 DEF Behind
<1>6. Behind(p, r) /\ Behind(p, <<l, j + 1, 0>>) /\ Behind(p, <<l, j, 0>>)
  BY <1>1, <1>4, <1>5 DEF Behind
<1>7. Behind(r, <<l, j + 1, 0>>)
  BY <1>4 DEF Behind
<1> QED  BY <1>3, <1>6, <1>7

Beyond(f, g, k) == \A b \in TapeBooks : Behind(f.progress[b], <<g.local, k, 0>>)

\* The row is one the engine can take, and the one after it will be.
LEMMA RowIsNext ==
  ASSUME NEW g, IsGround(g), NEW e, IsEngine(e), e.error = <<>>, NEW k \in Nat, Beyond(e, g, k),
         NEW row, row.book \in TapeBooks, row.book \notin e.ended, NEW j \in Nat, k <= j, row.at = <<g.local, j>>
  PROVE  /\ Due1(e, row)
         /\ \A f : Read(e, f, row) => Beyond(f, g, j + 1)
<1>1. PICK l \in Nat : l = g.local
  BY DEF IsGround
<1>2. ASSUME NEW b \in TapeBooks
      PROVE  /\ Behind(e.progress[b], Progress(row)) /\ Behind(e.progress[b], <<g.local, j + 1, 0>>)
             /\ Behind(Progress(row), <<g.local, j + 1, 0>>) /\ row.at \in Nat \X Nat
  <2>1. PICK p \in Nat \X Nat \X Nat : p = e.progress[b]
    BY DEF IsEngine
  <2>2. Behind(p, <<g.local, k, 0>>)
    BY <2>1 DEF Beyond
  <2>3. Behind(p, <<l, k, 0>>) /\ row.at = <<l, j>>
    BY <1>1, <2>2
  <2>4. /\ Behind(p, Progress(row)) /\ Behind(p, <<l, j + 1, 0>>)
        /\ Behind(Progress(row), <<l, j + 1, 0>>) /\ row.at \in Nat \X Nat
    BY ONLY <2>3, k \in Nat, j \in Nat, l \in Nat, k <= j, p \in Nat \X Nat \X Nat, BehindRow, ZenonT(30)
  <2> QED  BY <1>1, <2>1, <2>4
<1>3. Due1(e, row)
  BY <1>2 DEF Due1
<1>4. ASSUME NEW f, Read(e, f, row), NEW b \in TapeBooks
      PROVE  Behind(f.progress[b], <<g.local, j + 1, 0>>)
  <2>1. DOMAIN e.progress = TapeBooks
    BY DEF IsEngine
  <2>2. f.progress[b] = IF b = row.book THEN Progress(row) ELSE e.progress[b]
    BY <1>4, <2>1 DEF Read
  <2> QED  BY <1>2, <2>2
<1>5. ASSUME NEW f, Read(e, f, row) PROVE Beyond(f, g, j + 1)
  BY <1>4, <1>5 DEF Beyond
<1> QED  BY <1>3, <1>5

\* A row at the next place comes after all the engine has heard.
LEMMA RowIsDue ==
  ASSUME NEW g, IsGround(g), NEW e, IsEngine(e), e.error = <<>>, NEW owed, NEW ladders, NEW tr,
         NEW k \in Nat, NEW done, NEW top, EngineReads(g, e, owed, ladders, tr, k, done, top),
         NEW row, row.book \in TapeBooks, NEW j \in Nat, k <= j, row.at = <<g.local, j>>
  PROVE  /\ Due1(e, row)
         /\ \A f : Read(e, f, row) => Beyond(f, g, j + 1)
<1>1. Beyond(e, g, k) /\ row.book \notin e.ended
  BY DEF EngineReads, Beyond
<1> QED  BY <1>1, RowIsNext

\* An event keeps the venue's order, or it restates a number no row has.
LEMMA OrderedOrBlamed ==
  ASSUME NEW g, IsGround(g), NEW e, IsEngine(e), NEW owed, NEW ladders, NEW tr,
         NEW k, NEW done, NEW top \in Nat, NEW top2 \in Nat, EngineReads(g, e, owed, ladders, tr, k, done, top),
         NEW row, NEW book, EventOf(g, row, ladders, book, top, top2), ~Ordered(e, row)
  PROVE  Blamed(row) /\ g.venue = "kalshi"
<1>1. row.venue = "kalshi" /\ g.venue = "kalshi" /\ row.seq # None
  BY DEF Ordered, EventOf
<1>2. row.seq \in Nat /\ e.shardSeq \in Nat /\ e.shardSeq <= top
  BY <1>1 DEF EventOf, IsBook, IsEngine, EngineReads
<1>3. ~Restates(row) => row.seq > e.shardSeq
  BY <1>1, <1>2 DEF EventOf
<1>4. Restates(row) /\ row.seq # e.bookSeq[row.book]
  BY <1>1, <1>3 DEF Ordered
<1>5. book = ladders[row.book] /\ book.snapshot /\ row.seq = book.seq /\ row.counted = book.counted
      /\ row.book \in TapeBooks
  BY <1>4 DEF EventOf
<1>6. BookSeen(e, row.book, g.venue, ladders[row.book], tr.last[row.book], tr.open[row.book])
  BY <1>5 DEF EngineReads
<1>7. book.counted => e.bookSeq[row.book] = book.seq
  BY <1>1, <1>5, <1>6 DEF BookSeen
<1> QED  BY <1>1, <1>4, <1>5, <1>7 DEF Blamed, Restates

\* An engine that counted the event has its sequence.
LEMMA CountedIs ==
  ASSUME NEW g, IsGround(g), NEW e, IsEngine(e), NEW owed, NEW ladders, NEW tr,
         NEW k, NEW done, NEW top \in Nat, NEW top2 \in Nat, EngineReads(g, e, owed, ladders, tr, k, done, top),
         NEW row, NEW book, EventOf(g, row, ladders, book, top, top2), Ordered(e, row), NEW f, SequenceTaken(e, f, row)
  PROVE  /\ g.venue = "kalshi" => f.shardSeq <= top2 /\ f.bookSeq[row.book] = book.seq /\ book.seq # None
         /\ \A b \in TapeBooks : b # row.book => f.bookSeq[b] = e.bookSeq[b]
<1>1. e.shardSeq \in Nat /\ row.seq \in Nat /\ DOMAIN e.bookSeq = TapeBooks
  BY DEF IsEngine, EventOf, IsBook
<1>2. ASSUME g.venue = "kalshi"
      PROVE  f.shardSeq <= top2 /\ f.bookSeq[row.book] = book.seq /\ book.seq # None
  <2>1. row.venue = "kalshi" /\ row.seq = book.seq /\ row.seq # None /\ row.book \in TapeBooks /\ e.shardSeq <= top
        /\ top <= top2
    BY <1>2 DEF EventOf, EngineReads
  <2>2. CASE Restates(row)
    <3>1. f.shardSeq = e.shardSeq /\ f.bookSeq = e.bookSeq /\ row.seq = e.bookSeq[row.book]
      BY <2>1, <2>2 DEF SequenceTaken, Ordered
    <3> QED  BY <1>1, <2>1, <3>1
  <2>3. CASE ~Restates(row)
    <3>1. f.shardSeq = row.seq /\ f.bookSeq = [e.bookSeq EXCEPT ![row.book] = row.seq] /\ row.seq <= top2
      BY <1>2, <2>1, <2>3 DEF SequenceTaken, EventOf
    <3> QED  BY <1>1, <2>1, <3>1
  <2> QED  BY <2>2, <2>3
<1>3. \A b \in TapeBooks : b # row.book => f.bookSeq[b] = e.bookSeq[b]
  BY <1>1 DEF SequenceTaken
<1> QED  BY <1>2, <1>3

\* The coordinator accepts the event, or it is one of a book without a snapshot.
LEMMA ChecksRow ==
  ASSUME NEW g, NEW ladders, AreBooks(ladders), NEW c, ChecksRead(c, ladders), NEW top, NEW top2,
         NEW row, NEW book, EventOf(g, row, ladders, book, top, top2)
  PROVE  ChecksRead(Checked(c, row), [ladders EXCEPT ![row.book] = book])
<1> DEFINE b == row.book
<1>1. PICK a : a = Applied(Base(c, row), row.mutations)
  OBVIOUS
<1>2. PICK x : x = Checked(c, row)
  OBVIOUS
<1>3. DOMAIN x = {"books", "refused"} /\ x.books = [c.books EXCEPT ![b] = a]
      /\ x.refused = c.refused \cup (IF Base(c, row) = {"none"} \/ a # row.after THEN {row} ELSE {})
  BY <1>1, <1>2 DEF Checked, EventOf
<1>4. PICK m : m = [ladders EXCEPT ![b] = book]
  OBVIOUS
<1>5. b \in TapeBooks /\ m[b] = book /\ \A y \in TapeBooks : y # b => m[y] = ladders[y]
  BY <1>4 DEF EventOf, AreBooks
<1>6. DOMAIN x.books = TapeBooks /\ x.books[b] = a /\ \A y \in TapeBooks : y # b => x.books[y] = c.books[y]
  BY <1>3, <1>5 DEF ChecksRead
<1>7. ~BaselessDelta(row) => Base(c, row) # {"none"} /\ a = row.after
  <2> SUFFICES ASSUME ~BaselessDelta(row) PROVE Base(c, row) # {"none"} /\ a = row.after
    OBVIOUS
  <2>1. CASE row.kind = "checkpoint"
    <3>1. Base(c, row) = {} /\ row.mutations = [l \in row.after |-> TRUE]
      BY <2>1 DEF Base, EventOf
    <3>2. PICK t : t = row.mutations
      OBVIOUS
    <3>3. DOMAIN t = row.after /\ \A l \in row.after : t[l]
      BY <3>1, <3>2
    <3>4. ({} \ DOMAIN t) \cup {l \in DOMAIN t : t[l]} = row.after
      BY <3>3
    <3> QED  BY <1>1, <3>1, <3>2, <3>4 DEF Applied
  <2>2. CASE row.kind = "delta"
    <3>1. row.baseline /\ Base(c, row) = c.books[b] /\ row.baseline = book.baseline
      BY <2>2 DEF BaselessDelta, Base, EventOf
    <3>2. ladders[b].baseline
      BY <1>5, <2>2, <3>1 DEF EventOf, ChecksRead
    <3>3. c.books[b] = ladders[b].levels
      BY <1>5, <3>2 DEF ChecksRead
    <3>4. a = row.after
      BY <1>1, <2>2, <3>1, <3>3 DEF EventOf
    <3>5. ladders[b].levels # {"none"}
      <4>1. ladders[b].levels \subseteq Levels
        BY <1>5 DEF AreBooks, IsBook
      <4>2. "none" \notin Levels
        BY DEF Levels
      <4> QED  BY <4>1, <4>2
    <3> QED  BY <3>1, <3>3, <3>4, <3>5
  <2> QED  BY <2>1, <2>2 DEF EventOf, IsEvent
<1>8. book.baseline => a = book.levels
  BY <1>7 DEF EventOf, BaselessDelta
<1>9. ASSUME NEW y \in TapeBooks
      PROVE  m[y].baseline = m[y].snapshot /\ (m[y].baseline => x.books[y] = m[y].levels)
  BY <1>5, <1>6, <1>8 DEF ChecksRead, EventOf
<1>10. \A r \in x.refused : BaselessDelta(r)
  BY <1>3, <1>7 DEF ChecksRead
<1> QED  BY <1>2, <1>3, <1>4, <1>6, <1>9, <1>10 DEF ChecksRead

\* A row after which nothing of the books changes for the coordinator.
LEMMA ControlUnchecked ==
  ASSUME NEW row, ~IsEvent(row) PROVE \A c, owed : Checked(c, row) = c /\ OwedMore(owed, row) = owed
BY DEF Checked, OwedMore

\* Nothing is asked of an engine that stopped on a blamed row.
LEMMA StuckIsTold ==
  ASSUME NEW g, NEW e, NEW c, NEW owed, NEW ladders, NEW tr, NEW k, NEW done, NEW top,
         IsEngine(e), e.owed = g.run.owed, e.error # <<>>, Blamed(e.error[1]), g.venue = "kalshi", ChecksRead(c, ladders)
  PROVE  Told(g, e, c, owed, ladders, tr, k, done, top)
BY DEF Told

\* A book is closed by producer and engine alike.
LEMMA InvalidatedIsTold ==
  ASSUME NEW g, IsGround(g), NEW e, NEW c, NEW owed, NEW ladders, NEW tr, IsTracker(tr),
         NEW k \in Nat, NEW done, NEW top \in Nat, Told(g, e, c, owed, ladders, tr, k, done, top),
         NEW row, row.book \in TapeBooks, row.at = <<g.local, k>>, row.kind = "invalidated",
         row.reason # "reconnect", row.epoch = tr.open[row.book]
  PROVE  Told(g, Replayed(e, row), Checked(c, row), OwedMore(owed, row), ladders, Closed(tr, row.book), k + 1, done, top)
<1> DEFINE b == row.book
<1>1. Checked(c, row) = c /\ OwedMore(owed, row) = owed
  <2>1. ~IsEvent(row)
    BY DEF IsEvent
  <2> QED  BY <2>1, ControlUnchecked
<1>2. PICK f : f = Replayed(e, row)
  OBVIOUS
<1>3. CASE e.error # <<>>
  <2>1. f = e
    BY <1>2, <1>3, StuckStays
  <2> QED  BY <1>1, <1>2, <1>3, <2>1 DEF Told
<1>4. CASE e.error = <<>>
  <2>0. IsEngine(e) /\ EngineReads(g, e, owed, ladders, tr, k, done, top) /\ k <= k
    BY <1>4 DEF Told
  <2>1. Due1(e, row) /\ \A x : Read(e, x, row) => Beyond(x, g, k + 1)
    BY <1>4, <2>0, RowIsDue
  <2>2. BookSeen(e, b, g.venue, ladders[b], tr.last[b], tr.open[b])
    BY <2>0 DEF EngineReads
  <2>3. ControlRead(e, f, row) /\ Beyond(f, g, k + 1)
    <3>1. e.recovering[b] = <<>> /\ (row.epoch = None \/ row.epoch = e.open[b])
      BY <2>2 DEF BookSeen
    <3>2. row.kind \in {"invalidated", "ended"}
      OBVIOUS
    <3>3. ControlRead(e, f, row)
      BY <1>2, <2>1, <3>1, <3>2, ControlTaken
    <3> QED  BY <2>1, <3>3 DEF ControlRead
  <2>4. PICK t : t = Closed(tr, b)
    OBVIOUS
  <2>5. /\ t.last = tr.last /\ t.open[b] = None
        /\ \A x \in TapeBooks : x # b => t.open[x] = tr.open[x]
    <3>1. PICK o : o = [tr.open EXCEPT ![b] = None]
      OBVIOUS
    <3>2. t = [tr EXCEPT !.open = o]
      BY <2>4, <3>1 DEF Closed, IsTracker
    <3>3. t.last = tr.last /\ t.open = o
      BY <3>2 DEF IsTracker
    <3> QED  BY <3>1, <3>3 DEF IsTracker
  <2>6. /\ DOMAIN e.open = TapeBooks /\ tr.last[b] \in Nat
    BY <2>0 DEF IsEngine, IsTracker
  <2>7. ASSUME NEW x \in TapeBooks
        PROVE  BookSeen(f, x, g.venue, ladders[x], t.last[x], t.open[x])
    <3>1. BookSeen(e, x, g.venue, ladders[x], tr.last[x], tr.open[x])
      BY <2>0 DEF EngineReads
    <3>2. CASE x = b
      <4>1. f.open[x] = None /\ t.open[x] = None /\ t.open[x] <= t.last[x]
        BY <2>3, <2>5, <2>6, <3>2 DEF None, ControlRead
      <4> QED  BY <2>3, <3>1, <4>1 DEF BookSeen, ControlRead
    <3>3. CASE x # b
      <4>1. f.open[x] = e.open[x] /\ t.open[x] = tr.open[x] /\ t.last[x] = tr.last[x] /\ f.native[x] = e.native[x]
        BY <2>3, <2>5, <2>6, <3>3 DEF ControlRead
      <4> QED  BY <2>3, <3>1, <4>1 DEF BookSeen, ControlRead
    <3> QED  BY <3>2, <3>3
  <2>8. EngineReads(g, f, owed, ladders, t, k + 1, done, top)
    BY <2>0, <2>3, <2>7 DEF EngineReads, Beyond, ControlRead
  <2> QED  BY <1>1, <1>2, <1>4, <2>3, <2>4, <2>8 DEF Told, Read, ControlRead
<1> QED  BY <1>3, <1>4

\* The other books are as they were; the book of the event is seen.
Aside(e, f, tr, t, b) ==
  \A x \in TapeBooks : x # b =>
    /\ f.open[x] = e.open[x] /\ f.native[x] = e.native[x] /\ f.recovering[x] = e.recovering[x]
    /\ t.last[x] = tr.last[x] /\ t.open[x] = tr.open[x]
Caught(f, row, t) ==
  /\ f.recovering[row.book] = <<>> /\ f.open[row.book] = t.open[row.book]
  /\ t.open[row.book] <= t.last[row.book]
  /\ t.open[row.book] # None => f.native[row.book] = row.after

\* What an event leaves to the next row of another book.
LEMMA EventSeen ==
  ASSUME NEW g, IsGround(g), NEW e, IsEngine(e), NEW owed, NEW ladders, AreBooks(ladders), NEW tr, NEW t,
         NEW k \in Nat, NEW done, NEW top \in Nat, NEW top2 \in Nat, EngineReads(g, e, owed, ladders, tr, k, done, top),
         NEW row, NEW book, EventOf(g, row, ladders, book, top, top2), Ordered(e, row),
         NEW f, SequenceTaken(e, f, row),
         Aside(e, f, tr, t, row.book), Caught(f, row, t),
         NEW more, more = [ladders EXCEPT ![row.book] = book]
  PROVE  \A b \in TapeBooks : BookSeen(f, b, g.venue, more[b], t.last[b], t.open[b])
<1>1. row.book \in TapeBooks /\ row.after = book.levels /\ book.baseline = book.snapshot
  BY DEF EventOf
<1>2. /\ g.venue = "kalshi" => f.bookSeq[row.book] = book.seq /\ book.seq # None
      /\ \A b \in TapeBooks : b # row.book => f.bookSeq[b] = e.bookSeq[b]
  BY CountedIs
<1>3. more[row.book] = book /\ \A b \in TapeBooks : b # row.book => more[b] = ladders[b]
  BY <1>1 DEF AreBooks
<1>4. ASSUME NEW b \in TapeBooks
      PROVE  BookSeen(f, b, g.venue, more[b], t.last[b], t.open[b])
  <2>1. CASE b = row.book
    BY <1>1, <1>2, <1>3, <2>1 DEF BookSeen, Caught
  <2>2. CASE b # row.book
    <3>1. BookSeen(e, b, g.venue, ladders[b], tr.last[b], tr.open[b])
      BY DEF EngineReads
    <3>2. f.bookSeq[b] = e.bookSeq[b] /\ more[b] = ladders[b]
      BY <1>2, <1>3, <2>2
    <3> QED  BY <2>2, <3>1, <3>2 DEF BookSeen, Aside
  <2> QED  BY <2>1, <2>2
<1> QED  BY <1>4

\* An event of a book that is not whole is passed over by both.
LEMMA BadEventIsTold ==
  ASSUME NEW g, IsGround(g), NEW e, NEW c, NEW owed, NEW ladders, AreBooks(ladders), NEW tr, IsTracker(tr),
         NEW t, IsTracker(t), NEW k \in Nat, NEW j \in Nat, k <= j, NEW done, NEW top \in Nat, NEW top2 \in Nat,
         Told(g, e, c, owed, ladders, tr, k, done, top),
         NEW row, NEW book, EventOf(g, row, ladders, book, top, top2), row.at = <<g.local, j>>,
         ~row.good, row.kind = "delta" => row.epoch = None, tr.open[row.book] = None, t.open = tr.open,
         \A b \in TapeBooks : b # row.book => t.last[b] = tr.last[b]
  PROVE  Told(g, Replayed(e, row), Checked(c, row), OwedMore(owed, row), [ladders EXCEPT ![row.book] = book],
              t, j + 1, done, top2)
<1> DEFINE b == row.book
<1>0. b \in TapeBooks /\ IsEvent(row) /\ row.seq \in Nat
  BY DEF EventOf, IsBook
<1>1. OwedMore(owed, row) = owed
  BY DEF OwedMore
<1>2. PICK f : f = Replayed(e, row)
  OBVIOUS
<1>3. PICK more : more = [ladders EXCEPT ![row.book] = book]
  OBVIOUS
<1>4. ChecksRead(Checked(c, row), more)
  BY <1>3, ChecksRow DEF Told
<1>5. CASE e.error # <<>>
  <2>1. f = e
    BY <1>2, <1>5, StuckStays
  <2> QED  BY <1>1, <1>2, <1>3, <1>4, <1>5, <2>1 DEF Told
<1>6. CASE e.error = <<>>
  <2>0. IsEngine(e) /\ EngineReads(g, e, owed, ladders, tr, k, done, top)
    BY <1>6 DEF Told
  <2>1. Due1(e, row) /\ \A x : Read(e, x, row) => Beyond(x, g, j + 1)
    BY <1>0, <1>6, <2>0, RowIsDue
  <2>2. CASE ~Ordered(e, row)
    <3>1. Blamed(row) /\ g.venue = "kalshi"
      BY <2>0, <2>2, OrderedOrBlamed
    <3>2. IsEngine(f) /\ f.error = <<row>> /\ f.owed = e.owed
      BY <1>0, <1>2, <2>1, <2>2, DisorderStops
    <3>3. f.error # <<>> /\ f.error[1] = row
      BY <3>2
    <3>4. f.owed = g.run.owed
      BY <3>2 DEF Told
    <3> QED  BY <1>1, <1>2, <1>3, <1>4, <3>1, <3>2, <3>3, <3>4, StuckIsTold
  <2>3. CASE Ordered(e, row)
    <3>1. BookSeen(e, b, g.venue, ladders[b], tr.last[b], tr.open[b])
      BY <1>0, <2>0 DEF EngineReads
    <3>2. e.open[b] = None /\ e.recovering[b] = <<>>
      BY <3>1 DEF BookSeen
    <3>3. /\ Read(e, f, row) /\ Emptied(e, f, row) /\ SequenceTaken(e, f, row)
          /\ f.open = e.open /\ f.native = e.native /\ f.recovering = e.recovering /\ f.ended = e.ended
      BY <1>0, <1>2, <2>1, <2>3, <3>2, BadEventTaken
    <3>4. f.open[b] = t.open[b] /\ t.open[b] = None /\ t.open[b] <= t.last[b]
      BY <1>0, <3>2, <3>3 DEF IsTracker, None
    <3>5. \A x \in TapeBooks : BookSeen(f, x, g.venue, more[x], t.last[x], t.open[x])
      <4>1. Aside(e, f, tr, t, b) /\ Caught(f, row, t)
        BY <3>2, <3>3, <3>4 DEF Aside, Caught
      <4> QED  BY <1>3, <2>0, <2>3, <3>3, <4>1, EventSeen
    <3>6. g.venue = "kalshi" => f.shardSeq <= top2
      BY <2>0, <2>3, <3>3, CountedIs
    <3>7. Beyond(f, g, j + 1)
      BY <2>1, <3>3
    <3>8. EngineReads(g, f, owed, more, t, j + 1, done, top2)
      BY <2>0, <3>3, <3>5, <3>6, <3>7 DEF EngineReads, Beyond, Emptied
    <3> QED  BY <1>1, <1>2, <1>3, <1>4, <1>6, <3>3, <3>8 DEF Told, Read
  <2> QED  BY <2>2, <2>3
<1> QED  BY <1>5, <1>6

\* A good event of a message that has had none of the book.
LEMMA EventIsFresh ==
  ASSUME NEW g, IsGround(g), NEW e, IsEngine(e), NEW owed, NEW ladders, NEW tr, NEW k, NEW done, NEW top,
         EngineReads(g, e, owed, ladders, tr, k, done, top), NEW row, row.book \notin done, NEW j,
         row.at = <<g.local, j>>
  PROVE  Fresh(e, row)
<1> SUFFICES ASSUME e.pending # <<>>, e.pending[1] = Owner(row) PROVE FALSE
  BY DEF Fresh
<1>1. PICK o \in Owners : o = e.pending[1]
  BY DEF IsEngine
<1>2. o[1] = row.book /\ o[3] = g.local
  <2>1. o = <<row.book, row.epoch, row.at[1]>>
    BY <1>1 DEF Owner
  <2> QED  BY <2>1
<1>3. o[3] < g.local
  BY <1>1, <1>2 DEF EngineReads
<1>4. g.local \in Nat
  BY DEF IsGround
<1> QED  BY <1>2, <1>3, <1>4

\* A delta moves the producer's book and the engine's alike.
LEMMA DeltaIsTold ==
  ASSUME NEW g, IsGround(g), NEW e, NEW c, NEW owed, NEW ladders, AreBooks(ladders), NEW tr, IsTracker(tr),
         NEW k \in Nat, NEW j \in Nat, k <= j, NEW done, NEW top \in Nat, NEW top2 \in Nat,
         Told(g, e, c, owed, ladders, tr, k, done, top),
         NEW row, NEW book, EventOf(g, row, ladders, book, top, top2), row.at = <<g.local, j>>, row.kind = "delta",
         row.good, row.book \notin done, tr.open[row.book] # None, row.epoch = tr.open[row.book]
  PROVE  Told(g, Replayed(e, row), Checked(c, row), OwedMore(owed, row), [ladders EXCEPT ![row.book] = book],
              tr, j + 1, done \cup {row.book}, top2)
<1> DEFINE b == row.book
<1>0. b \in TapeBooks /\ IsEvent(row) /\ row.seq \in Nat /\ row.after \subseteq Levels /\ row.epoch \in Nat
  BY DEF EventOf, IsBook, IsTracker
<1>1. OwedMore(owed, row) = Append(owed, <<row.at, row.book, row.after>>)
  BY <1>0 DEF OwedMore
<1>2. PICK f : f = Replayed(e, row)
  OBVIOUS
<1>3. PICK more : more = [ladders EXCEPT ![row.book] = book]
  OBVIOUS
<1>4. ChecksRead(Checked(c, row), more)
  BY <1>3, ChecksRow DEF Told
<1>5. CASE e.error # <<>>
  <2>1. f = e
    BY <1>2, <1>5, StuckStays
  <2> QED  BY <1>1, <1>2, <1>3, <1>4, <1>5, <2>1 DEF Told
<1>6. CASE e.error = <<>>
  <2>0. IsEngine(e) /\ EngineReads(g, e, owed, ladders, tr, k, done, top)
    BY <1>6 DEF Told
  <2>1. Due1(e, row) /\ \A x : Read(e, x, row) => Beyond(x, g, j + 1)
    BY <1>0, <1>6, <2>0, RowIsDue
  <2>2. CASE ~Ordered(e, row)
    <3>1. Blamed(row) /\ g.venue = "kalshi"
      BY <2>0, <2>2, OrderedOrBlamed
    <3>2. IsEngine(f) /\ f.error = <<row>> /\ f.owed = e.owed
      BY <1>0, <1>2, <2>1, <2>2, DisorderStops
    <3>3. f.error # <<>> /\ f.error[1] = row
      BY <3>2
    <3>4. f.owed = g.run.owed
      BY <3>2 DEF Told
    <3> QED  BY <1>1, <1>2, <1>3, <1>4, <3>1, <3>2, <3>3, <3>4, StuckIsTold
  <2>3. CASE Ordered(e, row)
    <3>1. BookSeen(e, b, g.venue, ladders[b], tr.last[b], tr.open[b])
      BY <1>0, <2>0 DEF EngineReads
    <3>2. e.open[b] = row.epoch /\ e.recovering[b] = <<>> /\ e.native[b] = ladders[b].levels /\ row.epoch # None
          /\ tr.open[b] <= tr.last[b]
      BY <3>1 DEF BookSeen
    <3>3. Applied(e.native[b], row.mutations) = row.after
      BY <3>2 DEF EventOf
    <3>4. GoodEvent(row) /\ Fresh(e, row)
      BY <1>0, <2>0, EventIsFresh DEF GoodEvent
    <3>5. Tells(e, f, row) /\ f.open = e.open /\ f.recovering = e.recovering
      BY <1>2, <2>1, <2>3, <3>2, <3>3, <3>4, DeltaTaken
    <3>6. f.native[b] = row.after /\ \A x \in TapeBooks : x # b => f.native[x] = e.native[x]
      BY <1>0, <2>0, <3>5 DEF Tells, IsEngine
    <3>7. SequenceTaken(e, f, row) /\ f.open[b] = tr.open[b] /\ f.recovering[b] = <<>>
      BY <3>2, <3>5 DEF Tells
    <3>8. \A x \in TapeBooks : BookSeen(f, x, g.venue, more[x], tr.last[x], tr.open[x])
      <4>1. Aside(e, f, tr, tr, b) /\ Caught(f, row, tr)
        BY <3>2, <3>5, <3>6, <3>7 DEF Aside, Caught
      <4> QED  BY <1>3, <2>0, <2>3, <3>7, <4>1, EventSeen
    <3>9. g.venue = "kalshi" => f.shardSeq <= top2
      BY <2>0, <2>3, <3>7, CountedIs
    <3>10. Beyond(f, g, j + 1) /\ IsEngine(f) /\ f.error = <<>> /\ f.owed = e.owed /\ f.ended = e.ended
      BY <2>1, <3>5 DEF Tells, Read
    <3>11. f.pending[1][1] = b /\ f.pending[1][3] <= g.local
      <4>1. f.pending[1] = <<row.book, row.epoch, row.at[1]>> /\ row.at[1] = g.local /\ g.local \in Nat
        BY <3>5 DEF Tells, Owner, IsGround
      <4> QED  BY <4>1
    <3>12. GivenOrHeld(f) = Append(owed, <<row.at, row.book, row.after>>)
      BY <2>0, <3>5 DEF Tells, EngineReads
    <3>13. EngineReads(g, f, OwedMore(owed, row), more, tr, j + 1, done \cup {b}, top2)
      BY <1>1, <2>0, <3>8, <3>9, <3>10, <3>11, <3>12 DEF EngineReads, Beyond
    <3> QED  BY <1>1, <1>2, <1>3, <1>4, <1>6, <3>10, <3>13 DEF Told
  <2> QED  BY <2>2, <2>3
<1> QED  BY <1>5, <1>6

\* A tracker that differs in one book.
TrackerIs(tr, t, b, last, open) ==
  /\ IsTracker(t) /\ t.last[b] = last /\ t.open[b] = open
  /\ \A x \in TapeBooks : x # b => t.last[x] = tr.last[x] /\ t.open[x] = tr.open[x]

\* What issuing and opening an epoch does to the tracker.
LEMMA OpenedIs ==
  ASSUME NEW tr, IsTracker(tr), NEW b \in TapeBooks
  PROVE  /\ TrackerIs(tr, Opened(tr, b), b, tr.last[b] + 1, tr.last[b] + 1)
         /\ TrackerIs(tr, Issued(tr, b), b, tr.last[b] + 1, tr.open[b])
         /\ TrackerIs(tr, Closed(tr, b), b, tr.last[b], None)
         /\ Issued(tr, b).open = tr.open /\ Closed(tr, b).last = tr.last
<1>1. PICK n \in Nat : n = tr.last[b] + 1
  <2>1. tr.last[b] + 1 \in Nat
    BY DEF IsTracker
  <2> QED  BY <2>1
<1>2. PICK l, o, c : l = [tr.last EXCEPT ![b] = n] /\ o = [tr.open EXCEPT ![b] = n] /\ c = [tr.open EXCEPT ![b] = None]
  OBVIOUS
<1>3. l \in [TapeBooks -> Nat] /\ o \in [TapeBooks -> Nat] /\ c \in [TapeBooks -> Nat]
  BY <1>2 DEF IsTracker, None
<1>4. l[b] = n /\ o[b] = n /\ c[b] = None
      /\ \A x \in TapeBooks : x # b => l[x] = tr.last[x] /\ o[x] = tr.open[x] /\ c[x] = tr.open[x]
  BY <1>2 DEF IsTracker
<1>5. Issued(tr, b) = [tr EXCEPT !.last = l]
  BY <1>1, <1>2 DEF Issued, IsTracker
<1>6. PICK i : i = Issued(tr, b) /\ DOMAIN i = {"last", "open"} /\ i.last = l /\ i.open = tr.open
  <2>1. PICK i : i = Issued(tr, b)
    OBVIOUS
  <2>2. DOMAIN i = {"last", "open"} /\ i.last = l /\ i.open = tr.open
    BY <1>5, <2>1 DEF IsTracker
  <2> QED  BY <2>1, <2>2
<1>7. PICK p : p = Opened(tr, b) /\ DOMAIN p = {"last", "open"} /\ p.last = l /\ p.open = o
  <2>1. PICK p : p = Opened(tr, b)
    OBVIOUS
  <2>2. p = [last |-> l, open |-> o]
    BY <1>1, <1>2, <1>6, <2>1 DEF Opened
  <2> QED  BY <2>1, <2>2
<1>8. PICK d : d = Closed(tr, b) /\ DOMAIN d = {"last", "open"} /\ d.last = tr.last /\ d.open = c
  <2>1. PICK d : d = Closed(tr, b)
    OBVIOUS
  <2>2. d = [tr EXCEPT !.open = c]
    BY <1>2, <2>1 DEF Closed, IsTracker
  <2>3. DOMAIN d = {"last", "open"} /\ d.last = tr.last /\ d.open = c
    BY <2>2 DEF IsTracker
  <2> QED  BY <2>1, <2>3
<1>9. IsTracker(i) /\ IsTracker(p) /\ IsTracker(d)
  <2>1. i = [last |-> l, open |-> tr.open] /\ p = [last |-> l, open |-> o] /\ d = [last |-> tr.last, open |-> c]
    <3>1. i = [last |-> l, open |-> tr.open]
      BY <1>5, <1>6 DEF IsTracker
    <3>2. p = [last |-> l, open |-> o]
      BY <1>1, <1>2, <1>6, <1>7 DEF Opened
    <3>3. d = [last |-> tr.last, open |-> c]
      <4>1. d = [tr EXCEPT !.open = c]
        BY <1>2, <1>8 DEF Closed, IsTracker
      <4> QED  BY <4>1 DEF IsTracker
    <3> QED  BY <3>1, <3>2, <3>3
  <2>2. tr.open \in [TapeBooks -> Nat] /\ tr.last \in [TapeBooks -> Nat]
    BY DEF IsTracker
  <2> QED  BY <1>3, <2>1, <2>2 DEF IsTracker
<1> QED  BY <1>1, <1>4, <1>6, <1>7, <1>8, <1>9 DEF TrackerIs

\* A recovery and its checkpoint open the same epoch on both sides.
LEMMA CheckpointIsTold ==
  ASSUME NEW g, IsGround(g), NEW e, NEW c, NEW owed, NEW ladders, AreBooks(ladders), NEW tr, IsTracker(tr),
         NEW k \in Nat, NEW j \in Nat, k <= j, NEW done, NEW top \in Nat, NEW top2 \in Nat,
         Told(g, e, c, owed, ladders, tr, k, done, top),
         NEW row, NEW book, EventOf(g, row, ladders, book, top, top2), row.at = <<g.local, j>>,
         row.kind = "checkpoint", row.good, row.book \notin done, row.epoch = tr.last[row.book] + 1,
         NEW rec, rec.kind = "recovered", rec.book = row.book, rec.at = <<g.local, j + 1>>,
         rec.epoch = row.epoch, rec.evidence = row.at
  PROVE  Told(g, Replayed(Replayed(e, row), rec), Checked(Checked(c, row), rec), OwedMore(OwedMore(owed, row), rec),
              [ladders EXCEPT ![row.book] = book], Opened(tr, row.book), j + 2, done \cup {row.book}, top2)
<1> DEFINE b == row.book
<1>0. b \in TapeBooks /\ IsEvent(row) /\ row.seq \in Nat /\ row.after \subseteq Levels /\ row.epoch \in Nat
      /\ tr.last[b] \in Nat
  BY DEF EventOf, IsBook, IsTracker
<1>1. OwedMore(owed, row) = Append(owed, <<row.at, row.book, row.after>>)
  BY <1>0 DEF OwedMore
<1>2. PICK f : f = Replayed(e, row)
  OBVIOUS
<1>3. PICK more : more = [ladders EXCEPT ![row.book] = book]
  OBVIOUS
<1>4. ChecksRead(Checked(c, row), more)
  BY <1>3, ChecksRow DEF Told
<1>5. Checked(Checked(c, row), rec) = Checked(c, row) /\ OwedMore(OwedMore(owed, row), rec) = OwedMore(owed, row)
  <2>1. ~IsEvent(rec)
    BY DEF IsEvent
  <2> QED  BY <2>1, ControlUnchecked
<1>6. PICK h : h = Replayed(f, rec)
  OBVIOUS
<1>7. CASE e.error # <<>>
  <2>1. f = e
    BY <1>2, <1>7, StuckStays
  <2>2. h = e
    BY <1>6, <1>7, <2>1, StuckStays
  <2> QED  BY <1>2, <1>3, <1>4, <1>5, <1>6, <1>7, <2>1, <2>2 DEF Told
<1>8. CASE e.error = <<>>
  <2>0. IsEngine(e) /\ EngineReads(g, e, owed, ladders, tr, k, done, top)
    BY <1>8 DEF Told
  <2>1. Due1(e, row) /\ \A x : Read(e, x, row) => Beyond(x, g, j + 1)
    BY <1>0, <1>8, <2>0, RowIsDue
  <2>2. CASE ~Ordered(e, row)
    <3>1. Blamed(row) /\ g.venue = "kalshi"
      BY <2>0, <2>2, OrderedOrBlamed
    <3>2. IsEngine(f) /\ f.error = <<row>> /\ f.owed = e.owed
      BY <1>0, <1>2, <2>1, <2>2, DisorderStops
    <3>3. f.error # <<>> /\ f.error[1] = row
      BY <3>2
    <3>4. f.owed = g.run.owed
      BY <3>2 DEF Told
    <3>5. h = f
      BY <1>6, <3>3, StuckStays
    <3> QED  BY <1>2, <1>3, <1>4, <1>5, <1>6, <3>1, <3>2, <3>3, <3>4, <3>5, StuckIsTold
  <2>3. CASE Ordered(e, row)
    <3>1. BookSeen(e, b, g.venue, ladders[b], tr.last[b], tr.open[b])
      BY <1>0, <2>0 DEF EngineReads
    <3>2. e.recovering[b] = <<>> /\ e.open[b] # row.epoch
      BY <1>0, <3>1 DEF BookSeen, IsTracker
    <3>3. GoodEvent(row) /\ Fresh(e, row) /\ row.mutations = [l \in row.after |-> TRUE]
      BY <1>0, <2>0, EventIsFresh DEF GoodEvent, EventOf
    <3>4. Tells(e, f, row) /\ EpochOpens(e, f, row)
      BY <1>2, <2>1, <2>3, <3>2, <3>3, CheckpointTaken
    <3>5. Read(e, f, row) /\ SequenceTaken(e, f, row) /\ f.ended = {}
      BY <2>0, <3>4 DEF Tells, EngineReads
    <3>6. IsEngine(f) /\ f.error = <<>> /\ f.owed = e.owed /\ Beyond(f, g, j + 1)
      BY <2>1, <3>5 DEF Read
    <3>7. f.native[b] = row.after /\ \A x \in TapeBooks : x # b => f.native[x] = e.native[x]
      BY <1>0, <2>0, <3>4 DEF Tells, IsEngine
    <3>8. /\ f.open[b] = row.epoch /\ f.recovering[b] = row.at
          /\ \A x \in TapeBooks : x # b => f.open[x] = e.open[x] /\ f.recovering[x] = e.recovering[x]
      BY <1>0, <2>0, <3>4 DEF IsEngine, EpochOpens
    <3>9. row.at # <<>> /\ j + 1 \in Nat /\ j + 1 <= j + 1 /\ (j + 1) + 1 = j + 2
      OBVIOUS
    <3>10. Due1(f, rec) /\ \A x : Read(f, x, rec) => Beyond(x, g, j + 2)
      <4>1. rec.book \in TapeBooks /\ rec.book \notin f.ended
        BY <1>0, <3>5
      <4> QED  BY <3>6, <3>9, <4>1, RowIsNext
    <3>11. /\ Read(f, h, rec) /\ GivenOrHeld(h) = GivenOrHeld(f) /\ h.pending = <<>> /\ h.open = f.open /\ h.native = f.native
           /\ h.recovering = [f.recovering EXCEPT ![b] = <<>>]
           /\ h.ended = f.ended /\ h.bookSeq = f.bookSeq /\ h.shardSeq = f.shardSeq
      BY <1>6, <3>8, <3>9, <3>10, RecoveredTaken
    <3>12. h.recovering[b] = <<>> /\ \A x \in TapeBooks : x # b => h.recovering[x] = f.recovering[x]
      BY <1>0, <3>6, <3>11 DEF IsEngine
    <3>13. SequenceTaken(e, h, row)
      BY <3>5, <3>11 DEF SequenceTaken
    <3>14. PICK t : t = Opened(tr, b) /\ IsTracker(t) /\ t.last[b] = row.epoch /\ t.open[b] = row.epoch
              /\ \A x \in TapeBooks : x # b => t.last[x] = tr.last[x] /\ t.open[x] = tr.open[x]
      <4>1. TrackerIs(tr, Opened(tr, b), b, tr.last[b] + 1, tr.last[b] + 1)
        BY <1>0, OpenedIs
      <4> QED  BY <4>1 DEF TrackerIs
    <3>15. Aside(e, h, tr, t, b) /\ Caught(h, row, t)
      BY <1>0, <3>7, <3>8, <3>11, <3>12, <3>14 DEF Aside, Caught
    <3>16. \A x \in TapeBooks : BookSeen(h, x, g.venue, more[x], t.last[x], t.open[x])
      BY <1>3, <2>0, <2>3, <3>13, <3>15, EventSeen
    <3>17. g.venue = "kalshi" => h.shardSeq <= top2
      BY <2>0, <2>3, <3>13, CountedIs
    <3>18. GivenOrHeld(h) = OwedMore(owed, row)
      BY <1>1, <2>0, <3>4, <3>11 DEF Tells, EngineReads
    <3>19. Beyond(h, g, j + 2) /\ IsEngine(h) /\ h.error = <<>> /\ h.owed = e.owed
      BY <3>6, <3>10, <3>11 DEF Read
    <3>20. EngineReads(g, h, OwedMore(owed, row), more, t, j + 2, done \cup {b}, top2)
      BY <3>5, <3>11, <3>16, <3>17, <3>18, <3>19 DEF EngineReads, Beyond
    <3>21. h.owed = g.run.owed
      BY <3>19 DEF Told
    <3> QED  BY <1>2, <1>3, <1>4, <1>5, <1>6, <3>14, <3>19, <3>20, <3>21 DEF Told
  <2> QED  BY <2>2, <2>3
<1> QED  BY <1>7, <1>8

-----------------------------------------------------------------------------
(* What a row adds to a group.                                              *)

\* The rows up to subsequence k of a message.
GroupWritten(g, rows, k) ==
  /\ IsRows(rows) /\ InTape(rows)
  /\ \A n \in DOMAIN rows : Before(rows[n].at, <<g.local, k>>) /\ Evidenced(rows[n], rows)
\* What the engine and the coordinator make of them.
Unchecked(g) == [books |-> g.books, refused |-> {}]
Reads(g, rows, ladders, tr, k, done, top) ==
  /\ GroupWritten(g, rows, k)
  /\ Told(g, Replays(g.run, rows), Checks(Unchecked(g), rows), Due(g.run.owed, rows), ladders, tr, k, done, top)

\* The rows of a group with one more.
LEMMA AppendIs ==
  ASSUME NEW S, NEW rows \in Seq(S), NEW row
  PROVE  /\ Append(rows, row) \in Seq(S \cup {row}) /\ rows \in Seq(S \cup {row})
         /\ Len(Append(rows, row)) = Len(rows) + 1
         /\ DOMAIN Append(rows, row) = DOMAIN rows \cup {Len(rows) + 1} /\ Len(rows) + 1 \notin DOMAIN rows
         /\ Append(rows, row)[Len(rows) + 1] = row
         /\ \A n \in DOMAIN rows : Append(rows, row)[n] = rows[n] /\ n < Len(rows) + 1
<1>1. PICK T : T = S \cup {row}
  OBVIOUS
<1>2. Len(rows) \in Nat /\ DOMAIN rows = 1 .. Len(rows) /\ \A n \in 1 .. Len(rows) : rows[n] \in S
  BY LenProperties
<1>3. rows \in Seq(T)
  <2>1. rows \in [1 .. Len(rows) -> T]
    BY <1>1, <1>2
  <2> QED  BY <1>2, <2>1, SeqDef
<1>4. row \in T
  BY <1>1
<1>5. PICK t \in Seq(T) : t = Append(rows, row)
  <2>1. Append(rows, row) \in Seq(T)
    BY <1>3, <1>4
  <2> QED  BY <2>1
<1>6. Len(t) = Len(rows) + 1 /\ DOMAIN t = 1 .. Len(rows) + 1 /\ t[Len(rows) + 1] = row
  BY <1>2, <1>3, <1>4, <1>5
<1>7. \A n \in 1 .. Len(rows) : t[n] = rows[n]
  BY <1>3, <1>4, <1>5
<1>8. 1 .. Len(rows) + 1 = (1 .. Len(rows)) \cup {Len(rows) + 1} /\ Len(rows) + 1 \notin 1 .. Len(rows)
      /\ \A n \in 1 .. Len(rows) : n < Len(rows) + 1
  BY <1>2
<1> QED  BY <1>1, <1>2, <1>3, <1>5, <1>6, <1>7, <1>8

\* Every row is evidenced in the longer group if it was in the shorter.
LEMMA RowsGrow ==
  ASSUME NEW rows, IsRows(rows), NEW row, row.at \in Nat \X Nat
  PROVE  IsRows(Append(rows, row)) /\ Range(Append(rows, row)) = Range(rows) \cup {row}
<1>1. rows \in Seq(Range(rows)) /\ \A n \in DOMAIN rows : rows[n].at \in Nat \X Nat
  BY DEF IsRows
<1>2. PICK t, l : t = Append(rows, row) /\ l = Len(rows) + 1
  OBVIOUS
<1>3. t \in Seq(Range(rows) \cup {row})
  BY <1>1, <1>2, AppendIs
<1>4. DOMAIN t = DOMAIN rows \cup {l} /\ l \notin DOMAIN rows /\ t[l] = row
  BY <1>1, <1>2, AppendIs
<1>5. \A n \in DOMAIN rows : t[n] = rows[n]
  BY <1>1, <1>2, AppendIs
<1>6. Range(t) = Range(rows) \cup {row}
  BY <1>4, <1>5 DEF Range
<1>7. \A n \in DOMAIN t : t[n].at \in Nat \X Nat
  BY <1>1, <1>4, <1>5
<1> QED  BY <1>2, <1>3, <1>6, <1>7 DEF IsRows

\* Rows before a place are before each later one.
LEMMA BeforeLater ==
  ASSUME NEW a \in Nat \X Nat, NEW l \in Nat, NEW k \in Nat, NEW j \in Nat, k <= j, Before(a, <<l, k>>)
  PROVE  Before(a, <<l, j>>)
<1>1. a[1] \in Nat /\ a[2] \in Nat
  OBVIOUS
<1>2. a[1] < l \/ (a[1] = l /\ a[2] < k)
  BY DEF Before
<1>3. a[1] < l \/ (a[1] = l /\ a[2] < j)
  BY <1>1, <1>2
<1> QED  BY <1>3 DEF Before

\* A row with evidence, at the next place, extends what is written.
LEMMA RowWritten ==
  ASSUME NEW g, IsGround(g), NEW rows, NEW k \in Nat, GroupWritten(g, rows, k), NEW j \in Nat, k <= j,
         NEW row, row.at = <<g.local, j>>, Evidenced(row, Append(rows, row))
  PROVE  GroupWritten(g, Append(rows, row), j + 1)
<1>0. PICK l \in Nat : l = g.local
  BY DEF IsGround
<1>1. IsRows(rows) /\ rows \in Seq(Range(rows)) /\ row.at \in Nat \X Nat
  BY <1>0 DEF GroupWritten, IsRows
<1>2. PICK t, m : t = Append(rows, row) /\ m = Len(rows) + 1
  OBVIOUS
<1>3. DOMAIN t = DOMAIN rows \cup {m} /\ m \notin DOMAIN rows /\ t[m] = row
  BY <1>1, <1>2, AppendIs
<1>4. \A n \in DOMAIN rows : t[n] = rows[n] /\ n < m
  BY <1>1, <1>2, AppendIs
<1>5. IsRows(t) /\ Range(rows) \subseteq Range(t)
  BY <1>1, <1>2, RowsGrow
<1>6. ASSUME NEW n \in DOMAIN rows
      PROVE  Before(rows[n].at, row.at) /\ Before(rows[n].at, <<l, j + 1>>)
  <2>1. PICK a \in Nat \X Nat : a = rows[n].at
    BY <1>1 DEF IsRows
  <2>2. Before(a, <<l, k>>)
    BY <1>0, <2>1 DEF GroupWritten
  <2>3. Before(a, <<l, j>>)
    BY <2>2, BeforeLater
  <2>4. j + 1 \in Nat /\ j <= j + 1
    OBVIOUS
  <2>5. Before(a, <<l, j + 1>>)
    BY <2>3, <2>4, BeforeLater
  <2> QED  BY <1>0, <2>1, <2>3, <2>5
<1>7. InTape(t)
  <2> SUFFICES ASSUME NEW x \in DOMAIN t, NEW y \in DOMAIN t, x < y PROVE Before(t[x].at, t[y].at)
    BY DEF InTape
  <2>1. DOMAIN rows \subseteq Nat /\ m \in Nat
    BY <1>1, <1>2, LenProperties
  <2>2. x \in DOMAIN rows
    BY <1>3, <1>4, <2>1
  <2>3. CASE y = m
    BY <1>3, <1>4, <1>6, <2>2, <2>3
  <2>4. CASE y \in DOMAIN rows
    BY <1>4, <2>2, <2>4 DEF GroupWritten, InTape
  <2> QED  BY <1>3, <2>3, <2>4
<1>8. Before(row.at, <<l, j + 1>>)
  BY <1>0 DEF Before
<1>9. ASSUME NEW n \in DOMAIN t PROVE Before(t[n].at, <<l, j + 1>>) /\ Evidenced(t[n], t)
  <2>1. CASE n = m
    BY <1>2, <1>3, <1>8, <2>1
  <2>2. CASE n \in DOMAIN rows
    <3>1. Evidenced(rows[n], rows)
      BY <2>2 DEF GroupWritten
    <3>2. Evidenced(rows[n], t)
      BY <1>5, <3>1 DEF Evidenced
    <3> QED  BY <1>4, <1>6, <2>2, <3>2
  <2> QED  BY <1>3, <2>1, <2>2
<1> QED  BY <1>0, <1>2, <1>5, <1>7, <1>9 DEF GroupWritten

\* It is the next step of all three folds.
LEMMA RowFolds ==
  ASSUME NEW rows, IsRows(rows), NEW row, NEW engine0, NEW check, NEW owed
  PROVE  /\ Replays(engine0, Append(rows, row)) = Replayed(Replays(engine0, rows), row)
         /\ Checks(check, Append(rows, row)) = Checked(Checks(check, rows), row)
         /\ Due(owed, Append(rows, row)) = OwedMore(Due(owed, rows), row)
<1>1. PICK S : rows \in Seq(S) /\ row \in S
  <2>1. rows \in Seq(Range(rows) \cup {row})
    BY AppendIs DEF IsRows
  <2> QED  BY <2>1
<1>2. Replays(engine0, Append(rows, row)) = Replayed(Replays(engine0, rows), row)
  BY <1>1, ReplayStep
<1>3. Checks(check, Append(rows, row)) = Checked(Checks(check, rows), row)
  BY <1>1, CheckStep
<1>4. Due(owed, Append(rows, row)) = OwedMore(Due(owed, rows), row)
  BY <1>1, DueStep
<1> QED  BY <1>2, <1>3, <1>4

\* What is read up to a place is read up to a later one.
LEMMA ReadsLater ==
  ASSUME NEW g, IsGround(g), NEW rows, NEW ladders, NEW tr, NEW k \in Nat, NEW j \in Nat, k <= j,
         NEW done, NEW more, done \subseteq more, NEW top \in Nat, NEW top2 \in Nat,
         g.venue = "kalshi" => top <= top2, Reads(g, rows, ladders, tr, k, done, top)
  PROVE  Reads(g, rows, ladders, tr, j, more, top2)
<1>0. PICK l \in Nat : l = g.local
  BY DEF IsGround
<1>1. GroupWritten(g, rows, j)
  <2>1. ASSUME NEW n \in DOMAIN rows PROVE Before(rows[n].at, <<g.local, j>>)
    <3>1. PICK a \in Nat \X Nat : a = rows[n].at
      BY DEF Reads, GroupWritten, IsRows
    <3>2. Before(a, <<l, k>>)
      BY <1>0, <3>1 DEF Reads, GroupWritten
    <3>3. Before(a, <<l, j>>)
      BY <3>2, BeforeLater
    <3> QED  BY <1>0, <3>1, <3>3
  <2> QED  BY <2>1 DEF Reads, GroupWritten
<1>2. PICK e, c, d : e = Replays(g.run, rows) /\ c = Checks(Unchecked(g), rows) /\ d = Due(g.run.owed, rows)
  OBVIOUS
<1>3. Told(g, e, c, d, ladders, tr, k, done, top)
  BY <1>2 DEF Reads
<1>4. ASSUME e.error = <<>> PROVE EngineReads(g, e, d, ladders, tr, j, more, top2)
  <2>1. EngineReads(g, e, d, ladders, tr, k, done, top) /\ IsEngine(e)
    BY <1>3, <1>4 DEF Told
  <2>2. ASSUME NEW b \in TapeBooks PROVE Behind(e.progress[b], <<g.local, j, 0>>)
    <3>1. PICK p \in Nat \X Nat \X Nat : p = e.progress[b]
      BY <2>1 DEF IsEngine
    <3>2. PICK p1 \in Nat, p2 \in Nat, p3 \in Nat : p1 = p[1] /\ p2 = p[2] /\ p3 = p[3]
      BY <3>1
    <3>3. Behind(p, <<l, k, 0>>)
      BY <1>0, <2>1, <3>1 DEF EngineReads
    <3>4. p1 < l \/ (p1 = l /\ p2 < k) \/ (p1 = l /\ p2 = k /\ p3 < 0)
      BY <3>2, <3>3 DEF Behind
    <3>5. Behind(p, <<l, j, 0>>)
      BY <3>2, <3>4 DEF Behind
    <3> QED  BY <1>0, <3>1, <3>5
  <2>3. g.venue = "kalshi" => e.shardSeq <= top2
    BY <2>1 DEF EngineReads, IsEngine
  <2> QED  BY <2>1, <2>2, <2>3 DEF EngineReads
<1>5. Told(g, e, c, d, ladders, tr, j, more, top2)
  BY <1>3, <1>4 DEF Told
<1> QED  BY <1>1, <1>2, <1>5 DEF Reads

\* A row that ends the epoch of a book, and the events, as the group has them.
LEMMA InvalidatedReads ==
  ASSUME NEW g, IsGround(g), NEW rows, NEW ladders, NEW tr, IsTracker(tr),
         NEW k \in Nat, NEW done, NEW top \in Nat, Reads(g, rows, ladders, tr, k, done, top),
         NEW row, row.book \in TapeBooks, row.at = <<g.local, k>>, row.kind = "invalidated",
         row.reason # "reconnect", row.epoch = tr.open[row.book]
  PROVE  Reads(g, Append(rows, row), ladders, Closed(tr, row.book), k + 1, done, top)
<1>1. Evidenced(row, Append(rows, row))
  BY DEF Evidenced
<1>2. GroupWritten(g, rows, k) /\ IsRows(rows) /\ k <= k
  BY DEF Reads, GroupWritten
<1>3. GroupWritten(g, Append(rows, row), k + 1)
  BY <1>1, <1>2, RowWritten
<1>4. PICK e, c, d : e = Replays(g.run, rows) /\ c = Checks(Unchecked(g), rows) /\ d = Due(g.run.owed, rows)
  OBVIOUS
<1>5. Told(g, e, c, d, ladders, tr, k, done, top)
  BY <1>4 DEF Reads
<1>6. Told(g, Replayed(e, row), Checked(c, row), OwedMore(d, row), ladders, Closed(tr, row.book), k + 1, done, top)
  BY <1>5, InvalidatedIsTold
<1>7. /\ Replays(g.run, Append(rows, row)) = Replayed(e, row)
      /\ Checks(Unchecked(g), Append(rows, row)) = Checked(c, row)
      /\ Due(g.run.owed, Append(rows, row)) = OwedMore(d, row)
  BY <1>2, <1>4, RowFolds
<1> QED  BY <1>3, <1>6, <1>7 DEF Reads

NoneOpen(row, tr, t) ==
  /\ ~row.good /\ tr.open[row.book] = None /\ t.open = tr.open
  /\ row.kind = "delta" => row.epoch = None
  /\ \A b \in TapeBooks : b # row.book => t.last[b] = tr.last[b]

\* The same for an event of a book that is not whole.
LEMMA BadEventReads ==
  ASSUME NEW g, IsGround(g), NEW rows, NEW ladders, AreBooks(ladders), NEW tr, IsTracker(tr),
         NEW t, IsTracker(t), NEW k \in Nat, NEW j \in Nat, k <= j, NEW done, NEW top \in Nat, NEW top2 \in Nat,
         Reads(g, rows, ladders, tr, k, done, top),
         NEW row, NEW book, EventOf(g, row, ladders, book, top, top2), row.at = <<g.local, j>>,
         NoneOpen(row, tr, t), NEW more, more = [ladders EXCEPT ![row.book] = book]
  PROVE  Reads(g, Append(rows, row), more, t, j + 1, done, top2)
<1>1. Evidenced(row, Append(rows, row))
  BY DEF Evidenced, EventOf, IsEvent
<1>2. GroupWritten(g, rows, k) /\ IsRows(rows)
  BY DEF Reads, GroupWritten
<1>3. GroupWritten(g, Append(rows, row), j + 1)
  BY <1>1, <1>2, RowWritten
<1>4. PICK e, c, d : e = Replays(g.run, rows) /\ c = Checks(Unchecked(g), rows) /\ d = Due(g.run.owed, rows)
  OBVIOUS
<1>5. Told(g, e, c, d, ladders, tr, k, done, top)
  BY <1>4 DEF Reads
<1>6. Told(g, Replayed(e, row), Checked(c, row), OwedMore(d, row), [ladders EXCEPT ![row.book] = book],
           t, j + 1, done, top2)
  BY <1>5, BadEventIsTold DEF NoneOpen
<1>7. /\ Replays(g.run, Append(rows, row)) = Replayed(e, row)
      /\ Checks(Unchecked(g), Append(rows, row)) = Checked(c, row)
      /\ Due(g.run.owed, Append(rows, row)) = OwedMore(d, row)
  BY <1>2, <1>4, RowFolds
<1> QED  BY <1>3, <1>6, <1>7 DEF Reads

\* The same for a delta.
LEMMA DeltaReads ==
  ASSUME NEW g, IsGround(g), NEW rows, NEW ladders, AreBooks(ladders), NEW tr, IsTracker(tr),
         NEW k \in Nat, NEW j \in Nat, k <= j, NEW done, NEW top \in Nat, NEW top2 \in Nat,
         Reads(g, rows, ladders, tr, k, done, top),
         NEW row, NEW book, EventOf(g, row, ladders, book, top, top2), row.at = <<g.local, j>>, row.kind = "delta",
         row.good, row.book \notin done, tr.open[row.book] # None, row.epoch = tr.open[row.book],
         NEW more, more = [ladders EXCEPT ![row.book] = book]
  PROVE  Reads(g, Append(rows, row), more, tr, j + 1, done \cup {row.book}, top2)
<1>1. Evidenced(row, Append(rows, row))
  BY DEF Evidenced
<1>2. GroupWritten(g, rows, k) /\ IsRows(rows)
  BY DEF Reads, GroupWritten
<1>3. GroupWritten(g, Append(rows, row), j + 1)
  BY <1>1, <1>2, RowWritten
<1>4. PICK e, c, d : e = Replays(g.run, rows) /\ c = Checks(Unchecked(g), rows) /\ d = Due(g.run.owed, rows)
  OBVIOUS
<1>5. Told(g, e, c, d, ladders, tr, k, done, top)
  BY <1>4 DEF Reads
<1>6. Told(g, Replayed(e, row), Checked(c, row), OwedMore(d, row), [ladders EXCEPT ![row.book] = book],
           tr, j + 1, done \cup {row.book}, top2)
  BY <1>5, DeltaIsTold
<1>7. /\ Replays(g.run, Append(rows, row)) = Replayed(e, row)
      /\ Checks(Unchecked(g), Append(rows, row)) = Checked(c, row)
      /\ Due(g.run.owed, Append(rows, row)) = OwedMore(d, row)
  BY <1>2, <1>4, RowFolds
<1> QED  BY <1>3, <1>6, <1>7 DEF Reads

\* The same for a recovery with its checkpoint.
LEMMA CheckpointReads ==
  ASSUME NEW g, IsGround(g), NEW rows, NEW ladders, AreBooks(ladders), NEW tr, IsTracker(tr),
         NEW k \in Nat, NEW j \in Nat, k <= j, NEW done, NEW top \in Nat, NEW top2 \in Nat,
         Reads(g, rows, ladders, tr, k, done, top),
         NEW row, NEW book, EventOf(g, row, ladders, book, top, top2), row.at = <<g.local, j>>,
         row.kind = "checkpoint", row.good, row.book \notin done, row.epoch = tr.last[row.book] + 1,
         NEW rec, rec.kind = "recovered", rec.book = row.book, rec.at = <<g.local, j + 1>>,
         rec.epoch = row.epoch, rec.evidence = row.at
  PROVE  Reads(g, Append(Append(rows, row), rec), [ladders EXCEPT ![row.book] = book], Opened(tr, row.book), j + 2,
               done \cup {row.book}, top2)
<1>0. PICK l \in Nat : l = g.local
  BY DEF IsGround
<1>1. Evidenced(row, Append(rows, row))
  BY DEF Evidenced
<1>2. GroupWritten(g, rows, k) /\ IsRows(rows) /\ row.at \in Nat \X Nat /\ rec.at \in Nat \X Nat
  BY <1>0 DEF Reads, GroupWritten
<1>3. PICK some : some = Append(rows, row)
  OBVIOUS
<1>4. GroupWritten(g, some, j + 1)
  BY <1>1, <1>2, <1>3, RowWritten
<1>5. IsRows(some) /\ row \in Range(some)
  BY <1>2, <1>3, RowsGrow
<1>6. row \in Range(Append(some, rec))
  BY <1>2, <1>5, RowsGrow
<1>7. Evidenced(rec, Append(some, rec))
  <2>1. rec.at = <<row.at[1], row.at[2] + 1>>
    OBVIOUS
  <2> QED  BY <1>6, <2>1 DEF Evidenced
<1>8. GroupWritten(g, Append(some, rec), j + 2)
  <2>1. j + 1 \in Nat /\ j + 1 <= j + 1 /\ (j + 1) + 1 = j + 2
    OBVIOUS
  <2>2. GroupWritten(g, Append(some, rec), (j + 1) + 1)
    BY <1>4, <1>7, <2>1, RowWritten
  <2> QED  BY <2>1, <2>2
<1>9. PICK e, c, d : e = Replays(g.run, rows) /\ c = Checks(Unchecked(g), rows) /\ d = Due(g.run.owed, rows)
  OBVIOUS
<1>10. Told(g, e, c, d, ladders, tr, k, done, top)
  BY <1>9 DEF Reads
<1>11. Told(g, Replayed(Replayed(e, row), rec), Checked(Checked(c, row), rec), OwedMore(OwedMore(d, row), rec),
            [ladders EXCEPT ![row.book] = book], Opened(tr, row.book), j + 2, done \cup {row.book}, top2)
  BY <1>10, CheckpointIsTold
<1>12. /\ Replays(g.run, some) = Replayed(e, row)
       /\ Checks(Unchecked(g), some) = Checked(c, row)
       /\ Due(g.run.owed, some) = OwedMore(d, row)
  BY <1>2, <1>3, <1>9, RowFolds
<1>13. /\ Replays(g.run, Append(some, rec)) = Replayed(Replayed(e, row), rec)
       /\ Checks(Unchecked(g), Append(some, rec)) = Checked(Checked(c, row), rec)
       /\ Due(g.run.owed, Append(some, rec)) = OwedMore(OwedMore(d, row), rec)
  BY <1>5, <1>12, RowFolds
<1> QED  BY <1>3, <1>8, <1>11, <1>13 DEF Reads

\* Rows put together in the ways the producers do.
LEMMA RowsJoin ==
  ASSUME NEW rows, IsRows(rows), NEW x, NEW y
  PROVE  /\ rows \o <<>> = rows /\ rows \o <<x>> = Append(rows, x)
         /\ rows \o <<x, y>> = Append(Append(rows, x), y)
         /\ <<>> \o <<x>> \o <<>> = <<x>> /\ <<x>> \o <<y>> \o <<>> = <<x, y>>
         /\ <<>> \o <<x>> \o <<y>> = <<x, y>> /\ Append(<<x>>, y) = <<x, y>> /\ Append(<<>>, x) = <<x>>
         /\ <<>> \in Seq({x, y}) /\ <<x>> \in Seq({x, y}) /\ <<x, y>> \in Seq({x, y})
<1>1. PICK S : S = Range(rows) \cup {x, y}
  OBVIOUS
<1>2. rows \in Seq(S) /\ x \in S /\ y \in S /\ <<x>> \in Seq(S) /\ <<y>> \in Seq(S) /\ <<>> \in Seq(S)
  <2>1. rows \in Seq(Range(rows))
    BY DEF IsRows
  <2>2. Len(rows) \in Nat /\ \A n \in 1 .. Len(rows) : rows[n] \in S
    BY <1>1, <2>1, LenProperties
  <2>3. rows \in [1 .. Len(rows) -> S]
    BY <2>1, <2>2, LenProperties
  <2>4. rows \in Seq(S)
    BY <2>2, <2>3, SeqDef
  <2> QED  BY <1>1, <2>4
<1>3. <<>> \in Seq({x, y}) /\ <<x>> \in Seq({x, y}) /\ <<x, y>> \in Seq({x, y})
  OBVIOUS
<1>4. Append(<<x>>, y) = <<x, y>> /\ Append(<<>>, x) = <<x>>
  <2>0. <<x>> \in Seq({x, y}) /\ Len(<<x>>) = 1 /\ <<x>>[1] = x
    BY <1>3
  <2>1. PICK t : t = <<x>> /\ t \in Seq({x, y}) /\ Len(t) = 1 /\ t[1] = x
    BY <2>0
  <2>2. PICK u : u = Append(t, y)
    OBVIOUS
  <2>3. u \in Seq({x, y}) /\ Len(u) = 2 /\ u[1] = x /\ u[2] = y
    BY <2>1, <2>2
  <2>4. u = <<x, y>>
    BY <2>3
  <2>5. Append(<<>>, x) = <<x>>
    OBVIOUS
  <2> QED  BY <2>1, <2>2, <2>4, <2>5
<1>5. <<x>> \o <<y>> = <<x, y>>
  <2>1. <<x>> \o <<y>> = Append(<<x>>, y)
    BY <1>2, AppendIsConcat
  <2> QED  BY <1>4, <2>1
<1>6. rows \o <<>> = rows /\ <<>> \o <<x>> = <<x>> /\ <<x>> \o <<>> = <<x>>
  BY <1>2, ConcatEmptySeq
<1>7. <<x, y>> \o <<>> = <<x, y>>
  BY <1>3, ConcatEmptySeq
<1>8. rows \o <<x>> = Append(rows, x)
  BY <1>2, AppendIsConcat
<1>9. rows \o <<x, y>> = Append(Append(rows, x), y)
  <2>1. (rows \o <<x>>) \o <<y>> = rows \o (<<x>> \o <<y>>)
    BY <1>2, ConcatAssociative
  <2>2. PICK t \in Seq(S) : t = Append(rows, x)
    <3>1. Append(rows, x) \in Seq(S)
      BY <1>2
    <3> QED  BY <3>1
  <2>3. t \o <<y>> = Append(t, y)
    BY <1>2, AppendIsConcat
  <2> QED  BY <1>5, <1>8, <2>1, <2>2, <2>3
<1> QED  BY <1>3, <1>4, <1>5, <1>6, <1>7, <1>8, <1>9

\* A message whose book leaves no row.
LEMMA UnwrittenReads ==
  ASSUME NEW g, IsGround(g), NEW rows, NEW ladders, AreBooks(ladders), NEW tr, IsTracker(tr),
         NEW k \in Nat, NEW done, NEW top \in Nat, NEW top2 \in Nat, g.venue = "kalshi" => top <= top2,
         Reads(g, rows, ladders, tr, k, done, top), NEW b \in TapeBooks, NEW book,
         book.snapshot = ladders[b].snapshot, book.baseline = book.snapshot,
         book.levels = ladders[b].levels \/ (tr.last[b] = None /\ ~book.snapshot),
         book.snapshot /\ g.venue = "kalshi" => book.seq # None /\ ~book.counted
  PROVE  Reads(g, rows, [ladders EXCEPT ![b] = book], tr, k, done, top2)
<1>1. PICK e, c, d : e = Replays(g.run, rows) /\ c = Checks(Unchecked(g), rows) /\ d = Due(g.run.owed, rows)
  OBVIOUS
<1>2. Told(g, e, c, d, ladders, tr, k, done, top)
  BY <1>1 DEF Reads
<1>3. PICK more : more = [ladders EXCEPT ![b] = book]
  OBVIOUS
<1>4. more[b] = book /\ \A x \in TapeBooks : x # b => more[x] = ladders[x]
  BY <1>3 DEF AreBooks
<1>5. ChecksRead(c, more)
  <2>1. ChecksRead(c, ladders)
    BY <1>2 DEF Told
  <2>2. ASSUME NEW x \in TapeBooks
        PROVE  more[x].baseline = more[x].snapshot /\ (more[x].baseline => c.books[x] = more[x].levels)
    BY <1>4, <2>1 DEF ChecksRead
  <2> QED  BY <2>1, <2>2 DEF ChecksRead
<1>6. ASSUME e.error = <<>> PROVE EngineReads(g, e, d, more, tr, k, done, top2)
  <2>1. EngineReads(g, e, d, ladders, tr, k, done, top) /\ IsEngine(e)
    BY <1>2, <1>6 DEF Told
  <2>2. ASSUME NEW x \in TapeBooks PROVE BookSeen(e, x, g.venue, more[x], tr.last[x], tr.open[x])
    <3>1. BookSeen(e, x, g.venue, ladders[x], tr.last[x], tr.open[x])
      BY <2>1 DEF EngineReads
    <3>2. CASE x = b
      <4>1. tr.last[b] = None => tr.open[b] = None
        BY <3>1, <3>2 DEF BookSeen, IsTracker, None
      <4> QED  BY <1>4, <3>1, <3>2, <4>1 DEF BookSeen
    <3> QED  BY <1>4, <3>1, <3>2
  <2>3. g.venue = "kalshi" => e.shardSeq <= top2
    BY <2>1 DEF EngineReads, IsEngine
  <2> QED  BY <2>1, <2>2, <2>3 DEF EngineReads
<1>7. Told(g, e, c, d, more, tr, k, done, top2)
  BY <1>2, <1>5, <1>6 DEF Told
<1> QED  BY <1>1, <1>3, <1>7 DEF Reads

-----------------------------------------------------------------------------
(* The rows of a book, and of a message.                                    *)

\* What the producers give for a book, put after the rows of the group.
Staging(g, rows, x, ladders, done, top) ==
  /\ DOMAIN x = {"tracker", "cursor", "rows"}
  /\ IsTracker(x.tracker) /\ x.cursor \in Nat /\ \E S : x.rows \in Seq(S)
  /\ Reads(g, rows \o x.rows, ladders, x.tracker, x.cursor, done, top)
OfFeed(g) == IsGround(g) /\ g.venue = feed.venue /\ g.local = Local

\* The fields of an event.
LEMMA EventIs ==
  ASSUME NEW kind, NEW b, NEW j, NEW state, NEW tr, NEW m, NEW good, NEW reason,
         NEW row, row = Event(kind, b, j, state, tr, m, good, reason)
  PROVE  /\ row.kind = kind /\ row.venue = feed.venue /\ row.book = b /\ row.at = <<Local, j>>
         /\ row.reason = reason /\ row.epoch = (IF kind = "delta" THEN tr.open[b] ELSE tr.last[b])
         /\ row.good = good /\ row.mutations = m /\ row.after = state[b].levels
         /\ row.seq = state[b].seq /\ row.baseline = state[b].baseline /\ row.counted = state[b].counted
BY DEF Event

\* The fields of a control.
LEMMA ControlIs ==
  ASSUME NEW kind, NEW b, NEW j, NEW epoch, NEW grounds, NEW reason,
         NEW row, row = Control(kind, b, j, epoch, grounds, reason)
  PROVE  /\ row.kind = kind /\ row.venue = feed.venue /\ row.book = b /\ row.at = <<Local, j>>
         /\ row.reason = reason /\ row.epoch = epoch /\ row.evidence = grounds
BY DEF Control

\* The rows of a checkpoint are read as the book they were taken from.
LEMMA CheckpointRowsRead ==
  ASSUME NEW g, OfFeed(g), NEW rows, NEW ladders, AreBooks(ladders), NEW tr, IsTracker(tr), NEW k \in Nat,
         NEW done, NEW top \in Nat, NEW top2 \in Nat, Reads(g, rows, ladders, tr, k, done, top),
         NEW state, NEW b \in TapeBooks, b \notin done, IsBook(state[b]), state[b].baseline = state[b].snapshot,
         NEW reason, reason \in {"startup", "resync", "periodic"},
         reason = "periodic" => state[b] = ladders[b] /\ state[b].snapshot,
         g.venue = "kalshi" => /\ state[b].seq # None /\ top <= top2
                               /\ reason # "periodic" => top < state[b].seq /\ state[b].seq <= top2,
         NEW x, x = CheckpointRows(state, tr, b, k, reason)
  PROVE  Staging(g, rows, x, [ladders EXCEPT ![b] = state[b]], done \cup {b}, top2)
<1> DEFINE book == state[b]
<1>0. IsGround(g) /\ g.local = Local /\ IsRows(rows)
  BY DEF OfFeed, Reads, GroupWritten
<1>1. PICK now : now = IF Whole(book) THEN Opened(tr, b) ELSE Issued(Closed(tr, b), b)
  OBVIOUS
<1>2. PICK row : row = Event("checkpoint", b, k + 1, state, now, Full(book), Whole(book), reason)
  OBVIOUS
<1>3. /\ row.kind = "checkpoint" /\ row.venue = g.venue /\ row.book = b /\ row.at = <<g.local, k + 1>>
      /\ row.reason = reason /\ row.epoch = now.last[b] /\ row.good = Whole(book) /\ row.mutations = Full(book)
      /\ row.after = book.levels /\ row.seq = book.seq /\ row.baseline = book.baseline
      /\ row.counted = book.counted
  BY <1>0, <1>2, EventIs DEF OfFeed
<1>4. EventOf(g, row, ladders, book, top, top2)
  <2>1. row.mutations = [l \in row.after |-> TRUE]
    BY <1>3 DEF Full
  <2>2. Restates(row) <=> reason = "periodic"
    BY <1>3 DEF Restates
  <2>3. IsEvent(row) /\ row.kind # "delta"
    BY <1>3 DEF IsEvent
  <2> QED  BY <1>3, <2>1, <2>2, <2>3 DEF EventOf
<1>5. DOMAIN x = {"tracker", "cursor", "rows"} /\ x.tracker = now /\ x.cursor = k + 3
  BY <1>1 DEF CheckpointRows
<1>6. CASE Whole(book)
  <2>1. PICK rec : rec = Control("recovered", b, k + 2, now.open[b], row.at, reason)
    OBVIOUS
  <2>2. /\ rec.kind = "recovered" /\ rec.book = b /\ rec.at = <<g.local, k + 2>>
        /\ rec.epoch = now.open[b] /\ rec.evidence = row.at
    BY <1>0, <2>1, ControlIs
  <2>3. x.rows = <<row, rec>>
    <3>1. x.rows = <<>> \o <<row>> \o <<rec>>
      BY <1>1, <1>2, <1>6, <2>1 DEF CheckpointRows
    <3> QED  BY <1>0, <3>1, RowsJoin
  <2>4. rows \o x.rows = Append(Append(rows, row), rec) /\ x.rows \in Seq({row, rec})
    BY <1>0, <2>3, RowsJoin
  <2>5. now = Opened(tr, b) /\ IsTracker(now) /\ now.last[b] = tr.last[b] + 1 /\ now.open[b] = tr.last[b] + 1
    BY <1>1, <1>6, OpenedIs DEF TrackerIs
  <2>6. k + 1 \in Nat /\ k <= k + 1 /\ (k + 1) + 1 = k + 2 /\ (k + 1) + 2 = k + 3 /\ k + 3 \in Nat
    OBVIOUS
  <2>7. rec.at = <<g.local, (k + 1) + 1>>
    BY <2>2, <2>6
  <2>8. Reads(g, Append(Append(rows, row), rec), [ladders EXCEPT ![row.book] = book], Opened(tr, row.book), (k + 1) + 2,
              done \cup {row.book}, top2)
    <3>1. PICK j \in Nat : j = k + 1 /\ k <= j
      BY <2>6
    <3>2. row.at = <<g.local, j>> /\ row.kind = "checkpoint" /\ row.good /\ row.book \notin done
      BY <1>3, <1>6, <3>1
    <3>3. /\ row.epoch = tr.last[row.book] + 1 /\ rec.kind = "recovered" /\ rec.book = row.book
          /\ rec.at = <<g.local, j + 1>> /\ rec.epoch = row.epoch /\ rec.evidence = row.at
      BY <1>3, <2>2, <2>5, <2>7, <3>1
    <3>4. Reads(g, Append(Append(rows, row), rec), [ladders EXCEPT ![row.book] = book], Opened(tr, row.book), j + 2,
                done \cup {row.book}, top2)
      BY <1>0, <1>4, <3>1, <3>2, <3>3, CheckpointReads
    <3> QED  BY <3>1, <3>4
  <2> QED  BY <1>3, <1>5, <2>4, <2>5, <2>6, <2>8 DEF Staging
<1>7. CASE ~Whole(book)
  <2>1. PICK t : t = Closed(tr, b) /\ IsTracker(t) /\ t.last = tr.last /\ t.open[b] = None
    <3>1. TrackerIs(tr, Closed(tr, b), b, tr.last[b], None) /\ Closed(tr, b).last = tr.last
      BY OpenedIs
    <3> QED  BY <3>1 DEF TrackerIs
  <2>2. IsTracker(now) /\ now.open = t.open /\ \A y \in TapeBooks : y # b => now.last[y] = t.last[y]
    <3>1. now = Issued(t, b)
      BY <1>1, <1>7, <2>1
    <3>2. TrackerIs(t, Issued(t, b), b, t.last[b] + 1, t.open[b]) /\ Issued(t, b).open = t.open
      BY <2>1, OpenedIs
    <3> QED  BY <3>1, <3>2 DEF TrackerIs
  <2>3. k + 1 \in Nat /\ k <= k + 1 /\ (k + 1) + 1 = k + 2 /\ k + 2 \in Nat /\ k + 3 \in Nat /\ k + 2 <= k + 3
        /\ k + 1 <= k + 1
    OBVIOUS
  <2>4. CASE tr.open[b] # None
    <3>1. PICK inv : inv = Control("invalidated", b, k, tr.open[b], <<>>, "invalid")
      OBVIOUS
    <3>2. /\ inv.kind = "invalidated" /\ inv.book = b /\ inv.at = <<g.local, k>>
          /\ inv.epoch = tr.open[b] /\ inv.reason # "reconnect"
      BY <1>0, <3>1, ControlIs
    <3>3. x.rows = <<inv, row>>
      <4>1. x.rows = <<inv>> \o <<row>> \o <<>>
        BY <1>1, <1>2, <1>7, <2>4, <3>1 DEF CheckpointRows
      <4> QED  BY <1>0, <4>1, RowsJoin
    <3>4. rows \o x.rows = Append(Append(rows, inv), row) /\ x.rows \in Seq({inv, row})
      BY <1>0, <3>3, RowsJoin
    <3>5. PICK some : some = Append(rows, inv)
      OBVIOUS
    <3>6. Reads(g, some, ladders, t, k + 1, done, top)
      <4>1. Reads(g, Append(rows, inv), ladders, Closed(tr, inv.book), k + 1, done, top)
        BY <1>0, <3>2, InvalidatedReads
      <4> QED  BY <2>1, <3>2, <3>5, <4>1
    <3>7. Reads(g, Append(some, row), [ladders EXCEPT ![row.book] = book], now, (k + 1) + 1, done, top2)
      <4>0. PICK i \in Nat : i = k + 1
        BY <2>3
      <4>1. PICK j \in Nat : j = k + 1 /\ i <= j
        BY <4>0
      <4>2. row.at = <<g.local, j>> /\ NoneOpen(row, t, now)
        BY <1>3, <1>7, <2>1, <2>2, <4>1 DEF NoneOpen
      <4>5. PICK more : more = [ladders EXCEPT ![row.book] = book]
        OBVIOUS
      <4>3. Reads(g, some, ladders, t, i, done, top)
        BY <3>6, <4>0
      <4>4. Reads(g, Append(some, row), more, now, j + 1, done, top2)
        BY <1>0, <1>4, <2>1, <2>2, <4>1, <4>2, <4>3, <4>5, BadEventReads
      <4> QED  BY <4>0, <4>1, <4>4, <4>5, <2>3
    <3>8. Reads(g, Append(some, row), [ladders EXCEPT ![b] = book], now, k + 2, done, top2)
      BY <1>3, <2>3, <3>7
    <3>9. Reads(g, Append(some, row), [ladders EXCEPT ![b] = book], now, k + 3, done \cup {b}, top2)
      BY <1>0, <2>3, <3>8, ReadsLater
    <3> QED  BY <1>5, <2>2, <2>3, <3>4, <3>5, <3>9 DEF Staging
  <2>5. CASE tr.open[b] = None
    <3>1. x.rows = <<row>>
      <4>1. x.rows = <<>> \o <<row>> \o <<>>
        BY <1>1, <1>2, <1>7, <2>5 DEF CheckpointRows
      <4> QED  BY <1>0, <4>1, RowsJoin
    <3>2. rows \o x.rows = Append(rows, row) /\ x.rows \in Seq({row, row})
      BY <1>0, <3>1, RowsJoin
    <3>3. now.open = tr.open /\ \A y \in TapeBooks : y # b => now.last[y] = tr.last[y]
      <4>1. t.open = tr.open
        <5>1. t = [tr EXCEPT !.open[b] = None]
          BY <2>1 DEF Closed
        <5>2. t.open = [tr.open EXCEPT ![b] = None]
          BY <5>1 DEF IsTracker
        <5> QED  BY <2>5, <5>2 DEF IsTracker
      <4> QED  BY <2>1, <2>2, <4>1
    <3>4. Reads(g, Append(rows, row), [ladders EXCEPT ![row.book] = book], now, (k + 1) + 1, done, top2)
      <4>1. PICK j \in Nat : j = k + 1 /\ k <= j
        BY <2>3
      <4>2. row.at = <<g.local, j>> /\ NoneOpen(row, tr, now)
        BY <1>3, <1>7, <2>2, <2>5, <3>3, <4>1 DEF NoneOpen
      <4>3. PICK more : more = [ladders EXCEPT ![row.book] = book]
        OBVIOUS
      <4>4. Reads(g, Append(rows, row), more, now, j + 1, done, top2)
        BY <1>0, <1>4, <2>2, <4>1, <4>2, <4>3, BadEventReads
      <4> QED  BY <4>1, <4>3, <4>4
    <3>5. Reads(g, Append(rows, row), [ladders EXCEPT ![b] = book], now, k + 2, done, top2)
      BY <1>3, <2>3, <3>4
    <3>6. Reads(g, Append(rows, row), [ladders EXCEPT ![b] = book], now, k + 3, done \cup {b}, top2)
      BY <1>0, <2>3, <3>5, ReadsLater
    <3> QED  BY <1>5, <2>2, <2>3, <3>2, <3>6 DEF Staging
  <2> QED  BY <2>4, <2>5
<1> QED  BY <1>6, <1>7

\* So are the rows of a delta, whatever they find the book to be.
LEMMA DeltaRowsRead ==
  ASSUME NEW g, OfFeed(g), NEW rows, NEW ladders, AreBooks(ladders), NEW tr, IsTracker(tr), NEW k \in Nat,
         NEW done, NEW top \in Nat, NEW top2 \in Nat, Reads(g, rows, ladders, tr, k, done, top),
         NEW state, NEW b \in TapeBooks, b \notin done, IsBook(state[b]), state[b].baseline = state[b].snapshot,
         state[b].snapshot = ladders[b].snapshot,
         NEW m, Applied(ladders[b].levels, m) = state[b].levels, DOMAIN m = {} => ~state[b].counted,
         g.venue = "kalshi" => k = 0 /\ state[b].seq # None /\ top < state[b].seq /\ state[b].seq <= top2,
         NEW x, x = DeltaRows(state, tr, b, k, m)
  PROVE  Staging(g, rows, x, [ladders EXCEPT ![b] = state[b]], done \cup {b}, top2)
<1> DEFINE book == state[b]
           closes == ~Whole(book) /\ tr.open[b] # None
<1>0. /\ IsGround(g) /\ g.local = Local /\ g.venue = feed.venue /\ IsRows(rows) /\ g.local \in Nat
      /\ book.seq \in Nat
  BY DEF OfFeed, Reads, GroupWritten, IsBook, IsGround
<1>1. g.venue = "kalshi" => top <= top2
  BY <1>0
<1>2. PICK c : c = Control("invalidated", b, k, tr.open[b], <<>>, "invalid")
  OBVIOUS
<1>3. PICK inv : inv = IF closes THEN <<c>> ELSE <<>>
  OBVIOUS
<1>4. PICK now : now = IF closes THEN Closed(tr, b) ELSE tr
  OBVIOUS
<1>5. PICK i \in Nat : i = IF closes THEN k + 1 ELSE k
  <2>1. k + 1 \in Nat
    OBVIOUS
  <2> QED  BY <2>1
<1>6. PICK some : some = rows \o inv
  OBVIOUS
<1>7. IsTracker(now) /\ now.last = tr.last /\ (Whole(book) => now = tr) /\ (~Whole(book) => now.open[b] = None)
  <2>1. TrackerIs(tr, Closed(tr, b), b, tr.last[b], None) /\ Closed(tr, b).last = tr.last
    BY OpenedIs
  <2> QED  BY <1>4, <2>1 DEF TrackerIs
<1>8. Reads(g, some, ladders, now, i, done, top) /\ IsRows(some)
  <2>1. CASE ~closes
    <3>1. rows \o <<>> = rows
      BY <1>0, RowsJoin
    <3> QED  BY <1>0, <1>3, <1>4, <1>5, <1>6, <2>1, <3>1
  <2>2. CASE closes
    <3>1. rows \o <<c>> = Append(rows, c)
      BY <1>0, RowsJoin
    <3>2. /\ c.kind = "invalidated" /\ c.book = b /\ c.at = <<g.local, k>>
          /\ c.epoch = tr.open[b] /\ c.reason # "reconnect"
      BY <1>0, <1>2, ControlIs
    <3>3. Reads(g, Append(rows, c), ladders, Closed(tr, c.book), k + 1, done, top)
      BY <1>0, <3>2, InvalidatedReads
    <3>4. some = Append(rows, c)
      BY <1>3, <1>6, <2>2, <3>1
    <3>5. c.at \in Nat \X Nat
      BY <1>0, <3>2
    <3>6. IsRows(some)
      BY <1>0, <3>4, <3>5, RowsGrow
    <3> QED  BY <1>4, <1>5, <2>2, <3>2, <3>3, <3>4, <3>6
  <2> QED  BY <2>1, <2>2
<1>9. PICK more : more = [ladders EXCEPT ![b] = book]
  OBVIOUS
<1>10. inv \in Seq({c}) /\ <<>> \in Seq({c}) /\ rows \o <<>> = rows
  <2>1. <<c>> \in Seq({c}) /\ <<>> \in Seq({c})
    OBVIOUS
  <2>2. rows \o <<>> = rows
    BY <1>0, RowsJoin
  <2> QED  BY <1>3, <2>1, <2>2
<1>11. CASE ~book.snapshot /\ tr.last[b] = None
  <2>1. x = [tracker |-> tr, cursor |-> k, rows |-> <<>>]
    BY <1>11 DEF DeltaRows
  <2>2. Reads(g, rows, more, tr, k, done, top2)
    BY <1>0, <1>1, <1>9, <1>11, UnwrittenReads
  <2>3. Reads(g, rows, more, tr, k, done \cup {b}, top2)
    BY <1>0, <2>2, ReadsLater
  <2> QED  BY <1>9, <1>10, <2>1, <2>3 DEF Staging
<1>12. CASE ~(~book.snapshot /\ tr.last[b] = None) /\ DOMAIN m = {}
  <2>1. x = [tracker |-> now, cursor |-> i, rows |-> inv]
    BY <1>2, <1>3, <1>4, <1>5, <1>12 DEF DeltaRows
  <2>2. book.levels = ladders[b].levels
    <3>1. {l \in DOMAIN m : m[l]} = {}
      BY <1>12
    <3> QED  BY <1>12, <3>1 DEF Applied
  <2>3. ~book.counted
    BY <1>12
  <2>4. Reads(g, some, more, now, i, done, top2)
    BY <1>0, <1>1, <1>7, <1>8, <1>9, <2>2, <2>3, UnwrittenReads
  <2>5. Reads(g, some, more, now, i, done \cup {b}, top2)
    BY <1>0, <2>4, ReadsLater
  <2> QED  BY <1>6, <1>7, <1>9, <1>10, <2>1, <2>5 DEF Staging
<1>13. CASE ~(~book.snapshot /\ tr.last[b] = None) /\ DOMAIN m # {} /\ Whole(book) /\ now.open[b] = None
  <2>1. now = tr
    BY <1>7, <1>13
  <2>2. x = CheckpointRows(state, tr, b, k, "resync")
    <3>1. x = CheckpointRows(state, now, b, k, "resync")
      BY <1>4, <1>13 DEF DeltaRows
    <3> QED  BY <2>1, <3>1
  <2>3. "resync" # "periodic" /\ "resync" \in {"startup", "resync", "periodic"}
    OBVIOUS
  <2>4. PICK reason : reason = "resync"
    OBVIOUS
  <2>5. g.venue = "kalshi" => /\ book.seq # None /\ top <= top2
                              /\ reason # "periodic" => top < book.seq /\ book.seq <= top2
    BY <1>1
  <2> QED  BY <2>2, <2>3, <2>4, <2>5, CheckpointRowsRead
<1>14. CASE ~(~book.snapshot /\ tr.last[b] = None) /\ DOMAIN m # {} /\ ~(Whole(book) /\ now.open[b] = None)
  <2>1. PICK j \in Nat : j = (IF OnKalshi THEN 1 ELSE IF closes THEN k + 1 ELSE k) /\ i <= j
    <3>1. OnKalshi <=> g.venue = "kalshi"
      BY <1>0 DEF OnKalshi
    <3> QED  BY <1>5, <3>1
  <2>2. PICK good : good = (now.open[b] # None /\ Whole(book))
    OBVIOUS
  <2>3. PICK row : row = Event("delta", b, j, state, now, m, good, "delta")
    OBVIOUS
  <2>4. x = [tracker |-> now, cursor |-> j + 1, rows |-> Append(inv, row)]
    BY <1>2, <1>3, <1>4, <1>14, <2>1, <2>2, <2>3 DEF DeltaRows
  <2>5. /\ row.kind = "delta" /\ row.venue = g.venue /\ row.book = b /\ row.at = <<g.local, j>>
        /\ row.epoch = now.open[b] /\ row.good = good /\ row.mutations = m
        /\ row.after = book.levels /\ row.seq = book.seq /\ row.baseline = book.baseline
        /\ row.counted = book.counted
    BY <1>0, <2>3, EventIs
  <2>6. EventOf(g, row, ladders, book, top, top2)
    <3>1. IsEvent(row) /\ row.kind # "checkpoint" /\ ~Restates(row)
      BY <2>5 DEF IsEvent, Restates
    <3> QED  BY <1>1, <2>5, <3>1 DEF EventOf
  <2>7. rows \o x.rows = Append(some, row) /\ \E S : x.rows \in Seq(S)
    <3>1. CASE closes
      <4>1. /\ rows \o <<c, row>> = Append(Append(rows, c), row) /\ rows \o <<c>> = Append(rows, c)
            /\ Append(<<c>>, row) = <<c, row>> /\ <<c, row>> \in Seq({c, row})
        <5>1. rows \o <<c, row>> = Append(Append(rows, c), row)
          BY <1>0, RowsJoin
        <5>2. rows \o <<c>> = Append(rows, c)
          BY <1>0, RowsJoin
        <5>3. Append(<<c>>, row) = <<c, row>>
          BY <1>0, RowsJoin
        <5>4. <<c, row>> \in Seq({c, row})
          OBVIOUS
        <5> QED  BY <5>1, <5>2, <5>3, <5>4
      <4>2. inv = <<c>> /\ x.rows = Append(inv, row)
        BY <1>3, <2>4, <3>1
      <4> QED  BY <1>6, <4>1, <4>2
    <3>2. CASE ~closes
      <4>1. /\ rows \o <<row>> = Append(rows, row)
            /\ Append(<<>>, row) = <<row>> /\ <<row>> \in Seq({row, row})
        BY <1>0, RowsJoin
      <4>2. inv = <<>> /\ x.rows = Append(inv, row)
        BY <1>3, <2>4, <3>2
      <4> QED  BY <1>6, <1>10, <4>1, <4>2
    <3> QED  BY <3>1, <3>2
  <2>8. more = [ladders EXCEPT ![row.book] = book]
    BY <1>9, <2>5
  <2>9. Reads(g, Append(some, row), more, now, j + 1, done \cup {b}, top2)
    <3>1. CASE good
      <4>1. row.good /\ row.book \notin done /\ now.open[row.book] # None /\ row.epoch = now.open[row.book]
            /\ row.kind = "delta" /\ row.at = <<g.local, j>>
        BY <2>2, <2>5, <3>1
      <4>2. Reads(g, Append(some, row), more, now, j + 1, done \cup {row.book}, top2)
        BY <1>0, <1>7, <1>8, <2>1, <2>6, <2>8, <4>1, DeltaReads
      <4> QED  BY <2>5, <4>2
    <3>2. CASE ~good
      <4>1. NoneOpen(row, now, now) /\ row.at = <<g.local, j>>
        BY <1>7, <1>14, <2>2, <2>5, <3>2 DEF NoneOpen
      <4>2. Reads(g, Append(some, row), more, now, j + 1, done, top2)
        BY <1>0, <1>7, <1>8, <2>1, <2>6, <2>8, <4>1, BadEventReads
      <4>3. j + 1 \in Nat /\ j + 1 <= j + 1
        OBVIOUS
      <4> QED  BY <1>0, <4>2, <4>3, ReadsLater
    <3> QED  BY <3>1, <3>2
  <2>10. j + 1 \in Nat /\ DOMAIN x = {"tracker", "cursor", "rows"} /\ x.tracker = now /\ x.cursor = j + 1
    BY <2>4
  <2> QED  BY <1>7, <1>9, <2>7, <2>9, <2>10 DEF Staging
<1> QED  BY <1>11, <1>12, <1>13, <1>14

\* The next message starts again at subsequence 0, and no event of it is heard.
LEMMA NextMessage ==
  ASSUME NEW g, IsGround(g), NEW h, h.venue = g.venue, h.run = g.run, h.books = g.books, h.local = g.local + 1,
         NEW rows, NEW ladders, NEW tr, NEW k \in Nat, NEW done, NEW top, Reads(g, rows, ladders, tr, k, done, top)
  PROVE  Reads(h, rows, ladders, tr, 0, {}, top)
<1>0. PICK l \in Nat : l = g.local /\ h.local = l + 1
  BY DEF IsGround
<1>1. GroupWritten(h, rows, 0)
  <2>1. ASSUME NEW n \in DOMAIN rows PROVE Before(rows[n].at, <<h.local, 0>>)
    <3>1. PICK a \in Nat \X Nat : a = rows[n].at
      BY DEF Reads, GroupWritten, IsRows
    <3>2. Before(a, <<l, k>>)
      BY <1>0, <3>1 DEF Reads, GroupWritten
    <3>3. a[1] \in Nat /\ a[2] \in Nat /\ (a[1] < l \/ (a[1] = l /\ a[2] < k))
      BY <3>2 DEF Before
    <3>4. a[1] < l + 1
      BY <3>3
    <3> QED  BY <1>0, <3>1, <3>4 DEF Before
  <2> QED  BY <2>1 DEF Reads, GroupWritten
<1>2. PICK e, c, d : e = Replays(g.run, rows) /\ c = Checks(Unchecked(g), rows) /\ d = Due(g.run.owed, rows)
  OBVIOUS
<1>3. Told(g, e, c, d, ladders, tr, k, done, top)
  BY <1>2 DEF Reads
<1>4. ASSUME e.error = <<>> PROVE EngineReads(h, e, d, ladders, tr, 0, {}, top)
  <2>1. EngineReads(g, e, d, ladders, tr, k, done, top) /\ IsEngine(e)
    BY <1>3, <1>4 DEF Told
  <2>2. ASSUME NEW b \in TapeBooks PROVE Behind(e.progress[b], <<h.local, 0, 0>>)
    <3>1. PICK p \in Nat \X Nat \X Nat : p = e.progress[b]
      BY <2>1 DEF IsEngine
    <3>2. PICK p1 \in Nat, p2 \in Nat, p3 \in Nat : p1 = p[1] /\ p2 = p[2] /\ p3 = p[3]
      BY <3>1
    <3>3. Behind(p, <<l, k, 0>>)
      BY <1>0, <2>1, <3>1 DEF EngineReads
    <3>4. p1 < l \/ (p1 = l /\ p2 < k) \/ (p1 = l /\ p2 = k /\ p3 < 0)
      BY <3>2, <3>3 DEF Behind
    <3>5. p1 < l + 1
      BY <3>2, <3>4
    <3> QED  BY <1>0, <3>1, <3>2, <3>5 DEF Behind
  <2>3. e.pending # <<>> => e.pending[1][3] <= h.local /\ e.pending[1][3] < h.local
    <3> SUFFICES ASSUME e.pending # <<>> PROVE e.pending[1][3] <= h.local /\ e.pending[1][3] < h.local
      OBVIOUS
    <3>1. PICK o \in Owners : o = e.pending[1]
      BY <2>1 DEF IsEngine
    <3>2. PICK q \in Nat : q = o[3]
      BY DEF Owners
    <3>3. q <= l
      BY <1>0, <2>1, <3>1, <3>2 DEF EngineReads
    <3>4. q <= l + 1 /\ q < l + 1
      BY <3>3
    <3> QED  BY <1>0, <3>1, <3>2, <3>4
  <2>4. \A b \in TapeBooks : BookSeen(e, b, h.venue, ladders[b], tr.last[b], tr.open[b])
    BY <2>1 DEF EngineReads
  <2>5. h.venue = "kalshi" => e.shardSeq <= top
    BY <2>1 DEF EngineReads
  <2> QED  BY <2>1, <2>2, <2>3, <2>4, <2>5 DEF EngineReads
<1>5. Told(h, e, c, d, ladders, tr, 0, {}, top)
  BY <1>3, <1>4 DEF Told
<1>6. Unchecked(h) = Unchecked(g)
  BY DEF Unchecked
<1> QED  BY <1>1, <1>2, <1>5, <1>6 DEF Reads

\* Books with one changed are books.
LEMMA BooksChange ==
  ASSUME NEW ladders, AreBooks(ladders), NEW b \in TapeBooks, NEW book, IsBook(book),
         NEW more, more = [ladders EXCEPT ![b] = book]
  PROVE  AreBooks(more) /\ more[b] = book /\ \A x \in TapeBooks : x # b => more[x] = ladders[x]
<1>1. DOMAIN more = TapeBooks /\ more[b] = book /\ \A x \in TapeBooks : x # b => more[x] = ladders[x]
  BY DEF AreBooks
<1>2. more = [x \in TapeBooks |-> more[x]]
  BY DEF AreBooks
<1>3. \A x \in TapeBooks : IsBook(more[x])
  BY <1>1 DEF AreBooks
<1> QED  BY <1>1, <1>2, <1>3 DEF AreBooks

\* A sequence over a set is one over a larger set.
LEMMA Widened == ASSUME NEW S, NEW T, NEW rows \in Seq(S) PROVE rows \in Seq(S \cup T)
<1>1. PICK U : U = S \cup T
  OBVIOUS
<1>2. Len(rows) \in Nat /\ DOMAIN rows = 1 .. Len(rows) /\ \A n \in 1 .. Len(rows) : rows[n] \in U
  BY <1>1, LenProperties
<1>3. rows \in [1 .. Len(rows) -> U]
  BY <1>2
<1>4. rows \in Seq(U)
  BY <1>2, <1>3, SeqDef
<1> QED  BY <1>1, <1>4

\* Concatenation is associative.
LEMMA ThreeJoin ==
  ASSUME NEW S, NEW T, NEW U, NEW a \in Seq(S), NEW b \in Seq(T), NEW c \in Seq(U)
  PROVE  (a \o b) \o c = a \o (b \o c) /\ \E V : b \o c \in Seq(V)
<1>1. PICK V : V = (S \cup T) \cup U
  OBVIOUS
<1>2. a \in Seq(S \cup (T \cup U)) /\ b \in Seq(T \cup (S \cup U)) /\ c \in Seq(U \cup (S \cup T))
  BY Widened
<1>3. S \cup (T \cup U) = V /\ T \cup (S \cup U) = V /\ U \cup (S \cup T) = V
  BY <1>1
<1>4. a \in Seq(V) /\ b \in Seq(V) /\ c \in Seq(V)
  BY <1>2, <1>3
<1>5. (a \o b) \o c = a \o (b \o c) /\ b \o c \in Seq(V)
  BY <1>4, ConcatAssociative, ConcatProperties
<1> QED  BY <1>5

\* Rows of one book of a message after those of another.
LEMMA StagesJoin ==
  ASSUME NEW g, NEW rows, IsRows(rows), NEW x, NEW ladders, NEW done, NEW top, Staging(g, rows, x, ladders, done, top),
         NEW y, NEW books2, NEW done2, NEW top2, Staging(g, rows \o x.rows, y, books2, done2, top2),
         NEW z, z = Prolonged(x, y)
  PROVE  Staging(g, rows, z, books2, done2, top2)
<1>1. PICK S : rows \in Seq(S)
  BY DEF IsRows
<1>2. PICK T : x.rows \in Seq(T)
  BY DEF Staging
<1>3. PICK U : y.rows \in Seq(U)
  BY DEF Staging
<1>4. z = [y EXCEPT !.rows = x.rows \o y.rows]
  BY DEF Prolonged, Staging
<1>5. DOMAIN z = {"tracker", "cursor", "rows"} /\ z.tracker = y.tracker /\ z.cursor = y.cursor
      /\ z.rows = x.rows \o y.rows
  BY <1>4 DEF Staging
<1>6. (rows \o x.rows) \o y.rows = rows \o (x.rows \o y.rows) /\ \E V : x.rows \o y.rows \in Seq(V)
  <2>1. PICK p, q : p = x.rows /\ q = y.rows
    OBVIOUS
  <2>2. p \in Seq(T) /\ q \in Seq(U)
    BY <1>2, <1>3, <2>1
  <2>3. (rows \o p) \o q = rows \o (p \o q)
    BY <1>1, <2>2, ThreeJoin
  <2>4. \E V : p \o q \in Seq(V)
    BY <1>1, <2>2, ThreeJoin
  <2> QED  BY <2>1, <2>3, <2>4
<1> QED  BY <1>5, <1>6 DEF Staging

\* A message begins with no rows.
LEMMA NothingStages ==
  ASSUME NEW g, IsGround(g), NEW rows, NEW ladders, IsTracker(epochs), NEW top, Reads(g, rows, ladders, epochs, 0, {}, top)
  PROVE  Staging(g, rows, NothingYet, ladders, {}, top) /\ NothingYet.cursor = 0 /\ NothingYet.tracker = epochs
<1>1. IsRows(rows)
  BY DEF Reads, GroupWritten
<1>2. rows \o <<>> = rows
  BY <1>1, RowsJoin
<1>3. PICK x : x = NothingYet
  OBVIOUS
<1>4. DOMAIN x = {"tracker", "cursor", "rows"} /\ x.tracker = epochs /\ x.cursor = 0 /\ x.rows = <<>>
  BY <1>3 DEF NothingYet
<1>5. <<>> \in Seq({}) /\ 0 \in Nat
  OBVIOUS
<1> QED  BY <1>2, <1>3, <1>4, <1>5 DEF Staging

\* What a delta does to a book, as its rows tell it.
LEMMA TouchedIs ==
  ASSUME NEW book, IsBook(book), NEW change \in Change, Frame \in Nat, NEW t, t = Touched(book, change)
  PROVE  /\ IsBook(t) /\ t.snapshot = book.snapshot /\ t.baseline = book.baseline
         /\ t.seq = (IF OnKalshi THEN Frame ELSE None)
         /\ t.counted = (change.how # "unreadable")
<1>1. PICK l, f, c, s : /\ l = IF change.how # "well" THEN book.levels
                                ELSE IF change.on THEN book.levels \cup {change.level}
                                ELSE book.levels \ {change.level}
                        /\ f = (book.flaw \/ change.how # "well" \/ ~book.snapshot)
                        /\ c = (change.how # "unreadable") /\ s = IF OnKalshi THEN Frame ELSE None
  OBVIOUS
<1>2. t = [book EXCEPT !.levels = l, !.flaw = f, !.counted = c, !.seq = s]
  BY <1>1 DEF Touched
<1>3. /\ DOMAIN t = DOMAIN book /\ t.levels = l /\ t.flaw = f /\ t.counted = c /\ t.seq = s
      /\ t.snapshot = book.snapshot /\ t.baseline = book.baseline
  BY <1>2 DEF IsBook
<1>4. change.level \in Levels
  BY DEF Change, Levels
<1>5. l \subseteq Levels /\ s \in Nat
  BY <1>1, <1>4 DEF IsBook, None
<1>6. f \in BOOLEAN /\ c \in BOOLEAN
  BY <1>1
<1> QED  BY <1>1, <1>3, <1>5, <1>6 DEF IsBook

\* The mutations of a change lead from the book before to the book after.
LEMMA MutationsLead ==
  ASSUME NEW book, IsBook(book), NEW change \in Change, NEW t, t = Touched(book, change),
         NEW m, m = Mutations(t, change)
  PROVE  Applied(book.levels, m) = t.levels /\ (DOMAIN m = {} => ~t.counted)
<1>1. PICK l : l = IF change.how # "well" THEN book.levels
                   ELSE IF change.on THEN book.levels \cup {change.level}
                   ELSE book.levels \ {change.level}
  OBVIOUS
<1>2. t.levels = l /\ t.counted = (change.how # "unreadable")
  BY <1>1 DEF Touched, IsBook
<1>3. DOMAIN m = (IF change.how = "unreadable" THEN {} ELSE {change.level})
      /\ \A x \in DOMAIN m : m[x] = (x \in l)
  BY <1>2 DEF Mutations
<1>4. change.on \in BOOLEAN
  BY DEF Change
<1>5. (book.levels \ DOMAIN m) \cup {x \in DOMAIN m : m[x]} = l
  <2>1. CASE change.how = "unreadable"
    BY <1>1, <1>3, <2>1
  <2>2. CASE change.how # "unreadable"
    <3>1. {x \in DOMAIN m : m[x]} = {x \in {change.level} : x \in l} /\ DOMAIN m = {change.level}
      BY <1>3, <2>2
    <3>2. (book.levels \ {change.level}) \cup {x \in {change.level} : x \in l} = l
      BY <1>1, <1>4
    <3> QED  BY <3>1, <3>2
  <2> QED  BY <2>1, <2>2
<1> QED  BY <1>2, <1>3, <1>5 DEF Applied

\* Where a message of a book is when its rows are added.
DeltaStages(g, rows, x, ladders, b, change, top, y, top2, done) ==
  \A new : new = [ladders EXCEPT ![b] = Touched(ladders[b], change)] =>
    AreBooks(new) /\ Staging(g, rows, y, new, done \cup {b}, top2)

\* The rows of one book of a message join those of the book before.
LEMMA DeltaIsStaged ==
  ASSUME NEW g, OfFeed(g), NEW rows, IsRows(rows), NEW ladders, AreBooks(ladders), NEW x, NEW done,
         NEW top \in Nat, NEW top2 \in Nat, Staging(g, rows, x, ladders, done, top), NEW b \in TapeBooks, b \notin done,
         NEW state, NEW change \in Change, Frame \in Nat, state[b] = Touched(ladders[b], change),
         OnKalshi => x.cursor = 0 /\ Frame # None /\ top < Frame /\ Frame <= top2,
         NEW y, y = Prolonged(x, DeltaRows(state, x.tracker, b, x.cursor, Mutations(state[b], change)))
  PROVE  DeltaStages(g, rows, x, ladders, b, change, top, y, top2, done)
<1>1. PICK m : m = Mutations(state[b], change)
  OBVIOUS
<1>2. PICK t : t = state[b] /\ t = Touched(ladders[b], change)
  OBVIOUS
<1>3. IsBook(ladders[b])
  BY DEF AreBooks
<1>4. /\ IsBook(t) /\ t.snapshot = ladders[b].snapshot /\ t.baseline = ladders[b].baseline
      /\ t.seq = (IF OnKalshi THEN Frame ELSE None)
  BY <1>2, <1>3, TouchedIs
<1>5. Applied(ladders[b].levels, m) = t.levels /\ (DOMAIN m = {} => ~t.counted)
  BY <1>1, <1>2, <1>3, MutationsLead
<1>6. PICK k, tr : k \in Nat /\ k = x.cursor /\ tr = x.tracker /\ IsTracker(tr)
  BY DEF Staging
<1>7. PICK some : some = rows \o x.rows
  OBVIOUS
<1>8. Reads(g, some, ladders, tr, k, done, top)
  BY <1>6, <1>7 DEF Staging
<1>9. ladders[b].baseline = ladders[b].snapshot
  BY <1>8 DEF Reads, Told, ChecksRead
<1>10. g.venue = "kalshi" => k = 0 /\ t.seq # None /\ top < t.seq /\ t.seq <= top2
  BY <1>4, <1>6 DEF OnKalshi, OfFeed
<1>11. PICK z : z = DeltaRows(state, tr, b, k, m)
  OBVIOUS
<1>12. Staging(g, some, z, [ladders EXCEPT ![b] = state[b]], done \cup {b}, top2)
  <2>1. IsBook(state[b]) /\ state[b].baseline = state[b].snapshot /\ state[b].snapshot = ladders[b].snapshot
        /\ Applied(ladders[b].levels, m) = state[b].levels /\ (DOMAIN m = {} => ~state[b].counted)
    BY <1>2, <1>4, <1>5, <1>9
  <2>2. g.venue = "kalshi" => k = 0 /\ state[b].seq # None /\ top < state[b].seq /\ state[b].seq <= top2
    BY <1>2, <1>10
  <2> QED  BY <1>6, <1>8, <1>11, <2>1, <2>2, DeltaRowsRead
<1>13. y = Prolonged(x, z)
  BY <1>1, <1>6, <1>11
<1>14. PICK new : new = [ladders EXCEPT ![b] = Touched(ladders[b], change)]
  OBVIOUS
<1>15. AreBooks(new)
  BY <1>2, <1>4, <1>14, BooksChange
<1>16. Staging(g, rows, y, new, done \cup {b}, top2)
  <2>1. Staging(g, rows \o x.rows, z, new, done \cup {b}, top2)
    BY <1>2, <1>7, <1>12, <1>14
  <2> QED  BY <1>13, <2>1, StagesJoin
<1> QED  BY <1>14, <1>15, <1>16 DEF DeltaStages

\* The rows of a message, book 1 and then book 2.
DeltaPart(x, state, touched, change, b) ==
  IF b \in touched
  THEN Prolonged(x, DeltaRows(state, x.tracker, b, x.cursor, Mutations(state[b], change)))
  ELSE x
DeltaRuns(state, touched, change, f) ==
  f = [b \in 0 .. 2 |->
        IF b = 0 THEN NothingYet
        ELSE IF b \in touched
        THEN Prolonged(f[b - 1], DeltaRows(state, f[b - 1].tracker, b, f[b - 1].cursor,
                                        Mutations(state[b], change)))
        ELSE f[b - 1]]

\* The rows of a message with deltas, book by book.
LEMMA DeltasAre ==
  ASSUME NEW state, NEW touched, NEW change
  PROVE  \E x : /\ x = DeltaPart(NothingYet, state, touched, change, 1)
                /\ DeltasOf(state, touched, change) = DeltaPart(x, state, touched, change, 2)
<1>1. PICK x, y : x = DeltaPart(NothingYet, state, touched, change, 1)
                  /\ y = DeltaPart(x, state, touched, change, 2)
  OBVIOUS
<1>2. PICK f : f = [b \in 0 .. 2 |-> IF b = 0 THEN NothingYet ELSE IF b = 1 THEN x ELSE y]
  OBVIOUS
<1>3. f[0] = NothingYet /\ f[1] = x /\ f[2] = y /\ DOMAIN f = 0 .. 2
  BY <1>2
<1>4. DeltaRuns(state, touched, change, f)
  <2>1. PICK h : h = [b \in 0 .. 2 |->
        IF b = 0 THEN NothingYet
        ELSE IF b \in touched
        THEN Prolonged(f[b - 1], DeltaRows(state, f[b - 1].tracker, b, f[b - 1].cursor,
                                        Mutations(state[b], change)))
        ELSE f[b - 1]]
    OBVIOUS
  <2>2. h[0] = NothingYet
    BY <2>1
  <2>3. h[1] = DeltaPart(f[0], state, touched, change, 1)
    <3>1. 1 \in 0 .. 2 /\ 1 - 1 = 0 /\ 1 # 0
      OBVIOUS
    <3> QED  BY <2>1, <3>1 DEF DeltaPart
  <2>4. h[2] = DeltaPart(f[1], state, touched, change, 2)
    <3>1. 2 \in 0 .. 2 /\ 2 - 1 = 1 /\ 2 # 0
      OBVIOUS
    <3> QED  BY <2>1, <3>1 DEF DeltaPart
  <2>5. h[0] = f[0] /\ h[1] = f[1] /\ h[2] = f[2]
    BY <1>1, <1>3, <2>2, <2>3, <2>4
  <2>6. DOMAIN h = 0 .. 2 /\ h = [b \in 0 .. 2 |-> h[b]] /\ f = [b \in 0 .. 2 |-> f[b]]
    <3>1. DOMAIN h = 0 .. 2
      BY <2>1
    <3>2. h = [b \in 0 .. 2 |-> h[b]]
      BY <2>1
    <3>3. f = [b \in 0 .. 2 |-> f[b]]
      BY <1>2
    <3> QED  BY <3>1, <3>2, <3>3
  <2>7. \A b \in 0 .. 2 : h[b] = f[b]
    <3>1. \A b \in 0 .. 2 : b = 0 \/ b = 1 \/ b = 2
      OBVIOUS
    <3> QED  BY <2>5, <3>1
  <2>8. h = f
    BY <2>6, <2>7
  <2> QED  BY <2>1, <2>8 DEF DeltaRuns
<1> DEFINE g == CHOOSE k : DeltaRuns(state, touched, change, k)
<1>5. DeltaRuns(state, touched, change, g)
  BY <1>4
<1>6. DeltasOf(state, touched, change) = g[2]
  BY DEF DeltasOf, DeltaRuns
<1>7. PICK k : k = g
  OBVIOUS
<1>8. k = [b \in 0 .. 2 |->
        IF b = 0 THEN NothingYet
        ELSE IF b \in touched
        THEN Prolonged(k[b - 1], DeltaRows(state, k[b - 1].tracker, b, k[b - 1].cursor,
                                        Mutations(state[b], change)))
        ELSE k[b - 1]]
  BY <1>5, <1>7 DEF DeltaRuns
<1>9. k[0] = NothingYet /\ k[1] = DeltaPart(k[0], state, touched, change, 1)
      /\ k[2] = DeltaPart(k[1], state, touched, change, 2)
  <2>1. PICK j : j = k
    OBVIOUS
  <2>2. k = [b \in 0 .. 2 |->
        IF b = 0 THEN NothingYet
        ELSE IF b \in touched
        THEN Prolonged(j[b - 1], DeltaRows(state, j[b - 1].tracker, b, j[b - 1].cursor,
                                        Mutations(state[b], change)))
        ELSE j[b - 1]]
    BY <1>8, <2>1
  <2>3. 1 \in 0 .. 2 /\ 1 - 1 = 0 /\ 1 # 0 /\ 2 \in 0 .. 2 /\ 2 - 1 = 1 /\ 2 # 0 /\ 0 \in 0 .. 2
    OBVIOUS
  <2>4. k[0] = NothingYet
    BY <2>2, <2>3
  <2>5. k[1] = DeltaPart(j[0], state, touched, change, 1)
    BY <2>2, <2>3 DEF DeltaPart
  <2>6. k[2] = DeltaPart(j[1], state, touched, change, 2)
    BY <2>2, <2>3 DEF DeltaPart
  <2> QED  BY <2>1, <2>4, <2>5, <2>6
<1> QED  BY <1>6, <1>7, <1>9

PeriodPart(x, b) ==
  IF states[b].snapshot THEN Prolonged(x, CheckpointRows(states, x.tracker, b, x.cursor, "periodic")) ELSE x
PeriodRuns(f) ==
  f = [b \in 0 .. 2 |->
        IF b = 0 THEN NothingYet
        ELSE IF states[b].snapshot
        THEN Prolonged(f[b - 1],
                    CheckpointRows(states, f[b - 1].tracker, b, f[b - 1].cursor, "periodic"))
        ELSE f[b - 1]]

\* The rows of a periodic checkpoint, book by book.
LEMMA PeriodIs ==
  \E x : x = PeriodPart(NothingYet, 1) /\ PeriodicRows = PeriodPart(x, 2)
<1>1. PICK x, y : x = PeriodPart(NothingYet, 1) /\ y = PeriodPart(x, 2)
  OBVIOUS
<1>2. PICK f : f = [b \in 0 .. 2 |-> IF b = 0 THEN NothingYet ELSE IF b = 1 THEN x ELSE y]
  OBVIOUS
<1>3. f[0] = NothingYet /\ f[1] = x /\ f[2] = y /\ DOMAIN f = 0 .. 2
  BY <1>2
<1>4. PeriodRuns(f)
  <2>1. PICK h : h = [b \in 0 .. 2 |->
        IF b = 0 THEN NothingYet
        ELSE IF states[b].snapshot
        THEN Prolonged(f[b - 1],
                    CheckpointRows(states, f[b - 1].tracker, b, f[b - 1].cursor, "periodic"))
        ELSE f[b - 1]]
    OBVIOUS
  <2>2. h[0] = NothingYet
    BY <2>1
  <2>3. h[1] = PeriodPart(f[0], 1)
    <3>1. 1 \in 0 .. 2 /\ 1 - 1 = 0 /\ 1 # 0
      OBVIOUS
    <3> QED  BY <2>1, <3>1 DEF PeriodPart
  <2>4. h[2] = PeriodPart(f[1], 2)
    <3>1. 2 \in 0 .. 2 /\ 2 - 1 = 1 /\ 2 # 0
      OBVIOUS
    <3> QED  BY <2>1, <3>1 DEF PeriodPart
  <2>5. h[0] = f[0] /\ h[1] = f[1] /\ h[2] = f[2]
    BY <1>1, <1>3, <2>2, <2>3, <2>4
  <2>6. DOMAIN h = 0 .. 2 /\ h = [b \in 0 .. 2 |-> h[b]] /\ f = [b \in 0 .. 2 |-> f[b]]
    <3>1. DOMAIN h = 0 .. 2
      BY <2>1
    <3>2. h = [b \in 0 .. 2 |-> h[b]]
      BY <2>1
    <3>3. f = [b \in 0 .. 2 |-> f[b]]
      BY <1>2
    <3> QED  BY <3>1, <3>2, <3>3
  <2>7. \A b \in 0 .. 2 : h[b] = f[b]
    <3>1. \A b \in 0 .. 2 : b = 0 \/ b = 1 \/ b = 2
      OBVIOUS
    <3> QED  BY <2>5, <3>1
  <2>8. h = f
    BY <2>6, <2>7
  <2> QED  BY <2>1, <2>8 DEF PeriodRuns
<1> DEFINE g == CHOOSE k : PeriodRuns(k)
<1>5. PeriodRuns(g)
  BY <1>4
<1>6. PeriodicRows = g[2]
  BY DEF PeriodicRows, PeriodRuns
<1>7. PICK k : k = g /\ PeriodRuns(k)
  BY <1>5
<1>8. PICK j : j = k
  OBVIOUS
<1>9. k = [b \in 0 .. 2 |->
        IF b = 0 THEN NothingYet
        ELSE IF states[b].snapshot
        THEN Prolonged(j[b - 1],
                    CheckpointRows(states, j[b - 1].tracker, b, j[b - 1].cursor, "periodic"))
        ELSE j[b - 1]]
  <2>1. k = [b \in 0 .. 2 |->
        IF b = 0 THEN NothingYet
        ELSE IF states[b].snapshot
        THEN Prolonged(k[b - 1],
                    CheckpointRows(states, k[b - 1].tracker, b, k[b - 1].cursor, "periodic"))
        ELSE k[b - 1]]
    BY ONLY <1>7 DEF PeriodRuns
  <2> QED  BY <1>8, <2>1
<1>10. 1 \in 0 .. 2 /\ 1 - 1 = 0 /\ 1 # 0 /\ 2 \in 0 .. 2 /\ 2 - 1 = 1 /\ 2 # 0 /\ 0 \in 0 .. 2
  OBVIOUS
<1>11. k[0] = NothingYet
  BY <1>9, <1>10
<1>12. k[1] = PeriodPart(j[0], 1)
  BY <1>9, <1>10 DEF PeriodPart
<1>13. k[2] = PeriodPart(j[1], 2)
  BY <1>9, <1>10 DEF PeriodPart
<1> QED  BY <1>6, <1>7, <1>8, <1>11, <1>12, <1>13

\* The rows of a whole message.
LEMMA SnapshotMessage ==
  ASSUME NEW g, OfFeed(g), NEW rows, NEW ladders, AreBooks(ladders), IsTracker(epochs),
         NEW top \in Nat, NEW top2 \in Nat, Reads(g, rows, ladders, epochs, 0, {}, top),
         NEW b \in TapeBooks, NEW book, IsBook(book), book.snapshot, book.baseline,
         OnKalshi => book.seq # None /\ top < book.seq /\ book.seq <= top2,
         NEW state, state = [ladders EXCEPT ![b] = book], NEW reason, reason \in {"startup", "resync"},
         NEW x, x = CheckpointRows(state, epochs, b, 0, reason)
  PROVE  AreBooks(state) /\ \E done : Staging(g, rows, x, state, done, top2)
<1>1. AreBooks(state) /\ state[b] = book
  <2>1. PICK more : more = [ladders EXCEPT ![b] = book]
    OBVIOUS
  <2>2. AreBooks(more)
    BY <2>1, BooksChange
  <2>3. more[b] = book
    BY <2>1 DEF AreBooks
  <2> QED  BY <2>1, <2>2, <2>3
<1>2. state = [ladders EXCEPT ![b] = state[b]]
  BY <1>1
<1>3. book.seq \in Nat /\ book.baseline = book.snapshot /\ reason # "periodic"
      /\ reason \in {"startup", "resync", "periodic"}
  BY DEF IsBook
<1>4. g.venue = "kalshi" => /\ state[b].seq # None /\ top <= top2
                            /\ reason # "periodic" => top < state[b].seq /\ state[b].seq <= top2
  BY <1>1, <1>3 DEF OfFeed, OnKalshi
<1>5. IsBook(state[b]) /\ state[b].baseline = state[b].snapshot /\ b \notin {} /\ 0 \in Nat
  BY <1>1, <1>3
<1>6. reason = "periodic" => state[b] = ladders[b] /\ state[b].snapshot
  BY <1>3
<1>7. Staging(g, rows, x, [ladders EXCEPT ![b] = state[b]], {} \cup {b}, top2)
  <2>1. PICK k, done : k \in Nat /\ k = 0 /\ done = {}
    OBVIOUS
  <2>2. k \in Nat /\ Reads(g, rows, ladders, epochs, k, done, top) /\ x = CheckpointRows(state, epochs, b, k, reason) /\ b \notin done
    BY <2>1
  <2>3. Staging(g, rows, x, [ladders EXCEPT ![b] = state[b]], done \cup {b}, top2)
    BY <1>3, <1>4, <1>5, <1>6, <2>2, CheckpointRowsRead
  <2> QED  BY <2>1, <2>3
<1> QED  BY <1>1, <1>2, <1>7

\* A message with deltas is staged.
LEMMA DeltaMessage ==
  ASSUME NEW g, OfFeed(g), NEW rows, NEW ladders, AreBooks(ladders), IsTracker(epochs),
         feed.seq \in Nat, NEW top2 \in Nat, Reads(g, rows, ladders, epochs, 0, {}, feed.seq),
         OnKalshi => Frame <= top2, NEW change \in Change,
         NEW touched \in (SUBSET TapeBooks) \ {{}}, OnKalshi => Cardinality(touched) = 1,
         NEW state, state = [b \in TapeBooks |-> IF b \in touched THEN Touched(ladders[b], change) ELSE ladders[b]]
  PROVE  AreBooks(state) /\ \E done : Staging(g, rows, DeltasOf(state, touched, change), state, done, top2)
<1>0. Frame \in Nat /\ Frame # None /\ feed.seq < Frame /\ IsRows(rows) /\ IsGround(g) /\ TapeBooks = {1, 2}
  <2>1. Frame \in Nat /\ Frame # 0 /\ feed.seq < Frame
    BY DEF Frame
  <2> QED  BY <2>1 DEF None, Reads, GroupWritten, OfFeed, TapeBooks
<1>1. PICK nil : nil = NothingYet /\ Staging(g, rows, nil, ladders, {}, feed.seq) /\ nil.cursor = 0
  BY <1>0, NothingStages
<1>2. PICK x : /\ x = DeltaPart(nil, state, touched, change, 1)
               /\ DeltasOf(state, touched, change) = DeltaPart(x, state, touched, change, 2)
  BY <1>1, DeltasAre
<1>3. touched = {1} \/ touched = {2} \/ touched = {1, 2}
  BY <1>0
<1>4. PICK y : y = DeltasOf(state, touched, change)
  OBVIOUS
<1>5. ASSUME NEW b \in TapeBooks, touched = {b}
      PROVE  AreBooks(state) /\ \E done : Staging(g, rows, y, state, done, top2)
  <2>1. y = Prolonged(nil, DeltaRows(state, nil.tracker, b, nil.cursor, Mutations(state[b], change)))
    <3>1. CASE b = 1
      <4>1. 2 \notin touched /\ 1 \in touched
        BY <1>5, <3>1
      <4> QED  BY <1>2, <1>4, <3>1, <4>1 DEF DeltaPart
    <3>2. CASE b = 2
      <4>1. 1 \notin touched /\ 2 \in touched
        BY <1>5, <3>2
      <4> QED  BY <1>2, <1>4, <3>2, <4>1 DEF DeltaPart
    <3> QED  BY <1>0, <3>1, <3>2
  <2>2. state[b] = Touched(ladders[b], change)
    BY <1>5
  <2>3. DeltaStages(g, rows, nil, ladders, b, change, feed.seq, y, top2, {})
    <3>1. OnKalshi => nil.cursor = 0 /\ Frame # None /\ feed.seq < Frame /\ Frame <= top2
      BY <1>0, <1>1
    <3>2. PICK done : done = {}
      OBVIOUS
    <3>3. b \notin done /\ Staging(g, rows, nil, ladders, done, feed.seq)
      BY <1>1, <3>2
    <3>4. DeltaStages(g, rows, nil, ladders, b, change, feed.seq, y, top2, done)
      BY <1>0, <2>1, <2>2, <3>1, <3>3, DeltaIsStaged
    <3> QED  BY <3>2, <3>4
  <2>4. PICK new : new = [ladders EXCEPT ![b] = Touched(ladders[b], change)]
    OBVIOUS
  <2>5. new = state
    <3>1. ladders = [a \in TapeBooks |-> ladders[a]]
      BY DEF AreBooks
    <3>2. new = [a \in TapeBooks |-> IF a = b THEN Touched(ladders[a], change) ELSE ladders[a]]
      BY <2>4, <3>1
    <3>3. \A a \in TapeBooks : a = b <=> a \in touched
      BY <1>5
    <3> QED  BY <3>2, <3>3
  <2>6. AreBooks(new) /\ Staging(g, rows, y, new, {} \cup {b}, top2)
    BY <2>3, <2>4 DEF DeltaStages
  <2> QED  BY <2>5, <2>6
<1>6. CASE touched = {1, 2}
  <2>1. ~OnKalshi
    <3>1. Cardinality(1 .. 2) = 2
      <4>1. 1 \in Int /\ 2 \in Int
        OBVIOUS
      <4>2. Cardinality(1 .. 2) = IF 1 > 2 THEN 0 ELSE 2 - 1 + 1
        BY <4>1, FS_Interval
      <4> QED  BY <4>2
    <3>2. 1 .. 2 = {1, 2}
      OBVIOUS
    <3> QED  BY <1>6, <3>1, <3>2
  <2>2. 1 \in TapeBooks /\ 2 \in TapeBooks /\ 1 \in touched /\ 2 \in touched /\ 1 \notin {} /\ 2 \notin {1}
    BY <1>0, <1>6
  <2>3. /\ x = Prolonged(nil, DeltaRows(state, nil.tracker, 1, nil.cursor, Mutations(state[1], change)))
        /\ y = Prolonged(x, DeltaRows(state, x.tracker, 2, x.cursor, Mutations(state[2], change)))
    BY <1>2, <1>4, <2>2 DEF DeltaPart
  <2>4. state[1] = Touched(ladders[1], change) /\ state[2] = Touched(ladders[2], change)
    BY <2>2
  <2>5. DeltaStages(g, rows, nil, ladders, 1, change, feed.seq, x, top2, {})
    <3>1. PICK b \in TapeBooks : b = 1
      BY <2>2
    <3>0. PICK done : done = {}
      OBVIOUS
    <3>2. b \notin done /\ Staging(g, rows, nil, ladders, done, feed.seq)
      BY <1>1, <3>0, <3>1
    <3>3. state[b] = Touched(ladders[b], change)
          /\ x = Prolonged(nil, DeltaRows(state, nil.tracker, b, nil.cursor, Mutations(state[b], change)))
      BY <2>3, <2>4, <3>1
    <3>4. OnKalshi => nil.cursor = 0 /\ Frame # None /\ feed.seq < Frame /\ Frame <= top2
      BY <2>1
    <3>5. DeltaStages(g, rows, nil, ladders, b, change, feed.seq, x, top2, done)
      BY <1>0, <3>2, <3>3, <3>4, DeltaIsStaged
    <3> QED  BY <3>0, <3>1, <3>5
  <2>6. PICK new : new = [ladders EXCEPT ![1] = Touched(ladders[1], change)]
    OBVIOUS
  <2>7. AreBooks(new) /\ Staging(g, rows, x, new, {} \cup {1}, top2)
    BY <2>5, <2>6 DEF DeltaStages
  <2>8. new[2] = ladders[2]
    BY <2>2, <2>6 DEF AreBooks
  <2>9. DeltaStages(g, rows, x, new, 2, change, top2, y, top2, {1})
    <3>1. PICK b \in TapeBooks : b = 2
      BY <2>2
    <3>0. PICK done : done = {1}
      OBVIOUS
    <3>2. b \notin done /\ Staging(g, rows, x, new, done, top2)
      <4>1. {} \cup {1} = {1}
        OBVIOUS
      <4> QED  BY <2>7, <3>0, <3>1, <4>1
    <3>3. state[b] = Touched(new[b], change)
          /\ y = Prolonged(x, DeltaRows(state, x.tracker, b, x.cursor, Mutations(state[b], change)))
      BY <2>3, <2>4, <2>8, <3>1
    <3>4. OnKalshi => x.cursor = 0 /\ Frame # None /\ top2 < Frame /\ Frame <= top2
      BY <2>1
    <3>5. DeltaStages(g, rows, x, new, b, change, top2, y, top2, done)
      BY <1>0, <2>7, <3>2, <3>3, <3>4, DeltaIsStaged
    <3> QED  BY <3>0, <3>1, <3>5
  <2>10. PICK both : both = [new EXCEPT ![2] = Touched(new[2], change)]
    OBVIOUS
  <2>11. AreBooks(both) /\ Staging(g, rows, y, both, {1} \cup {2}, top2)
    BY <2>9, <2>10 DEF DeltaStages
  <2>12. both = state
    <3>1. both[2] = state[2] /\ both[1] = state[1]
      BY <2>2, <2>4, <2>6, <2>7, <2>8, <2>10 DEF AreBooks
    <3>2. both = [a \in TapeBooks |-> both[a]]
      BY <2>11 DEF AreBooks
    <3>3. state = [a \in TapeBooks |-> state[a]]
      OBVIOUS
    <3> QED  BY <1>0, <3>1, <3>2, <3>3
  <2> QED  BY <1>4, <2>11, <2>12
<1> QED  BY <1>0, <1>3, <1>4, <1>5, <1>6

\* A periodic checkpoint restates the books there are.
LEMMA PeriodIsStaged ==
  ASSUME NEW g, OfFeed(g), NEW rows, IsRows(rows), AreBooks(states), NEW x, NEW done, NEW top \in Nat,
         Staging(g, rows, x, states, done, top), NEW b \in TapeBooks, b \notin done,
         OnKalshi => \A a \in TapeBooks : states[a].snapshot => states[a].seq # None,
         NEW y, y = PeriodPart(x, b)
  PROVE  Staging(g, rows, y, states, done \cup {b}, top)
<1>1. PICK k, tr : k \in Nat /\ k = x.cursor /\ tr = x.tracker /\ IsTracker(tr)
  BY DEF Staging
<1>2. PICK some : some = rows \o x.rows
  OBVIOUS
<1>3. Reads(g, some, states, tr, k, done, top)
  BY <1>1, <1>2 DEF Staging
<1>4. CASE states[b].snapshot
  <2>1. PICK z, reason : z = CheckpointRows(states, tr, b, k, reason) /\ reason = "periodic"
    OBVIOUS
  <2>2. IsBook(states[b]) /\ states[b].baseline = states[b].snapshot
    BY <1>3 DEF AreBooks, Reads, Told, ChecksRead
  <2>3. g.venue = "kalshi" => /\ states[b].seq # None /\ top <= top
                              /\ reason # "periodic" => top < states[b].seq /\ states[b].seq <= top
    BY <1>4, <2>1 DEF OfFeed, OnKalshi
  <2>4. reason \in {"startup", "resync", "periodic"} /\ (reason = "periodic" => states[b] = states[b] /\ states[b].snapshot)
    BY <1>4, <2>1
  <2>5. Staging(g, some, z, [states EXCEPT ![b] = states[b]], done \cup {b}, top)
    BY <1>1, <1>3, <2>1, <2>2, <2>3, <2>4, CheckpointRowsRead
  <2>6. [states EXCEPT ![b] = states[b]] = states
    BY DEF AreBooks
  <2>7. y = Prolonged(x, z)
    BY <1>1, <1>4, <2>1 DEF PeriodPart
  <2>8. Staging(g, rows \o x.rows, z, states, done \cup {b}, top)
    BY <1>2, <2>5, <2>6
  <2> QED  BY <2>7, <2>8, StagesJoin
<1>5. CASE ~states[b].snapshot
  <2>1. y = x
    BY <1>5 DEF PeriodPart
  <2>2. IsGround(g) /\ k <= k /\ done \subseteq done \cup {b} /\ (g.venue = "kalshi" => top <= top)
    BY <1>1 DEF OfFeed
  <2>3. Reads(g, some, states, tr, k, done \cup {b}, top)
    BY <1>1, <1>3, <2>2, ReadsLater
  <2> QED  BY <1>1, <1>2, <2>1, <2>3 DEF Staging
<1> QED  BY <1>4, <1>5

\* A periodic checkpoint is staged.
LEMMA PeriodMessage ==
  ASSUME NEW g, OfFeed(g), NEW rows, AreBooks(states), IsTracker(epochs), NEW top \in Nat,
         Reads(g, rows, states, epochs, 0, {}, top),
         OnKalshi => \A a \in TapeBooks : states[a].snapshot => states[a].seq # None
  PROVE  \E done : Staging(g, rows, PeriodicRows, states, done, top)
<1>0. IsRows(rows) /\ IsGround(g) /\ TapeBooks = {1, 2}
  BY DEF Reads, GroupWritten, OfFeed, TapeBooks
<1>1. PICK nil : nil = NothingYet /\ Staging(g, rows, nil, states, {}, top)
  BY <1>0, NothingStages
<1>2. PICK x : x = PeriodPart(nil, 1) /\ PeriodicRows = PeriodPart(x, 2)
  BY <1>1, PeriodIs
<1>3. Staging(g, rows, x, states, {1}, top)
  <2>1. PICK b \in TapeBooks : b = 1
    BY <1>0
  <2>2. PICK done : done = {}
    OBVIOUS
  <2>3. b \notin done /\ Staging(g, rows, nil, states, done, top) /\ x = PeriodPart(nil, b)
    BY <1>1, <1>2, <2>1, <2>2
  <2>4. Staging(g, rows, x, states, done \cup {b}, top)
    BY <1>0, <2>3, PeriodIsStaged
  <2>5. done \cup {b} = {1}
    BY <2>1, <2>2
  <2> QED  BY <2>4, <2>5
<1>4. PICK y : y = PeriodicRows
  OBVIOUS
<1>5. PICK b \in TapeBooks : b = 2
  BY <1>0
<1>6. PICK done : done = {1}
  OBVIOUS
<1>7. b \notin done /\ Staging(g, rows, x, states, done, top) /\ y = PeriodPart(x, b)
  BY <1>2, <1>3, <1>4, <1>5, <1>6
<1>8. Staging(g, rows, y, states, done \cup {b}, top)
  BY <1>0, <1>7, PeriodIsStaged
<1> QED  BY <1>4, <1>8

\* The row of a reconnection: the book is blank, the venue counts from one.
LEMMA LostIsTold ==
  ASSUME NEW g, IsGround(g), NEW e, NEW c, NEW owed, NEW ladders, AreBooks(ladders), NEW tr, IsTracker(tr),
         NEW k \in Nat, NEW done, NEW top \in Nat, Told(g, e, c, owed, ladders, tr, k, done, top),
         NEW row, row.book \in TapeBooks, row.at = <<g.local, k>>, row.kind = "invalidated",
         row.reason = "reconnect", row.venue = g.venue, row.epoch = tr.open[row.book],
         NEW book, IsBook(book), ~book.snapshot, ~book.baseline,
         NEW more, more = [ladders EXCEPT ![row.book] = book]
  PROVE  Told(g, Replayed(e, row), Checked(c, row), OwedMore(owed, row), more, Closed(tr, row.book), k + 1, done, 0)
<1> DEFINE b == row.book
<1>1. Checked(c, row) = c /\ OwedMore(owed, row) = owed
  <2>1. ~IsEvent(row)
    BY DEF IsEvent
  <2> QED  BY <2>1, ControlUnchecked
<1>2. PICK f : f = Replayed(e, row)
  OBVIOUS
<1>3. more[b] = book /\ \A x \in TapeBooks : x # b => more[x] = ladders[x]
  BY DEF AreBooks
<1>4. ChecksRead(c, more)
  <2>1. ChecksRead(c, ladders)
    BY DEF Told
  <2>2. ASSUME NEW x \in TapeBooks
        PROVE  more[x].baseline = more[x].snapshot /\ (more[x].baseline => c.books[x] = more[x].levels)
    <3>1. book.baseline = book.snapshot
      BY DEF IsBook
    <3> QED  BY <1>3, <2>1, <3>1 DEF ChecksRead
  <2> QED  BY <2>1, <2>2 DEF ChecksRead
<1>5. CASE e.error # <<>>
  <2>1. f = e
    BY <1>2, <1>5, StuckStays
  <2> QED  BY <1>1, <1>2, <1>4, <1>5, <2>1 DEF Told
<1>6. CASE e.error = <<>>
  <2>0. IsEngine(e) /\ EngineReads(g, e, owed, ladders, tr, k, done, top) /\ k <= k
    BY <1>6 DEF Told
  <2>1. Due1(e, row) /\ \A x : Read(e, x, row) => Beyond(x, g, k + 1)
    BY <1>6, <2>0, RowIsDue
  <2>2. BookSeen(e, b, g.venue, ladders[b], tr.last[b], tr.open[b])
    BY <2>0 DEF EngineReads
  <2>3. ControlRead(e, f, row) /\ Beyond(f, g, k + 1)
    <3>1. e.recovering[b] = <<>> /\ (row.epoch = None \/ row.epoch = e.open[b])
      BY <2>2 DEF BookSeen
    <3>2. row.kind \in {"invalidated", "ended"}
      OBVIOUS
    <3>3. ControlRead(e, f, row)
      BY <1>2, <2>1, <3>1, <3>2, ControlTaken
    <3> QED  BY <2>1, <3>3 DEF ControlRead
  <2>4. PICK t : t = Closed(tr, b)
    OBVIOUS
  <2>5. TrackerIs(tr, t, b, tr.last[b], None) /\ t.last = tr.last
    BY <2>4, OpenedIs
  <2>6. DOMAIN e.open = TapeBooks /\ tr.last[b] \in Nat
    BY <2>0 DEF IsEngine, IsTracker
  <2>7. ASSUME NEW x \in TapeBooks
        PROVE  BookSeen(f, x, g.venue, more[x], t.last[x], t.open[x])
    <3>1. BookSeen(e, x, g.venue, ladders[x], tr.last[x], tr.open[x])
      BY <2>0 DEF EngineReads
    <3>2. CASE x = b
      <4>1. f.open[x] = None /\ t.open[x] = None /\ t.open[x] <= t.last[x]
        BY <2>3, <2>5, <2>6, <3>2 DEF None, ControlRead, TrackerIs
      <4>2. ~more[x].snapshot
        BY <1>3, <3>2
      <4>3. f.recovering[x] = <<>>
        BY <2>3, <3>1 DEF ControlRead, BookSeen
      <4> QED  BY <4>1, <4>2, <4>3 DEF BookSeen
    <3>3. CASE x # b
      <4>1. f.open[x] = e.open[x] /\ t.open[x] = tr.open[x] /\ t.last[x] = tr.last[x] /\ f.native[x] = e.native[x]
            /\ f.bookSeq[x] = e.bookSeq[x] /\ f.recovering[x] = e.recovering[x]
        BY <2>3, <2>5, <2>6, <3>3 DEF ControlRead, TrackerIs
      <4>2. more[x] = ladders[x]
        BY <1>3, <3>3
      <4> QED  BY <3>1, <4>1, <4>2 DEF BookSeen
    <3> QED  BY <3>2, <3>3
  <2>8. g.venue = "kalshi" => f.shardSeq <= 0
    BY <2>3 DEF ControlRead, None
  <2>9. EngineReads(g, f, owed, more, t, k + 1, done, 0)
    <3>1. f.ended = {} /\ GivenOrHeld(f) = owed /\ f.pending = <<>>
      BY <2>0, <2>3 DEF EngineReads, ControlRead
    <3> QED  BY <2>3, <2>7, <2>8, <3>1 DEF EngineReads, Beyond
  <2> QED  BY <1>1, <1>2, <1>4, <1>6, <2>3, <2>4, <2>9 DEF Told, Read, ControlRead
<1> QED  BY <1>5, <1>6

\* The invalidation of a reconnection is read: the book is gone on both sides.
LEMMA LostReads ==
  ASSUME NEW g, IsGround(g), NEW rows, NEW ladders, AreBooks(ladders), NEW tr, IsTracker(tr),
         NEW k \in Nat, NEW done, NEW top \in Nat, Reads(g, rows, ladders, tr, k, done, top),
         NEW row, row.book \in TapeBooks, row.at = <<g.local, k>>, row.kind = "invalidated",
         row.reason = "reconnect", row.venue = g.venue, row.epoch = tr.open[row.book],
         NEW book, IsBook(book), ~book.snapshot, ~book.baseline,
         NEW more, more = [ladders EXCEPT ![row.book] = book]
  PROVE  Reads(g, Append(rows, row), more, Closed(tr, row.book), k + 1, done, 0)
<1>1. Evidenced(row, Append(rows, row))
  BY DEF Evidenced
<1>2. GroupWritten(g, rows, k) /\ IsRows(rows) /\ k <= k
  BY DEF Reads, GroupWritten
<1>3. GroupWritten(g, Append(rows, row), k + 1)
  BY <1>1, <1>2, RowWritten
<1>4. PICK e, c, d : e = Replays(g.run, rows) /\ c = Checks(Unchecked(g), rows) /\ d = Due(g.run.owed, rows)
  OBVIOUS
<1>5. Told(g, e, c, d, ladders, tr, k, done, top)
  BY <1>4 DEF Reads
<1>6. Told(g, Replayed(e, row), Checked(c, row), OwedMore(d, row), more, Closed(tr, row.book), k + 1, done, 0)
  BY <1>5, LostIsTold
<1>7. /\ Replays(g.run, Append(rows, row)) = Replayed(e, row)
      /\ Checks(Unchecked(g), Append(rows, row)) = Checked(c, row)
      /\ Due(g.run.owed, Append(rows, row)) = OwedMore(d, row)
  BY <1>2, <1>4, RowFolds
<1> QED  BY <1>3, <1>6, <1>7 DEF Reads

\* A control for each book, in turn.
LEMMA EachIs ==
  ASSUME NEW kind, NEW reason
  PROVE  ControlOfEach(kind, reason) = <<Control(kind, 1, 0, epochs.open[1], <<>>, reason),
                                         Control(kind, 2, 1, epochs.open[2], <<>>, reason)>>
<1>1. PICK c : c = [b \in TapeBooks |-> Control(kind, b, b - 1, epochs.open[b], <<>>, reason)]
  OBVIOUS
<1>2. 1 \in TapeBooks /\ 2 \in TapeBooks /\ 1 - 1 = 0 /\ 2 - 1 = 1
  BY DEF TapeBooks
<1>3. PICK x, y : x = Control(kind, 1, 0, epochs.open[1], <<>>, reason)
                  /\ y = Control(kind, 2, 1, epochs.open[2], <<>>, reason)
  OBVIOUS
<1>4. c[1] = x /\ c[2] = y
  BY <1>1, <1>2, <1>3
<1>5. c = [b \in 1 .. 2 |-> c[b]] /\ DOMAIN c = 1 .. 2
  BY <1>1 DEF TapeBooks
<1>6. PICK t : t = <<x, y>>
  OBVIOUS
<1>7. t[1] = x /\ t[2] = y /\ DOMAIN t = 1 .. 2 /\ t = [b \in 1 .. 2 |-> t[b]]
  BY <1>6
<1>8. \A b \in 1 .. 2 : b = 1 \/ b = 2
  OBVIOUS
<1>9. c = t
  BY <1>4, <1>5, <1>7, <1>8
<1> QED  BY <1>1, <1>3, <1>6, <1>9 DEF ControlOfEach

\* At the end of a run every epoch is closed.
LEMMA AllClosedIs ==
  ASSUME IsTracker(epochs)
  PROVE  AllClosed = Closed(Closed(epochs, 1), 2) /\ IsTracker(AllClosed)
<1>1. 1 \in TapeBooks /\ 2 \in TapeBooks /\ \A b \in TapeBooks : b = 1 \/ b = 2
  BY DEF TapeBooks
<1>2. PICK t : t = Closed(epochs, 1)
  OBVIOUS
<1>3. TrackerIs(epochs, t, 1, epochs.last[1], None) /\ t.last = epochs.last
  BY <1>1, <1>2, OpenedIs
<1>4. IsTracker(t) /\ t.open[1] = None
  BY <1>3 DEF TrackerIs
<1>5. PICK u : u = Closed(t, 2)
  OBVIOUS
<1>6. TrackerIs(t, u, 2, t.last[2], None) /\ u.last = t.last
  BY <1>1, <1>4, <1>5, OpenedIs
<1>7. IsTracker(u) /\ u.open[2] = None /\ u.open[1] = None /\ u.last = epochs.last
  BY <1>1, <1>3, <1>4, <1>6 DEF TrackerIs
<1>8. PICK n : n = [b \in TapeBooks |-> None]
  OBVIOUS
<1>9. u.open = n
  <2>1. u.open = [b \in TapeBooks |-> u.open[b]]
    BY <1>7 DEF IsTracker
  <2>2. \A b \in TapeBooks : u.open[b] = None
    BY <1>1, <1>7
  <2> QED  BY <1>8, <2>1, <2>2
<1>10. u = [last |-> epochs.last, open |-> n]
  BY <1>7, <1>9 DEF IsTracker
<1>11. AllClosed = [last |-> epochs.last, open |-> n]
  <2>1. PICK l, o : l = epochs.last /\ o = epochs.open
    OBVIOUS
  <2>2. epochs = [last |-> l, open |-> o]
    BY <2>1 DEF IsTracker
  <2>3. [epochs EXCEPT !.open = n] = [last |-> l, open |-> n]
    BY <2>2
  <2> QED  BY <1>8, <2>1, <2>3 DEF AllClosed
<1> QED  BY <1>2, <1>5, <1>7, <1>10, <1>11

\* A blank book is a book, without snapshot.
LEMMA BlankIs == IsBook(BlankBook) /\ ~BlankBook.snapshot /\ ~BlankBook.baseline
BY DEF BlankBook, IsBook, None

\* A reconnection is staged: every book is closed and blank.
LEMMA ReconnectMessage ==
  ASSUME NEW g, OfFeed(g), NEW rows, AreBooks(states), IsTracker(epochs), NEW top \in Nat,
         Reads(g, rows, states, epochs, 0, {}, top),
         NEW blank, blank = [b \in TapeBooks |-> BlankBook]
  PROVE  AreBooks(blank) /\ Reads(g, rows \o ControlOfEach("invalidated", "reconnect"), blank, AllClosed, 2, {}, 0)
<1>0. IsRows(rows) /\ IsGround(g) /\ g.venue = feed.venue /\ g.local = Local
  BY DEF Reads, GroupWritten, OfFeed
<1>1. 1 \in TapeBooks /\ 2 \in TapeBooks /\ \A b \in TapeBooks : b = 1 \/ b = 2
  BY DEF TapeBooks
<1>2. PICK c, d : /\ c = Control("invalidated", 1, 0, epochs.open[1], <<>>, "reconnect")
                  /\ d = Control("invalidated", 2, 1, epochs.open[2], <<>>, "reconnect")
  OBVIOUS
<1>3. /\ c.kind = "invalidated" /\ c.venue = g.venue /\ c.book = 1 /\ c.at = <<g.local, 0>>
      /\ c.reason = "reconnect" /\ c.epoch = epochs.open[1]
  BY <1>0, <1>2, ControlIs
<1>4. /\ d.kind = "invalidated" /\ d.venue = g.venue /\ d.book = 2 /\ d.at = <<g.local, 1>>
      /\ d.reason = "reconnect" /\ d.epoch = epochs.open[2]
  BY <1>0, <1>2, ControlIs
<1>5. rows \o ControlOfEach("invalidated", "reconnect") = Append(Append(rows, c), d)
  <2>1. ControlOfEach("invalidated", "reconnect") = <<c, d>>
    BY <1>2, EachIs
  <2>2. rows \o <<c, d>> = Append(Append(rows, c), d)
    BY <1>0, RowsJoin
  <2> QED  BY <2>1, <2>2
<1>6. PICK book : book = BlankBook
  OBVIOUS
<1>7. IsBook(book) /\ ~book.snapshot /\ ~book.baseline
  BY <1>6, BlankIs
<1>8. PICK more : more = [states EXCEPT ![1] = book]
  OBVIOUS
<1>9. AreBooks(more)
  BY <1>1, <1>7, <1>8, BooksChange
<1>10. PICK some, t : some = Append(rows, c) /\ t = Closed(epochs, 1)
  OBVIOUS
<1>11. Reads(g, some, more, t, 1, {}, 0)
  <2>1. c.book \in TapeBooks /\ more = [states EXCEPT ![c.book] = book] /\ c.epoch = epochs.open[c.book]
    BY <1>1, <1>3, <1>8
  <2>2. PICK k, done : k \in Nat /\ k = 0 /\ done = {}
    OBVIOUS
  <2>3. k \in Nat /\ Reads(g, rows, states, epochs, k, done, top) /\ c.at = <<g.local, k>>
    BY <1>3, <2>2
  <2>4. Reads(g, Append(rows, c), more, Closed(epochs, c.book), k + 1, done, 0)
    BY <1>0, <1>3, <1>7, <2>1, <2>3, LostReads
  <2>5. k + 1 = 1
    BY <2>2
  <2> QED  BY <1>3, <1>10, <2>2, <2>4, <2>5
<1>12. IsTracker(t) /\ t.open[2] = epochs.open[2]
  <2>1. TrackerIs(epochs, t, 1, epochs.last[1], None)
    BY <1>1, <1>10, OpenedIs
  <2> QED  BY <1>1, <2>1 DEF TrackerIs
<1>13. PICK both : both = [more EXCEPT ![2] = book]
  OBVIOUS
<1>14. AreBooks(both)
  BY <1>1, <1>7, <1>9, <1>13, BooksChange
<1>15. Reads(g, Append(some, d), both, Closed(t, 2), 2, {}, 0)
  <2>1. d.book \in TapeBooks /\ both = [more EXCEPT ![d.book] = book] /\ d.epoch = t.open[d.book]
    BY <1>1, <1>4, <1>12, <1>13
  <2>2. PICK k \in Nat : k = 1
    OBVIOUS
  <2>3. PICK done : done = {}
    OBVIOUS
  <2>7. PICK low \in Nat : low = 0
    OBVIOUS
  <2>4. Reads(g, some, more, t, k, done, low) /\ d.at = <<g.local, k>>
    BY <1>4, <1>11, <2>2, <2>3, <2>7
  <2>5. Reads(g, Append(some, d), both, Closed(t, d.book), k + 1, done, 0)
    BY <1>0, <1>4, <1>7, <1>9, <1>12, <2>1, <2>4, LostReads
  <2>6. k + 1 = 2
    BY <2>2
  <2> QED  BY <1>4, <2>3, <2>5, <2>6
<1>16. both = blank
  <2>1. both[2] = book
    BY <1>1, <1>9, <1>13 DEF AreBooks
  <2>2. both[1] = book
    BY <1>1, <1>8, <1>9, <1>13 DEF AreBooks
  <2>3. both = [b \in TapeBooks |-> both[b]]
    BY <1>14 DEF AreBooks
  <2> QED  BY <1>1, <1>6, <2>1, <2>2, <2>3
<1>17. AllClosed = Closed(t, 2)
  BY <1>10, AllClosedIs
<1> QED  BY <1>5, <1>10, <1>14, <1>15, <1>16, <1>17

-----------------------------------------------------------------------------
(* The end of a run, the commit of a group, and the invariant.              *)

\* The controls of the end close every book; nothing is left to emit.
LEMMA EndingRow ==
  ASSUME NEW e, IsEngine(e), e.error = <<>>, NEW row, row.kind = "ended", row.reason = "ended",
         row.book \in TapeBooks, row.book \notin e.ended, NEW l \in Nat, NEW j \in Nat, row.at = <<l, j>>,
         e.recovering[row.book] = <<>>, row.epoch = e.open[row.book],
         \A b \in TapeBooks : Behind(e.progress[b], <<l, j, 0>>),
         NEW f, f = Replayed(e, row)
  PROVE  /\ IsEngine(f) /\ f.error = <<>> /\ GivenOrHeld(f) = GivenOrHeld(e) /\ f.pending = <<>> /\ f.recovering = e.recovering
         /\ f.ended = e.ended \cup {row.book} /\ f.open = [e.open EXCEPT ![row.book] = None]
         /\ \A b \in TapeBooks : Behind(f.progress[b], <<l, j + 1, 0>>)
<1>1. PICK g : g = [venue |-> "kalshi", local |-> l]
  OBVIOUS
<1>2. IsGround(g) /\ g.local = l
  BY <1>1 DEF IsGround
<1>3. Beyond(e, g, j) /\ j <= j
  BY <1>2 DEF Beyond
<1>4. Due1(e, row) /\ \A x : Read(e, x, row) => Beyond(x, g, j + 1)
  BY <1>2, <1>3, RowIsNext
<1>5. row.kind \in {"invalidated", "ended"}
  OBVIOUS
<1>6. ControlRead(e, f, row)
  BY <1>4, <1>5, ControlTaken
<1>7. Beyond(f, g, j + 1)
  BY <1>4, <1>6 DEF ControlRead
<1> QED  BY <1>2, <1>6, <1>7 DEF ControlRead, Read, Beyond

\* A run that ends without an error ends with nothing wrong and nothing owed.
LEMMA RunEnds1 ==
  ASSUME NEW g, OfFeed(g), g.run = replay, IsTracker(epochs), NEW ladders, NEW top, replay.error = <<>>,
         Reads(g, <<>>, ladders, epochs, 0, {}, top),
         NEW e, e = Accounted(Finished(Replays(replay, Causal(ControlOfEach("ended", "ended")))), <<>>)
  PROVE  e.error = <<>> /\ e.wrong = FALSE /\ e.owed = <<>>
<1>0. IsGround(g) /\ g.local = Local /\ 1 \in TapeBooks /\ 2 \in TapeBooks /\ \A b \in TapeBooks : b = 1 \/ b = 2
  BY DEF OfFeed, TapeBooks
<1>1. IsEngine(replay) /\ EngineReads(g, replay, replay.owed, ladders, epochs, 0, {}, top)
  <2>1. Replays(replay, <<>>) = replay /\ Due(replay.owed, <<>>) = replay.owed
    BY ReplayNone, DueNone
  <2> QED  BY <2>1 DEF Reads, Told
<1>2. PICK l \in Nat : l = g.local
  BY <1>0 DEF IsGround
<1>3. PICK c, d : /\ c = Control("ended", 1, 0, epochs.open[1], <<>>, "ended")
                  /\ d = Control("ended", 2, 1, epochs.open[2], <<>>, "ended")
  OBVIOUS
<1>4. c.kind = "ended" /\ c.book = 1 /\ c.at = <<l, 0>> /\ c.reason = "ended" /\ c.epoch = epochs.open[1]
  BY <1>0, <1>2, <1>3, ControlIs
<1>5. d.kind = "ended" /\ d.book = 2 /\ d.at = <<l, 1>> /\ d.reason = "ended" /\ d.epoch = epochs.open[2]
  BY <1>0, <1>2, <1>3, ControlIs
<1>6. PICK rows : rows = <<c, d>>
  OBVIOUS
<1>7. Causal(rows) = rows
  <2>1. Len(rows) = 2 /\ rows[1] = c /\ rows[2] = d /\ DOMAIN rows = {1, 2} /\ rows \in Seq({c, d})
    BY <1>6
  <2>2. Range(rows) = {c, d}
    BY <2>1 DEF Range
  <2>3. IsRows(rows)
    BY <1>4, <1>5, <2>1, <2>2 DEF IsRows
  <2>4. Before(<<l, 0>>, <<l, 1>>)
    BY DEF Before
  <2>5. InTape(rows)
    <3>1. ASSUME NEW m \in DOMAIN rows, NEW n \in DOMAIN rows, m < n PROVE Before(rows[m].at, rows[n].at)
      <4>1. m = 1 /\ n = 2
        BY <2>1, <3>1
      <4> QED  BY <1>4, <1>5, <2>1, <2>4, <4>1
    <3> QED  BY <3>1 DEF InTape
  <2> QED  BY <2>3, <2>5, RowsAreOrdered
<1>8. PICK f, h : f = Replayed(replay, c) /\ h = Replayed(f, d)
  OBVIOUS
<1>9. Replays(replay, rows) = h
  <2>1. PICK S : S = {c, d}
    OBVIOUS
  <2>2. <<>> \in Seq(S) /\ <<c>> \in Seq(S) /\ c \in S /\ d \in S /\ Append(<<>>, c) = <<c>>
    BY <2>1
  <2>3. Append(<<c>>, d) = rows
    <3>1. IsRows(<<>>)
      <4>1. DOMAIN <<>> = {} /\ <<>> \in Seq(Range(<<>>))
        OBVIOUS
      <4> QED  BY <4>1 DEF IsRows
    <3> QED  BY <1>6, <3>1, RowsJoin
  <2>4. Replays(replay, <<>>) = replay
    BY ReplayNone
  <2>5. Replays(replay, <<c>>) = f
    <3>1. Replays(replay, Append(<<>>, c)) = Replayed(Replays(replay, <<>>), c)
      BY <2>2, ReplayStep
    <3> QED  BY <1>8, <2>2, <2>4, <3>1
  <2> QED  BY <1>8, <2>2, <2>3, <2>5, ReplayStep
<1>10. ASSUME NEW b \in TapeBooks
       PROVE  replay.recovering[b] = <<>> /\ replay.open[b] = epochs.open[b]
              /\ Behind(replay.progress[b], <<l, 0, 0>>)
  BY <1>1, <1>2 DEF EngineReads, BookSeen
<1>11. /\ IsEngine(f) /\ f.error = <<>> /\ GivenOrHeld(f) = GivenOrHeld(replay) /\ f.pending = <<>> /\ f.recovering = replay.recovering
       /\ f.ended = replay.ended \cup {c.book} /\ f.open = [replay.open EXCEPT ![c.book] = None]
       /\ \A b \in TapeBooks : Behind(f.progress[b], <<l, 0 + 1, 0>>)
  <2>1. c.book \in TapeBooks /\ c.book \notin replay.ended /\ replay.recovering[c.book] = <<>>
        /\ c.epoch = replay.open[c.book]
    BY <1>0, <1>1, <1>4, <1>10 DEF EngineReads
  <2>2. PICK j \in Nat : j = 0
    OBVIOUS
  <2>3. c.at = <<l, j>> /\ \A b \in TapeBooks : Behind(replay.progress[b], <<l, j, 0>>)
    BY <1>4, <1>10, <2>2
  <2> QED  BY <1>1, <1>4, <1>8, <2>1, <2>2, <2>3, EndingRow
<1>12. f.ended = {1} /\ f.open[1] = None /\ f.open[2] = replay.open[2]
  <2>1. replay.ended = {} /\ DOMAIN replay.open = TapeBooks
    BY <1>1 DEF EngineReads, IsEngine
  <2> QED  BY <1>0, <1>4, <1>11, <2>1
<1>13. /\ IsEngine(h) /\ h.error = <<>> /\ GivenOrHeld(h) = GivenOrHeld(f) /\ h.pending = <<>> /\ h.recovering = f.recovering
       /\ h.ended = f.ended \cup {d.book} /\ h.open = [f.open EXCEPT ![d.book] = None]
       /\ \A b \in TapeBooks : Behind(h.progress[b], <<l, 1 + 1, 0>>)
  <2>1. d.book \in TapeBooks /\ d.book \notin f.ended /\ f.recovering[d.book] = <<>>
        /\ d.epoch = f.open[d.book]
    BY <1>0, <1>5, <1>10, <1>11, <1>12
  <2>2. PICK j \in Nat : j = 1 /\ j = 0 + 1
    OBVIOUS
  <2>3. d.at = <<l, j>> /\ \A b \in TapeBooks : Behind(f.progress[b], <<l, j, 0>>)
    BY <1>5, <1>11, <2>2
  <2>4. /\ IsEngine(h) /\ h.error = <<>> /\ GivenOrHeld(h) = GivenOrHeld(f) /\ h.pending = <<>> /\ h.recovering = f.recovering
        /\ h.ended = f.ended \cup {d.book} /\ h.open = [f.open EXCEPT ![d.book] = None]
        /\ \A b \in TapeBooks : Behind(h.progress[b], <<l, j + 1, 0>>)
    <3>1. IsEngine(f) /\ f.error = <<>> /\ d.kind = "ended" /\ d.reason = "ended"
      BY <1>5, <1>11
    <3>2. h = Replayed(f, d) /\ d.at = <<l, j>>
      BY <1>8, <2>3
    <3> QED  BY <2>1, <2>3, <3>1, <3>2, EndingRow
  <2>5. j = 1
    BY <2>2
  <2> QED  BY <2>4, <2>5
<1>14. h.ended = {1, 2} /\ \A b \in TapeBooks : h.open[b] = None /\ h.recovering[b] = <<>>
  <2>1. DOMAIN f.open = TapeBooks
    BY <1>11 DEF IsEngine
  <2> QED  BY <1>0, <1>5, <1>10, <1>11, <1>12, <1>13, <2>1
<1>15. PICK last : last = EmitPending(h)
  OBVIOUS
<1>16. IsEngine(last) /\ Alike(h, last) /\ last.out = GivenOrHeld(h) /\ last.pending = <<>>
  BY <1>13, <1>15, EmittedIs
<1>17. Finished(h) = last
  <2>1. last.heard \subseteq last.ended
    <3>1. last.heard \subseteq TapeBooks
      BY <1>16 DEF IsEngine
    <3>2. last.ended = {1, 2}
      BY <1>14, <1>16 DEF Alike
    <3> QED  BY <1>0, <3>1, <3>2
  <2>2. \A b \in TapeBooks : last.recovering[b] = <<>> /\ last.open[b] = None
    BY <1>14, <1>16 DEF Alike
  <2> QED  BY <1>15, <2>1, <2>2 DEF Finished
<1>18. PICK o : o = replay.owed
  OBVIOUS
<1>19. last.out = o /\ o \in Seq(Moments) /\ last.error = <<>>
  <2>1. GivenOrHeld(replay) = o
    BY <1>1, <1>18 DEF EngineReads
  <2> QED  BY <1>11, <1>13, <1>16, <2>1 DEF Alike, IsEngine
<1>20. e = Accounted(last, <<>>)
  <2>1. ControlOfEach("ended", "ended") = rows
    BY <1>3, <1>6, EachIs
  <2> QED  BY <1>7, <1>9, <1>17, <2>1
<1>21. Due(replay.owed, InOrder(<<>>)) = o
  <2>1. InOrder(<<>>) = <<>>
    <3>1. IsRows(<<>>) /\ InTape(<<>>)
      <4>1. DOMAIN <<>> = {} /\ <<>> \in Seq(Range(<<>>))
        OBVIOUS
      <4> QED  BY <4>1 DEF IsRows, InTape
    <3> QED  BY <3>1, RowsAreOrdered
  <2> QED  BY <1>18, <2>1, DueNone
<1>22. IsPrefix(last.out, o)
  BY <1>19 DEF IsPrefix
<1>23. SubSeq(o, Len(o) + 1, Len(o)) = <<>>
  BY <1>19
<1>24. e = [last EXCEPT !.out = <<>>, !.wrong = FALSE, !.owed = <<>>]
  BY <1>19, <1>20, <1>21, <1>22, <1>23 DEF Accounted
<1> QED  BY <1>16, <1>19, <1>24 DEF IsEngine

\* What a commit would find in the group and hand to the engine.
Ground == [venue |-> feed.venue, local |-> Local, run |-> replay, books |-> tape.committed]
FeedOk == feed \in [venue : {"polymarket", "kalshi"}, local : Nat, seq : Nat, ended : BOOLEAN]
Numbers == OnKalshi => \A b \in TapeBooks : states[b].snapshot => states[b].seq # None
StopsWell ==
  /\ \A row \in tape.refused : BaselessDelta(row)
  /\ replay.error # <<>> => Blamed(replay.error[1]) /\ OnKalshi
  /\ replay.wrong = FALSE
  /\ feed.ended /\ replay.error = <<>> => replay.owed = <<>>
\* Engine, coordinator and producers agree on the group written so far.
TapeHolds ==
  /\ FeedOk /\ AreBooks(states) /\ IsTracker(epochs) /\ DOMAIN tape = {"rows", "size", "committed", "refused"}
  /\ Numbers /\ StopsWell
  /\ Recording => Reads(Ground, tape.rows, states, epochs, 0, {}, feed.seq)

\* The ground of the group at hand.
LEMMA GroundIs ==
  ASSUME TapeHolds, NEW g, g = Ground
  PROVE  /\ OfFeed(g) /\ IsGround(g) /\ g.venue = feed.venue /\ g.local = Local /\ g.run = replay /\ g.books = tape.committed
         /\ feed.local \in Nat /\ feed.seq \in Nat /\ Local \in Nat
<1>1. feed.local \in Nat /\ feed.seq \in Nat /\ feed.venue \in {"polymarket", "kalshi"}
  BY DEF TapeHolds, FeedOk
<1>2. Local \in Nat
  BY <1>1 DEF Local
<1>3. g.venue = feed.venue /\ g.local = Local /\ g.run = replay /\ g.books = tape.committed
  BY DEF Ground
<1> QED  BY <1>1, <1>2, <1>3 DEF OfFeed, IsGround

\* A message has the next number.
LEMMA FeedMoves ==
  ASSUME TapeHolds, Listens, NEW n \in Nat, Numbered(n)
  PROVE  /\ FeedOk' /\ feed'.venue = feed.venue /\ feed'.local = Local /\ feed'.ended = FALSE
         /\ feed'.seq = (IF OnKalshi THEN n ELSE None) /\ OnKalshi' = OnKalshi
<1>1. PICK l, s : l = Local /\ s = (IF OnKalshi THEN n ELSE None)
  OBVIOUS
<1>2. l \in Nat /\ s \in Nat
  <2>1. feed.local + 1 \in Nat
    BY DEF TapeHolds, FeedOk
  <2> QED  BY <1>1, <2>1 DEF Local, None
<1>3. feed' = [feed EXCEPT !.local = l, !.seq = s]
  BY <1>1 DEF Numbered
<1>4. feed.ended = FALSE
  BY DEF Listens, Recording, TapeHolds, FeedOk
<1>5. feed'.venue = feed.venue /\ feed'.local = l /\ feed'.seq = s /\ feed'.ended = FALSE
  BY <1>3, <1>4 DEF TapeHolds, FeedOk
<1>6. FeedOk'
  BY <1>2, <1>3 DEF TapeHolds, FeedOk
<1>7. OnKalshi' = OnKalshi
  BY <1>5 DEF OnKalshi
<1> QED  BY <1>1, <1>5, <1>6, <1>7

\* A message that is read leaves a tape that can be committed.
LEMMA MovesOn ==
  ASSUME TapeHolds, Listens, NEW n \in Nat, Numbered(n), NEW x, Staged(x), AreBooks(states'), Numbers',
         IsTracker(x.tracker), NEW k \in Nat, NEW done, NEW top, top = feed'.seq, NEW g, g = Ground,
         Reads(g, tape.rows \o x.rows, states', x.tracker, k, done, top)
  PROVE  TapeHolds'
<1>1. /\ FeedOk' /\ feed'.venue = feed.venue /\ feed'.local = Local /\ feed'.ended = FALSE /\ OnKalshi' = OnKalshi
  BY FeedMoves
<1>2. epochs' = x.tracker /\ replay' = replay
  BY DEF Staged, Listens
<1>3. DOMAIN tape' = {"rows", "size", "committed", "refused"} /\ tape'.rows = tape.rows \o x.rows
      /\ tape'.committed = tape.committed /\ tape'.refused = tape.refused
  BY DEF Staged, TapeHolds
<1>4. StopsWell'
  BY <1>1, <1>2, <1>3 DEF StopsWell, TapeHolds
<1>5. PICK h : h = Ground'
  OBVIOUS
<1>6. h.venue = g.venue /\ h.run = g.run /\ h.books = g.books /\ h.local = g.local + 1
  <2>1. Local' = Local + 1
    BY <1>1 DEF Local
  <2>2. h.venue = feed'.venue /\ h.local = Local' /\ h.run = replay' /\ h.books = tape'.committed
    BY <1>5 DEF Ground
  <2>3. g.venue = feed.venue /\ g.local = Local /\ g.run = replay /\ g.books = tape.committed
    BY DEF Ground
  <2> QED  BY <1>1, <1>2, <1>3, <2>1, <2>2, <2>3
<1>7. PICK rows, ladders, tr : rows = tape.rows \o x.rows /\ ladders = states' /\ tr = x.tracker
  OBVIOUS
<1>8. Reads(h, rows, ladders, tr, 0, {}, top)
  <2>1. IsGround(g) /\ Reads(g, rows, ladders, tr, k, done, top)
    BY <1>7, GroundIs
  <2> QED  BY <1>6, <2>1, NextMessage
<1>9. Reads(h, tape'.rows, states', epochs', 0, {}, feed'.seq)
  BY <1>2, <1>3, <1>7, <1>8
<1>10. IsTracker(epochs')
  BY <1>2
<1>11. Recording' => Reads(Ground', tape'.rows, states', epochs', 0, {}, feed'.seq)
  BY <1>5, <1>9
<1> QED  BY <1>1, <1>3, <1>4, <1>10, <1>11 DEF TapeHolds

\* A producer that listens has a group that reads.
LEMMA ListeningReads ==
  ASSUME TapeHolds, Listens, NEW g, g = Ground
  PROVE  Reads(g, tape.rows, states, epochs, 0, {}, feed.seq) /\ AreBooks(states) /\ IsTracker(epochs) /\ IsRows(tape.rows)
<1>1. Reads(g, tape.rows, states, epochs, 0, {}, feed.seq)
  BY DEF TapeHolds, Listens
<1> QED  BY <1>1 DEF TapeHolds, Reads, GroupWritten

\* Each action keeps the invariant: a snapshot.
LEMMA HearsSnapshotHolds ==
  ASSUME TapeHolds, NEW b \in TapeBooks, HearsSnapshot(b) PROVE TapeHolds'
<1>1. PICK levels \in SUBSET Levels, flaw \in BOOLEAN :
        /\ Listens
        /\ states' = [states EXCEPT ![b] =
             [levels |-> levels, snapshot |-> TRUE, flaw |-> flaw, baseline |-> TRUE, counted |-> TRUE,
              seq |-> IF OnKalshi THEN Frame ELSE None]]
        /\ Staged(CheckpointRows(states', epochs, b, 0, IF epochs.last[b] = None THEN "startup" ELSE "resync"))
        /\ Numbered(Frame)
  BY DEF HearsSnapshot
<1>2. PICK g : g = Ground
  OBVIOUS
<1>3. Reads(g, tape.rows, states, epochs, 0, {}, feed.seq) /\ AreBooks(states) /\ IsTracker(epochs)
  BY <1>1, <1>2, ListeningReads
<1>4. OfFeed(g) /\ feed.seq \in Nat
  BY <1>2, GroundIs
<1>5. PICK n \in Nat : n = Frame /\ n # None /\ feed.seq < n
  <2>1. Frame \in Nat /\ Frame # 0 /\ feed.seq < Frame
    BY <1>4 DEF Frame
  <2> QED  BY <2>1 DEF None
<1>6. FeedOk' /\ feed'.seq = (IF OnKalshi THEN n ELSE None) /\ OnKalshi' = OnKalshi
  BY <1>1, <1>5, FeedMoves
<1>7. PICK top2 \in Nat : top2 = feed'.seq
  <2>1. feed'.seq \in Nat
    BY <1>6 DEF None
  <2> QED  BY <2>1
<1>8. PICK book : book = [levels |-> levels, snapshot |-> TRUE, flaw |-> flaw, baseline |-> TRUE, counted |-> TRUE,
                          seq |-> IF OnKalshi THEN Frame ELSE None]
  OBVIOUS
<1>9. IsBook(book) /\ book.snapshot /\ book.baseline /\ book.seq = (IF OnKalshi THEN n ELSE None)
  <2>1. (IF OnKalshi THEN Frame ELSE None) \in Nat
    BY <1>5 DEF None
  <2> QED  BY <1>5, <1>8, <2>1 DEF IsBook
<1>10. PICK state, reason : state = states' /\ reason = IF epochs.last[b] = None THEN "startup" ELSE "resync"
  OBVIOUS
<1>11. state = [states EXCEPT ![b] = book] /\ reason \in {"startup", "resync"}
  BY <1>1, <1>8, <1>10
<1>12. PICK x : x = CheckpointRows(state, epochs, b, 0, reason)
  OBVIOUS
<1>13. OnKalshi => book.seq # None /\ feed.seq < book.seq /\ book.seq <= top2
  BY <1>5, <1>6, <1>7, <1>9
<1>14. AreBooks(state) /\ \E done : Staging(g, tape.rows, x, state, done, top2)
  <2>0. PICK top \in Nat : top = feed.seq
    BY <1>4
  <2>1. PICK rows, ladders : rows = tape.rows /\ ladders = states
    OBVIOUS
  <2>2. AreBooks(ladders) /\ Reads(g, rows, ladders, epochs, 0, {}, top) /\ state = [ladders EXCEPT ![b] = book]
    BY <1>3, <1>11, <2>0, <2>1
  <2>3. OnKalshi => book.seq # None /\ top < book.seq /\ book.seq <= top2
    BY <1>13, <2>0
  <2>4. AreBooks(state)
    BY <1>9, <2>2, BooksChange
  <2>5. \E done : Staging(g, rows, x, state, done, top2)
    BY <1>3, <1>4, <1>9, <1>11, <1>12, <2>2, <2>3, SnapshotMessage
  <2> QED  BY <2>1, <2>4, <2>5
<1>15. Staged(x) /\ Numbered(n)
  BY <1>1, <1>5, <1>10, <1>12
<1>16. Numbers'
  <2>1. \A a \in TapeBooks : a # b => states'[a] = states[a]
    BY <1>3, <1>10, <1>11 DEF AreBooks
  <2>2. states'[b] = book
    BY <1>3, <1>10, <1>11 DEF AreBooks
  <2>3. ASSUME OnKalshi, NEW a \in TapeBooks, states'[a].snapshot PROVE states'[a].seq # None
    BY <1>5, <1>9, <2>1, <2>2, <2>3 DEF TapeHolds, Numbers
  <2> QED  BY <1>6, <2>3 DEF Numbers
<1>17. PICK done : Staging(g, tape.rows, x, state, done, top2)
  BY <1>14
<1>18. IsTracker(x.tracker) /\ x.cursor \in Nat /\ Reads(g, tape.rows \o x.rows, states', x.tracker, x.cursor, done, top2)
  BY <1>10, <1>17 DEF Staging
<1>19. AreBooks(states')
  BY <1>10, <1>14
<1> QED  BY <1>1, <1>2, <1>7, <1>15, <1>16, <1>18, <1>19, MovesOn

\* Deltas.
LEMMA HearsDeltaHolds ==
  ASSUME TapeHolds, NEW change \in Change, HearsDelta(change) PROVE TapeHolds'
<1>1. PICK touched \in (SUBSET TapeBooks) \ {{}} :
        /\ Listens
        /\ OnKalshi => Cardinality(touched) = 1
        /\ states' = [b \in TapeBooks |-> IF b \in touched THEN Touched(states[b], change) ELSE states[b]]
        /\ Staged(DeltasOf(states', touched, change))
        /\ Numbered(Frame)
  BY DEF HearsDelta
<1>2. PICK g : g = Ground
  OBVIOUS
<1>3. Reads(g, tape.rows, states, epochs, 0, {}, feed.seq) /\ AreBooks(states) /\ IsTracker(epochs)
  BY <1>1, <1>2, ListeningReads
<1>4. OfFeed(g) /\ feed.seq \in Nat
  BY <1>2, GroundIs
<1>5. PICK n \in Nat : n = Frame /\ n # None
  <2>1. Frame \in Nat /\ Frame # 0
    BY <1>4 DEF Frame
  <2> QED  BY <2>1 DEF None
<1>6. FeedOk' /\ feed'.seq = (IF OnKalshi THEN n ELSE None) /\ OnKalshi' = OnKalshi
  BY <1>1, <1>5, FeedMoves
<1>7. PICK top2 \in Nat : top2 = feed'.seq
  <2>1. feed'.seq \in Nat
    BY <1>6 DEF None
  <2> QED  BY <2>1
<1>8. OnKalshi => Frame <= top2
  BY <1>5, <1>6, <1>7
<1>9. PICK state : state = states'
  OBVIOUS
<1>10. PICK ladders, rows : ladders = states /\ rows = tape.rows
  OBVIOUS
<1>11. state = [b \in TapeBooks |-> IF b \in touched THEN Touched(ladders[b], change) ELSE ladders[b]]
  BY <1>1, <1>9, <1>10
<1>12. AreBooks(state) /\ \E done : Staging(g, rows, DeltasOf(state, touched, change), state, done, top2)
  <2>1. AreBooks(ladders) /\ Reads(g, rows, ladders, epochs, 0, {}, feed.seq)
    BY <1>3, <1>10
  <2>2. OnKalshi => Cardinality(touched) = 1
    BY <1>1
  <2>3. AreBooks(state)
    BY <1>3, <1>4, <1>8, <1>11, <2>1, <2>2, DeltaMessage
  <2>4. \E done : Staging(g, rows, DeltasOf(state, touched, change), state, done, top2)
    BY <1>3, <1>4, <1>8, <1>11, <2>1, <2>2, DeltaMessage
  <2> QED  BY <2>3, <2>4
<1>13. PICK x : x = DeltasOf(state, touched, change)
  OBVIOUS
<1>14. Staged(x) /\ Numbered(n)
  BY <1>1, <1>5, <1>9, <1>13
<1>15. Numbers'
  <2>1. ASSUME OnKalshi, NEW a \in TapeBooks, states'[a].snapshot PROVE states'[a].seq # None
    <3>1. CASE a \in touched
      <4>1. PICK t : t = states'[a] /\ t = Touched(states[a], change)
        BY <1>1, <3>1
      <4>2. t.seq = (IF OnKalshi THEN Frame ELSE None)
        BY <1>3, <1>5, <4>1, TouchedIs DEF AreBooks
      <4> QED  BY <1>5, <2>1, <4>1, <4>2
    <3>2. CASE a \notin touched
      <4>1. states'[a] = states[a]
        BY <1>1, <3>2
      <4> QED  BY <2>1, <4>1 DEF TapeHolds, Numbers
    <3> QED  BY <3>1, <3>2
  <2> QED  BY <1>6, <2>1 DEF Numbers
<1>16. PICK done : Staging(g, rows, x, state, done, top2)
  BY <1>12, <1>13
<1>17. IsTracker(x.tracker) /\ x.cursor \in Nat /\ Reads(g, tape.rows \o x.rows, states', x.tracker, x.cursor, done, top2)
  BY <1>9, <1>10, <1>16 DEF Staging
<1>18. AreBooks(states')
  BY <1>9, <1>12
<1> QED  BY <1>1, <1>2, <1>7, <1>14, <1>15, <1>17, <1>18, MovesOn

\* The periodic checkpoint.
LEMMA WritesCheckpointHolds == ASSUME TapeHolds, WritesCheckpoint PROVE TapeHolds'
<1>1. Listens /\ Staged(PeriodicRows) /\ Numbered(feed.seq) /\ states' = states
  BY DEF WritesCheckpoint
<1>2. PICK g : g = Ground
  OBVIOUS
<1>3. Reads(g, tape.rows, states, epochs, 0, {}, feed.seq) /\ AreBooks(states) /\ IsTracker(epochs) /\ IsRows(tape.rows)
  BY <1>1, <1>2, ListeningReads
<1>4. OfFeed(g) /\ feed.seq \in Nat /\ IsGround(g) /\ g.venue = feed.venue
  BY <1>2, GroundIs
<1>5. FeedOk' /\ feed'.seq = (IF OnKalshi THEN feed.seq ELSE None) /\ OnKalshi' = OnKalshi
  BY <1>1, <1>4, FeedMoves
<1>6. PICK top2 \in Nat : top2 = feed'.seq
  <2>1. feed'.seq \in Nat
    BY <1>4, <1>5 DEF None
  <2> QED  BY <2>1
<1>7. PICK rows : rows = tape.rows
  OBVIOUS
<1>15. PICK top \in Nat : top = feed.seq
  BY <1>4
<1>8. Reads(g, rows, states, epochs, 0, {}, top2)
  <2>1. Reads(g, rows, states, epochs, 0, {}, top)
    BY <1>3, <1>7, <1>15
  <2>2. g.venue = "kalshi" => top <= top2
    BY <1>4, <1>5, <1>6, <1>15 DEF OnKalshi
  <2>3. PICK k \in Nat : k = 0 /\ k <= k
    OBVIOUS
  <2>4. Reads(g, rows, states, epochs, k, {}, top)
    BY <2>1, <2>3
  <2>5. {} \subseteq {}
    OBVIOUS
  <2>6. Reads(g, rows, states, epochs, k, {}, top2)
    BY <1>4, <2>2, <2>3, <2>4, <2>5, ReadsLater
  <2> QED  BY <2>3, <2>6
<1>9. \E done : Staging(g, rows, PeriodicRows, states, done, top2)
  BY <1>3, <1>4, <1>8, PeriodMessage DEF TapeHolds, Numbers
<1>10. PICK x : x = PeriodicRows
  OBVIOUS
<1>11. PICK done : Staging(g, rows, x, states, done, top2)
  BY <1>9, <1>10
<1>12. IsTracker(x.tracker) /\ x.cursor \in Nat /\ Reads(g, tape.rows \o x.rows, states', x.tracker, x.cursor, done, top2)
  BY <1>1, <1>7, <1>11 DEF Staging
<1>13. Numbers'
  BY <1>1, <1>5 DEF TapeHolds, Numbers
<1>14. AreBooks(states') /\ Staged(x) /\ feed.seq \in Nat
  BY <1>1, <1>3, <1>4, <1>10
<1> QED  BY <1>1, <1>2, <1>6, <1>12, <1>13, <1>14, MovesOn

\* Reconnection.
LEMMA HearsReconnectHolds == ASSUME TapeHolds, HearsReconnect PROVE TapeHolds'
<1>1. /\ Listens /\ states' = [b \in TapeBooks |-> BlankBook] /\ Numbered(0)
      /\ Staged([tracker |-> AllClosed, rows |-> ControlOfEach("invalidated", "reconnect")])
  BY DEF HearsReconnect
<1>2. PICK g : g = Ground
  OBVIOUS
<1>3. Reads(g, tape.rows, states, epochs, 0, {}, feed.seq) /\ AreBooks(states) /\ IsTracker(epochs)
  BY <1>1, <1>2, ListeningReads
<1>4. OfFeed(g) /\ feed.seq \in Nat
  BY <1>2, GroundIs
<1>5. PICK n \in Nat : n = 0
  OBVIOUS
<1>6. feed'.seq = 0 /\ Numbered(n)
  <2>1. Numbered(n)
    BY <1>1, <1>5
  <2>2. feed'.seq = (IF OnKalshi THEN n ELSE None)
    BY <1>1, <2>1, FeedMoves
  <2> QED  BY <1>5, <2>1, <2>2 DEF None
<1>7. PICK rows, blank : rows = tape.rows /\ blank = states'
  OBVIOUS
<1>16. PICK top \in Nat : top = feed.seq
  BY <1>4
<1>8. AreBooks(blank) /\ Reads(g, rows \o ControlOfEach("invalidated", "reconnect"), blank, AllClosed, 2, {}, 0)
  <2>1. blank = [b \in TapeBooks |-> BlankBook] /\ Reads(g, rows, states, epochs, 0, {}, top)
    BY <1>1, <1>3, <1>7, <1>16
  <2> QED  BY <1>3, <1>4, <2>1, ReconnectMessage
<1>9. PICK x : x = [tracker |-> AllClosed, rows |-> ControlOfEach("invalidated", "reconnect")]
  OBVIOUS
<1>10. x.tracker = AllClosed /\ x.rows = ControlOfEach("invalidated", "reconnect") /\ IsTracker(AllClosed)
  BY <1>3, <1>9, AllClosedIs
<1>11. PICK k \in Nat : k = 2
  OBVIOUS
<1>12. PICK low : low = feed'.seq
  OBVIOUS
<1>13. Reads(g, tape.rows \o x.rows, states', x.tracker, k, {}, low) /\ IsTracker(x.tracker)
  BY <1>6, <1>7, <1>8, <1>10, <1>11, <1>12
<1>14. Numbers'
  <2>1. \A a \in TapeBooks : ~states'[a].snapshot
    BY <1>1, BlankIs
  <2> QED  BY <2>1 DEF Numbers
<1>15. AreBooks(states') /\ Staged(x)
  BY <1>1, <1>7, <1>8, <1>9
<1> QED  BY <1>1, <1>2, <1>6, <1>12, <1>13, <1>14, <1>15, MovesOn

\* What an engine gives out of what it has to: all but the pending moment.
Given(e, f) ==
  /\ f.open = e.open /\ f.native = e.native /\ f.recovering = e.recovering /\ f.ended = e.ended
  /\ f.progress = e.progress /\ f.pending = e.pending /\ f.error = e.error
  /\ f.shardSeq = e.shardSeq /\ f.bookSeq = e.bookSeq
  /\ f.wrong = FALSE /\ IsEngine(f) /\ (f.error = <<>> => GivenOrHeld(f) = f.owed)
\* What came out is what was owed, in order.
LEMMA AccountedIs ==
  ASSUME NEW e, IsEngine(e), NEW rows, NEW o, o = Due(replay.owed, InOrder(rows)), NEW f, f = Accounted(e, rows),
         e.error = <<>> => GivenOrHeld(e) = o
  PROVE  Given(e, f)
<1>1. ASSUME e.error = <<>>
      PROVE  IsPrefix(e.out, o) /\ SubSeq(o, Len(e.out) + 1, Len(o)) = (IF e.pending = <<>> THEN <<>> ELSE <<e.pending[2]>>)
  <2>1. PICK s \in Seq(Moments) : s = e.out
    BY DEF IsEngine
  <2>2. CASE e.pending = <<>>
    <3>1. o = s
      BY <1>1, <2>1, <2>2 DEF GivenOrHeld
    <3>2. IsPrefix(s, s) /\ SubSeq(s, Len(s) + 1, Len(s)) = <<>>
      BY DEF IsPrefix
    <3> QED  BY <2>1, <2>2, <3>1, <3>2
  <2>3. CASE e.pending # <<>>
    <3>1. PICK m \in Moments : m = e.pending[2]
      BY <2>3 DEF IsEngine
    <3>2. o = Append(s, m)
      BY <1>1, <2>1, <2>3, <3>1 DEF GivenOrHeld
    <3>3. PICK t \in Seq(Moments) : t = Append(s, m)
      <4>1. Append(s, m) \in Seq(Moments)
        OBVIOUS
      <4> QED  BY <4>1
    <3>4. Len(t) = Len(s) + 1 /\ t[Len(s) + 1] = m /\ \A i \in 1 .. Len(s) : t[i] = s[i]
      BY <3>3
    <3>5. IsPrefix(s, t)
      BY <3>4 DEF IsPrefix
    <3>6. SubSeq(t, Len(s) + 1, Len(t)) = <<m>>
      <4>1. PICK n \in Nat : n = Len(s) + 1 /\ Len(t) = n /\ n \in 1 .. Len(t)
        BY <3>4
      <4>2. PICK u : u = SubSeq(t, n, n)
        OBVIOUS
      <4>3. u \in Seq(Moments) /\ Len(u) = 1 /\ u[1] = t[n]
        <5>1. n - n + 1 = 1 /\ n + 1 - 1 = n /\ n \in 1 .. Len(t) + 1 /\ n \in n - 1 .. Len(t) /\ 1 \in 1 .. 1
          BY <4>1
        <5> QED  BY <4>1, <4>2, <5>1, SubSeqProperties
      <4>4. u = <<m>>
        BY <3>4, <4>1, <4>3
      <4> QED  BY <4>1, <4>2, <4>4
    <3> QED  BY <2>1, <2>3, <3>1, <3>2, <3>3, <3>5, <3>6
  <2> QED  BY <2>2, <2>3
<1>2. PICK w : w = IF e.error = <<>> /\ IsPrefix(e.out, o) THEN SubSeq(o, Len(e.out) + 1, Len(o)) ELSE <<>>
  OBVIOUS
<1>3. f = [e EXCEPT !.out = <<>>, !.wrong = FALSE, !.owed = w]
  <2>1. (e.error = <<>> /\ ~IsPrefix(e.out, o)) = FALSE
    BY <1>1
  <2> QED  BY <1>2, <2>1 DEF Accounted
<1>4. /\ DOMAIN f = DOMAIN e /\ f.open = e.open /\ f.native = e.native /\ f.recovering = e.recovering /\ f.ended = e.ended
      /\ f.heard = e.heard /\ f.progress = e.progress /\ f.pending = e.pending
  BY <1>3 DEF IsEngine
<1>5. f.out = <<>> /\ f.error = e.error /\ f.owed = w /\ f.shardSeq = e.shardSeq /\ f.bookSeq = e.bookSeq /\ f.wrong = FALSE
  BY <1>3 DEF IsEngine
<1>6. IsEngine(f)
  <2>1. f.out \in Seq(Moments)
    BY <1>5
  <2> QED  BY <1>4, <1>5, <2>1 DEF IsEngine
<1>7. f.error = <<>> => GivenOrHeld(f) = f.owed
  <2> SUFFICES ASSUME e.error = <<>> PROVE GivenOrHeld(f) = f.owed
    BY <1>5
  <2>1. w = (IF e.pending = <<>> THEN <<>> ELSE <<e.pending[2]>>)
    BY <1>1, <1>2
  <2>2. CASE e.pending = <<>>
    BY <1>4, <1>5, <2>1, <2>2 DEF GivenOrHeld
  <2>3. CASE e.pending # <<>>
    <3>1. PICK m \in Moments : m = e.pending[2]
      BY <2>3 DEF IsEngine
    <3>2. Append(<<>>, m) = <<m>>
      OBVIOUS
    <3> QED  BY <1>4, <1>5, <2>1, <2>3, <3>1, <3>2 DEF GivenOrHeld
  <2> QED  BY <2>2, <2>3
<1> QED  BY <1>4, <1>5, <1>6, <1>7 DEF Given

\* The group after a commit: nothing, on an engine that has read it.
LEMMA GroupCommitted ==
  ASSUME NEW g, IsGround(g), NEW rows, NEW ladders, NEW tr, NEW top, Reads(g, rows, ladders, tr, 0, {}, top),
         NEW e, e = Replays(g.run, rows), NEW c, c = Checks(Unchecked(g), rows), e.error = <<>>,
         NEW f, Given(e, f), GivenOrHeld(f) = f.owed,
         NEW h, h.venue = g.venue, h.local = g.local, h.run = f, h.books = c.books
  PROVE  Reads(h, <<>>, ladders, tr, 0, {}, top)
<1>1. GroupWritten(h, <<>>, 0)
  <2>1. DOMAIN <<>> = {} /\ <<>> \in Seq(Range(<<>>))
    OBVIOUS
  <2> QED  BY <2>1 DEF GroupWritten, IsRows, InTape
<1>2. PICK d : d = Due(g.run.owed, rows)
  OBVIOUS
<1>3. Told(g, e, c, d, ladders, tr, 0, {}, top)
  BY <1>2 DEF Reads
<1>4. EngineReads(g, e, d, ladders, tr, 0, {}, top) /\ IsEngine(e)
  BY <1>3 DEF Told
<1>5. /\ f.open = e.open /\ f.native = e.native /\ f.recovering = e.recovering /\ f.ended = e.ended
      /\ f.shardSeq = e.shardSeq /\ f.bookSeq = e.bookSeq /\ f.error = e.error
      /\ f.progress = e.progress /\ f.pending = e.pending /\ IsEngine(f)
  BY DEF Given
<1>6. \A b \in TapeBooks : BookSeen(f, b, h.venue, ladders[b], tr.last[b], tr.open[b])
  BY <1>4, <1>5 DEF EngineReads, BookSeen
<1>7. EngineReads(h, f, f.owed, ladders, tr, 0, {}, top)
  <2>1. \A b \in TapeBooks : Behind(f.progress[b], <<h.local, 0, 0>>)
    BY <1>4, <1>5 DEF EngineReads
  <2>2. f.pending # <<>> => f.pending[1][3] <= h.local /\ (f.pending[1][3] < h.local \/ f.pending[1][1] \in {})
    BY <1>4, <1>5 DEF EngineReads
  <2>3. h.venue = "kalshi" => f.shardSeq <= top
    BY <1>4, <1>5 DEF EngineReads
  <2>4. f.ended = {}
    BY <1>4, <1>5 DEF EngineReads
  <2> QED  BY <1>6, <2>1, <2>2, <2>3, <2>4 DEF EngineReads
<1>8. PICK u : u = Unchecked(h)
  OBVIOUS
<1>9. ChecksRead(u, ladders)
  <2>1. DOMAIN u = {"books", "refused"} /\ u.books = c.books /\ u.refused = {}
    BY <1>8 DEF Unchecked
  <2>2. ChecksRead(c, ladders)
    BY <1>3 DEF Told
  <2> QED  BY <2>1, <2>2 DEF ChecksRead
<1>10. Told(h, f, u, f.owed, ladders, tr, 0, {}, top)
  BY <1>5, <1>7, <1>9 DEF Told
<1>11. Replays(h.run, <<>>) = f /\ Checks(Unchecked(h), <<>>) = u /\ Due(h.run.owed, <<>>) = f.owed
  BY <1>8, ReplayNone, CheckNone, DueNone
<1> QED  BY <1>1, <1>10, <1>11 DEF Reads

\* The commit: the group was read row by row, so it is read at once.
LEMMA CommitsTapeHolds == ASSUME TapeHolds, CommitsTape PROVE TapeHolds'
<1>1. Recording /\ feed' = feed /\ states' = states /\ epochs' = epochs
  BY DEF CommitsTape
<1>2. PICK g : g = Ground
  OBVIOUS
<1>3. PICK rows, ladders, tr, top : rows = tape.rows /\ ladders = states /\ tr = epochs /\ top = feed.seq
  OBVIOUS
<1>4. Reads(g, rows, ladders, tr, 0, {}, top)
  BY <1>1, <1>2, <1>3 DEF TapeHolds
<1>5. IsGround(g) /\ g.venue = feed.venue /\ g.local = Local /\ g.run = replay /\ g.books = tape.committed
  BY <1>2, GroundIs
<1>6. PICK e, c, d : e = Replays(g.run, rows) /\ c = Checks(Unchecked(g), rows) /\ d = Due(g.run.owed, rows)
  OBVIOUS
<1>7. Told(g, e, c, d, ladders, tr, 0, {}, top) /\ GroupWritten(g, rows, 0)
  BY <1>4, <1>6 DEF Reads
<1>8. InOrder(rows) = rows /\ Causal(rows) = rows
  BY <1>7, RowsAreOrdered DEF GroupWritten
<1>9. PICK v : v = Validated
  OBVIOUS
<1>10. v.books = c.books /\ v.refused = c.refused
  <2>1. {r \in Range(rows) : ~Evidenced(r, rows)} = {}
    <3>1. \A n \in DOMAIN rows : Evidenced(rows[n], rows)
      BY <1>7 DEF GroupWritten
    <3> QED  BY <3>1 DEF Range
  <2>2. Checks([books |-> tape.committed, refused |-> {}], InOrder(tape.rows)) = c
    BY <1>3, <1>5, <1>6, <1>8 DEF Unchecked
  <2>3. PICK r : r = c.refused
    OBVIOUS
  <2>4. v = [c EXCEPT !.refused = r \cup {}]
    BY <1>3, <1>9, <2>1, <2>2, <2>3 DEF Validated
  <2>5. DOMAIN c = {"books", "refused"}
    BY <1>7 DEF Told, ChecksRead
  <2> QED  BY <2>3, <2>4, <2>5
<1>11. FeedOk' /\ AreBooks(states') /\ IsTracker(epochs') /\ Numbers' /\ OnKalshi' = OnKalshi
  BY <1>1 DEF TapeHolds, FeedOk, Numbers, OnKalshi
<1>12. CASE v.refused # {}
  <2>1. tape' = [tape EXCEPT !.refused = v.refused] /\ replay' = replay
    BY <1>9, <1>12 DEF CommitsTape
  <2>2. DOMAIN tape' = {"rows", "size", "committed", "refused"} /\ tape'.refused = v.refused
    BY <2>1 DEF TapeHolds
  <2>3. \A row \in tape'.refused : BaselessDelta(row)
    BY <1>7, <1>10, <2>2 DEF Told, ChecksRead
  <2>4. StopsWell'
    BY <1>1, <1>11, <2>1, <2>3 DEF StopsWell, TapeHolds
  <2>5. ~Recording'
    BY <1>12, <2>2 DEF Recording
  <2> QED  BY <1>11, <2>2, <2>4, <2>5 DEF TapeHolds
<1>13. CASE v.refused = {}
  <2>1. tape' = [tape EXCEPT !.rows = <<>>, !.size = 0, !.committed = v.books]
    BY <1>9, <1>13 DEF CommitsTape
  <2>2. replay' = Accounted(Replays(replay, Causal(tape.rows)), tape.rows)
    BY <1>9, <1>13 DEF CommitsTape
  <2>3. PICK f : f = Accounted(e, rows)
    OBVIOUS
  <2>4. replay' = f
    BY <1>3, <1>5, <1>6, <1>8, <2>2, <2>3
  <2>5. DOMAIN tape' = {"rows", "size", "committed", "refused"} /\ tape'.rows = <<>> /\ tape'.committed = c.books
        /\ tape'.refused = tape.refused
    BY <1>10, <2>1 DEF TapeHolds
  <2>6. d = Due(replay.owed, InOrder(rows)) /\ IsEngine(e)
    BY <1>5, <1>6, <1>7, <1>8 DEF Told
  <2>7. e.error = <<>> => GivenOrHeld(e) = d
    BY <1>7 DEF Told, EngineReads
  <2>11. Given(e, f)
    BY <2>3, <2>6, <2>7, AccountedIs
  <2>8. f.wrong = FALSE /\ (f.error = <<>> => GivenOrHeld(f) = f.owed) /\ f.error = e.error
    BY <2>11 DEF Given
  <2>9. StopsWell'
    <3>1. f.error # <<>> => Blamed(f.error[1]) /\ OnKalshi
      BY <1>5, <1>7, <2>8 DEF Told, OnKalshi
    <3>2. ~feed'.ended
      BY <1>1 DEF Recording
    <3>3. \A row \in tape'.refused : BaselessDelta(row)
      BY <2>5 DEF TapeHolds, StopsWell
    <3> QED  BY <1>11, <2>4, <2>8, <3>1, <3>2, <3>3 DEF StopsWell
  <2>10. Recording' => Reads(Ground', tape'.rows, states', epochs', 0, {}, feed'.seq)
    <3> SUFFICES ASSUME Recording' PROVE Reads(Ground', tape'.rows, states', epochs', 0, {}, feed'.seq)
      OBVIOUS
    <3>1. e.error = <<>> /\ GivenOrHeld(f) = f.owed
      BY <2>4, <2>8 DEF Recording
    <3>2. PICK h : h = Ground'
      OBVIOUS
    <3>3. h.venue = g.venue /\ h.local = g.local /\ h.run = f /\ h.books = c.books
      <4>1. Local' = Local
        BY <1>1 DEF Local
      <4>2. h.venue = feed'.venue /\ h.local = Local' /\ h.run = replay' /\ h.books = tape'.committed
        BY <3>2 DEF Ground
      <4> QED  BY <1>1, <1>5, <2>4, <2>5, <4>1, <4>2
    <3>4. Reads(h, <<>>, ladders, tr, 0, {}, top)
      BY <1>4, <1>5, <1>6, <2>11, <3>1, <3>3, GroupCommitted
    <3> QED  BY <1>1, <1>3, <2>5, <3>2, <3>4
  <2> QED  BY <1>11, <2>5, <2>9, <2>10 DEF TapeHolds
<1> QED  BY <1>12, <1>13

\* The end of the run.
LEMMA EndsTapeHolds == ASSUME TapeHolds, EndsTape PROVE TapeHolds'
<1>1. /\ Recording /\ tape.rows = <<>> /\ feed' = [feed EXCEPT !.local = Local, !.ended = TRUE]
      /\ epochs' = AllClosed /\ states' = states /\ tape' = tape
      /\ replay' = Accounted(Finished(Replays(replay, Causal(ControlOfEach("ended", "ended")))), <<>>)
  BY DEF EndsTape
<1>2. PICK g : g = Ground
  OBVIOUS
<1>3. OfFeed(g) /\ g.run = replay /\ Local \in Nat
  BY <1>2, GroundIs
<1>4. Reads(g, <<>>, states, epochs, 0, {}, feed.seq) /\ IsTracker(epochs) /\ replay.error = <<>>
  BY <1>1, <1>2 DEF TapeHolds, Recording
<1>5. PICK e : e = Accounted(Finished(Replays(replay, Causal(ControlOfEach("ended", "ended")))), <<>>)
  OBVIOUS
<1>6. e.error = <<>> /\ e.wrong = FALSE /\ e.owed = <<>>
  BY <1>3, <1>4, <1>5, RunEnds1
<1>7. replay'.error = <<>> /\ replay'.wrong = FALSE /\ replay'.owed = <<>>
  BY <1>1, <1>5, <1>6
<1>8. PICK l : l = Local
  OBVIOUS
<1>9. feed' = [feed EXCEPT !.local = l, !.ended = TRUE] /\ l \in Nat
  BY <1>1, <1>3, <1>8
<1>10. FeedOk' /\ feed'.venue = feed.venue /\ feed'.seq = feed.seq /\ feed'.ended
  BY <1>9 DEF TapeHolds, FeedOk
<1>11. OnKalshi' = OnKalshi
  BY <1>10 DEF OnKalshi
<1>12. Numbers' /\ AreBooks(states') /\ DOMAIN tape' = {"rows", "size", "committed", "refused"}
  BY <1>1, <1>11 DEF TapeHolds, Numbers
<1>13. IsTracker(epochs')
  BY <1>1, <1>4, AllClosedIs
<1>14. StopsWell'
  BY <1>1, <1>7 DEF TapeHolds, StopsWell
<1>15. ~Recording'
  BY <1>10 DEF Recording
<1> QED  BY <1>10, <1>12, <1>13, <1>14, <1>15 DEF TapeHolds

\* The invariant holds at the start ...
LEMMA TapeStarts == TapeInit => TapeHolds
<1> SUFFICES ASSUME TapeInit PROVE TapeHolds
  OBVIOUS
<1>1. FeedOk /\ feed.local = 0 /\ feed.seq = 0 /\ feed.ended = FALSE
  <2>1. feed \in [venue : {"polymarket", "kalshi"}, local : {0}, seq : {0}, ended : {FALSE}]
    BY DEF TapeInit
  <2>2. PICK v \in {"polymarket", "kalshi"} : feed = [venue |-> v, local |-> 0, seq |-> 0, ended |-> FALSE]
    BY <2>1
  <2>3. FeedOk
    BY <2>2 DEF FeedOk
  <2> QED  BY <2>2, <2>3
<1>2. AreBooks(states) /\ \A b \in TapeBooks : states[b] = BlankBook
  <2>1. states = [b \in TapeBooks |-> BlankBook]
    BY DEF TapeInit
  <2>2. \A b \in TapeBooks : states[b] = BlankBook
    BY <2>1
  <2>3. states = [b \in TapeBooks |-> states[b]] /\ DOMAIN states = TapeBooks
    BY <2>1
  <2> QED  BY <2>2, <2>3, BlankIs DEF AreBooks
<1>3. PICK n : n = [b \in TapeBooks |-> None]
  OBVIOUS
<1>4. epochs = [last |-> n, open |-> n] /\ n \in [TapeBooks -> Nat] /\ \A b \in TapeBooks : n[b] = None
  BY <1>3 DEF TapeInit, None
<1>5. IsTracker(epochs) /\ epochs.last = n /\ epochs.open = n
  BY <1>4 DEF IsTracker
<1>6. DOMAIN tape = {"rows", "size", "committed", "refused"} /\ tape.rows = <<>> /\ tape.refused = {}
      /\ DOMAIN tape.committed = TapeBooks
  BY DEF TapeInit
<1>7. Numbers
  BY <1>2, BlankIs DEF Numbers
<1>8. PICK r : r = replay
  OBVIOUS
<1>9. PICK p, q : p = [b \in TapeBooks |-> <<0, 0, 0>>] /\ q = [b \in TapeBooks |-> <<>>]
  OBVIOUS
<1>10. /\ DOMAIN r = {"open", "native", "recovering", "ended", "heard", "progress", "shardSeq", "bookSeq",
                      "pending", "out", "error", "owed", "wrong"}
       /\ r.open = n /\ r.recovering = q /\ r.ended = {} /\ r.heard = {} /\ r.progress = p /\ DOMAIN r.native = TapeBooks
  BY <1>3, <1>8, <1>9 DEF TapeInit
<1>11. /\ r.shardSeq = None /\ r.bookSeq = n /\ r.pending = <<>> /\ r.out = <<>> /\ r.error = <<>> /\ r.owed = <<>>
       /\ r.wrong = FALSE
  BY <1>3, <1>8 DEF TapeInit
<1>12. IsEngine(r)
  <2>1. p \in [TapeBooks -> Nat \X Nat \X Nat] /\ DOMAIN q = TapeBooks
    BY <1>9
  <2>2. <<>> \in Seq(Moments) /\ None \in Nat
    BY DEF None
  <2> QED  BY <1>4, <1>10, <1>11, <2>1, <2>2 DEF IsEngine
<1>13. StopsWell
  BY <1>1, <1>6, <1>8, <1>11 DEF StopsWell
<1>14. PICK g : g = Ground
  OBVIOUS
<1>15. g.run = r /\ g.local = 1 /\ g.books = tape.committed /\ g.venue = feed.venue
  <2>1. Local = 1
    BY <1>1 DEF Local
  <2> QED  BY <1>8, <1>14, <2>1 DEF Ground
<1>16. PICK u : u = Unchecked(g)
  OBVIOUS
<1>17. ChecksRead(u, states)
  <2>1. DOMAIN u = {"books", "refused"} /\ u.books = tape.committed /\ u.refused = {}
    BY <1>15, <1>16 DEF Unchecked
  <2>2. \A b \in TapeBooks : states[b].baseline = states[b].snapshot /\ ~states[b].baseline
    <3>1. PICK k : k = BlankBook
      OBVIOUS
    <3>2. k.baseline = FALSE /\ k.snapshot = FALSE
      BY <3>1 DEF BlankBook
    <3> QED  BY <1>2, <3>1, <3>2
  <2> QED  BY <1>6, <2>1, <2>2 DEF ChecksRead
<1>18. EngineReads(g, r, <<>>, states, epochs, 0, {}, 0)
  <2>1. ASSUME NEW b \in TapeBooks
        PROVE  /\ BookSeen(r, b, g.venue, states[b], epochs.last[b], epochs.open[b])
               /\ Behind(r.progress[b], <<g.local, 0, 0>>)
    <3>1. r.recovering[b] = <<>> /\ r.progress[b] = <<0, 0, 0>> /\ r.open[b] = None
      BY <1>4, <1>9, <1>10
    <3>2. epochs.last[b] = None /\ epochs.open[b] = None /\ ~states[b].snapshot
      BY <1>2, <1>4, <1>5, BlankIs
    <3>3. BookSeen(r, b, g.venue, states[b], epochs.last[b], epochs.open[b])
      BY <3>1, <3>2 DEF BookSeen, None
    <3>4. Behind(r.progress[b], <<g.local, 0, 0>>)
      BY <1>15, <3>1 DEF Behind
    <3> QED  BY <3>3, <3>4
  <2>2. GivenOrHeld(r) = <<>> /\ r.shardSeq <= 0
    BY <1>11 DEF GivenOrHeld, None
  <2> QED  BY <1>10, <1>11, <2>1, <2>2 DEF EngineReads
<1>19. Told(g, r, u, <<>>, states, epochs, 0, {}, 0)
  BY <1>11, <1>12, <1>15, <1>17, <1>18 DEF Told
<1>20. Replays(g.run, <<>>) = r /\ Checks(Unchecked(g), <<>>) = u /\ Due(g.run.owed, <<>>) = <<>>
  BY <1>11, <1>15, <1>16, ReplayNone, CheckNone, DueNone
<1>21. GroupWritten(g, <<>>, 0)
  <2>1. DOMAIN <<>> = {} /\ <<>> \in Seq(Range(<<>>))
    OBVIOUS
  <2> QED  BY <2>1 DEF GroupWritten, IsRows, InTape
<1>22. Reads(g, tape.rows, states, epochs, 0, {}, feed.seq)
  BY <1>1, <1>6, <1>19, <1>20, <1>21 DEF Reads
<1> QED  BY <1>1, <1>2, <1>5, <1>6, <1>7, <1>13, <1>14, <1>22 DEF TapeHolds

\* ... every step keeps it ...
LEMMA TapeStays == TapeHolds /\ [TapeNext]_tapeVars => TapeHolds'
<1> SUFFICES ASSUME TapeHolds, [TapeNext]_tapeVars PROVE TapeHolds'
  OBVIOUS
<1>1. CASE \E b \in TapeBooks : HearsSnapshot(b)
  BY <1>1, HearsSnapshotHolds
<1>2. CASE \E change \in Change : HearsDelta(change)
  BY <1>2, HearsDeltaHolds
<1>3. CASE WritesCheckpoint
  BY <1>3, WritesCheckpointHolds
<1>4. CASE HearsReconnect
  BY <1>4, HearsReconnectHolds
<1>5. CASE CommitsTape
  BY <1>5, CommitsTapeHolds
<1>6. CASE EndsTape
  BY <1>6, EndsTapeHolds
<1>7. CASE UNCHANGED tapeVars
  <2>1. feed' = feed /\ states' = states /\ epochs' = epochs /\ tape' = tape /\ replay' = replay
    BY <1>7 DEF tapeVars
  <2>2. Ground' = Ground /\ (Recording' <=> Recording)
    BY <2>1 DEF Ground, Recording, Local
  <2> QED  BY <2>1, <2>2 DEF TapeHolds, FeedOk, Numbers, StopsWell, OnKalshi
<1> QED  BY <1>1, <1>2, <1>3, <1>4, <1>5, <1>6, <1>7 DEF TapeNext

\* ... and it implies both halves of the property.
LEMMA TapeTells == TapeHolds => TapeIsReplayable /\ ReplayIsFaithful
BY DEF TapeHolds, StopsWell, TapeIsReplayable, ReplayIsFaithful, BaselessDelta, Blamed

\* The specification's initial states and steps are those of the tape.
LEMMA TapeBegins == Init => TapeInit
  BY DEF Init

\* The other commands leave the tape alone.
LEMMA TapeGoes == [Next]_commandVars => [TapeNext]_tapeVars
  BY DEF commandVars, Next, Capture, RunJobs, ResolveMarkets, SuperviseShard,
    ReadVenue, ReplayTape, UseRun, IngestMarkets, PollVenue, OpenCatalog,
    ObserveShard, EmitQuotes, StreamDatasets, ResolveBatch, PlanFeed, ReadSocket,
    tapeVars

(***************************************************************************)
(* What a run records of its books is accepted and can be replayed: the    *)
(* mutations of every event lead from the committed book to the one it was *)
(* taken from, every recovery has its checkpoint, the replay of each       *)
(* committed group ends without an error, and every moment at which a book *)
(* was whole comes out of it once, in order, with the levels it had; but   *)
(* for a delta before the snapshot of a new connection, and a periodic     *)
(* checkpoint after a Kalshi frame that could not be read; for any         *)
(* messages, groups and either venue (tape_producers.py, durability.py,    *)
(* book_reconstruction_streaming.py).                                      *)
(***************************************************************************)
THEOREM TapesStayFaithful == Spec => []TapeIsFaithful
<1>1. Init => TapeHolds
  BY TapeBegins, TapeStarts
<1>2. TapeHolds /\ [Next]_commandVars => TapeHolds'
  BY TapeGoes, TapeStays
<1>3. TapeHolds => TapeIsFaithful
  BY TapeTells DEF TapeIsFaithful
<1> QED  BY <1>1, <1>2, <1>3, PTL DEF Spec
=============================================================================
