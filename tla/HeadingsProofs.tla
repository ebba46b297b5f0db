--------------------------- MODULE HeadingsProofs ---------------------------
(***************************************************************************)
(* The proofs that the units of a text follow each other from its start to *)
(* its end, and that sections start at exactly its headings outside fenced *)
(* code, for texts of every length.                                        *)
(***************************************************************************)
EXTENDS Headings, FiniteSetTheorems, WellFoundedInduction, TLAPS

(* How many of E are at or before e. *)
Rank(E, e) == Cardinality({x \in E : x <= e})

(* The ranks of a finite set of numbers are 1, 2, ... without a gap, so each of them
   names one member, and larger members have larger ranks. *)
LEMMA Ranks ==
  ASSUME NEW n \in Nat, NEW E \in SUBSET (1..n)
  PROVE  /\ IsFiniteSet(E) /\ Cardinality(E) \in Nat
         /\ \A e \in E : Rank(E, e) \in 1..Cardinality(E)
         /\ \A e, f \in E : e < f => Rank(E, e) < Rank(E, f)
         /\ \A k \in 1..Cardinality(E) : \E e \in E : Rank(E, e) = k
         /\ n \in E => Rank(E, n) = Cardinality(E)
<1> DEFINE UpTo(e) == {x \in E : x <= e}
<1>0. \A x \in E : x \in Nat /\ 1 <= x /\ x <= n
  OBVIOUS
<1>1. IsFiniteSet(E) /\ Cardinality(E) \in Nat
  <2>1. 1 \in Int /\ n \in Int
    OBVIOUS
  <2> QED
    BY <2>1, FS_Interval, FS_Subset, FS_CardinalityType
<1>2. ASSUME NEW e \in E
      PROVE  /\ IsFiniteSet(UpTo(e)) /\ Cardinality(UpTo(e)) \in Nat
             /\ Cardinality(UpTo(e)) <= Cardinality(E) /\ Cardinality(UpTo(e)) # 0
  <2>1. UpTo(e) \in SUBSET E /\ e \in UpTo(e)
    OBVIOUS
  <2>2. IsFiniteSet(UpTo(e)) /\ Cardinality(UpTo(e)) <= Cardinality(E)
    BY <1>1, <2>1, FS_Subset
  <2> HIDE DEF UpTo
  <2> QED
    BY <2>1, <2>2, FS_CardinalityType, FS_EmptySet
<1>3. \A e \in E : Rank(E, e) \in 1..Cardinality(E)
  BY <1>1, <1>2 DEF Rank
<1>4. ASSUME NEW e \in E, NEW f \in E, e < f PROVE Rank(E, e) < Rank(E, f)
  <2>1. UpTo(e) \in SUBSET UpTo(f) /\ f \in UpTo(f) /\ f \notin UpTo(e)
    <3>1. \A x \in E : x <= e => x <= f
      BY <1>0, <1>4
    <3>2. f <= f /\ ~(f <= e)
      BY <1>0, <1>4
    <3> QED
      BY <3>1, <3>2
  <2>2. Cardinality(UpTo(e)) <= Cardinality(UpTo(f)) /\ Cardinality(UpTo(f)) # Cardinality(UpTo(e))
    <3> HIDE DEF UpTo
    <3> QED
      BY <1>2, <2>1, FS_Subset
  <2> QED
    BY <1>2, <2>2 DEF Rank
<1> DEFINE rank == [e \in E |-> Rank(E, e)]
<1>5. rank \in Injection(E, 1..Cardinality(E))
  <2>1. ASSUME NEW e \in E, NEW f \in E, Rank(E, e) = Rank(E, f) PROVE e = f
    <3>1. ~(e < f) /\ ~(f < e)
      BY <1>1, <1>3, <1>4, <2>1
    <3> QED
      BY <3>1
  <2> QED
    BY <1>3, <2>1 DEF Injection, IsInjective
<1>6. rank \in Surjection(E, 1..Cardinality(E))
  <2>1. 1 \in Int /\ Cardinality(E) \in Int
    BY <1>1
  <2>2. /\ IsFiniteSet(1..Cardinality(E))
        /\ Cardinality(1..Cardinality(E)) =
             IF 1 > Cardinality(E) THEN 0 ELSE Cardinality(E) - 1 + 1
    BY <2>1, FS_Interval
  <2>3. Cardinality(1..Cardinality(E)) = Cardinality(E)
    BY <1>1, <2>2
  <2> HIDE DEF rank
  <2> QED
    BY <1>5, <2>2, <2>3, FS_Injection
<1>7. \A k \in 1..Cardinality(E) : \E e \in E : Rank(E, e) = k
  BY <1>6 DEF Surjection
<1>8. n \in E => Rank(E, n) = Cardinality(E)
  <2>1. {x \in E : x <= n} = E
    BY <1>0
  <2> QED
    BY <2>1 DEF Rank
<1> QED
  BY <1>1, <1>3, <1>4, <1>7, <1>8

(* Spans that follow each other from 0 to n. *)
Tiling(us, n) ==
  /\ us # <<>>
  /\ us[1].start = 0 /\ us[Len(us)].end = n
  /\ \A k \in DOMAIN us :
       /\ us[k].start < us[k].end
       /\ k > 1 => us[k].start = us[k - 1].end

(* The spans that end at given offsets, the last offset among them, tile. *)
LEMMA TilesTile ==
  ASSUME NEW n \in Nat, NEW E \in SUBSET (1..n), n \in E
  PROVE  Tiling(Tiles(E), n)
<1> DEFINE size == Cardinality(E)
           ends == [k \in 1..size |-> CHOOSE e \in E : Rank(E, e) = k]
<1>1. size \in Nat /\ size > 0
  <2>1. size \in Nat /\ Rank(E, n) \in 1..size
    BY Ranks
  <2> QED
    BY <2>1
<1>2. \A k \in 1..size : ends[k] \in E /\ ends[k] \in Nat /\ Rank(E, ends[k]) = k /\ ends[k] > 0
  <2>1. \A k \in 1..size : \E e \in E : Rank(E, e) = k
    BY Ranks
  <2>2. \A k \in 1..size : ends[k] \in E /\ Rank(E, ends[k]) = k
    BY <2>1
  <2>3. \A e \in E : e \in Nat /\ e > 0
    OBVIOUS
  <2> QED
    BY <2>2, <2>3
<1>3. \A k \in 1..size : k > 1 => ends[k - 1] < ends[k]
  <2>1. ASSUME NEW k \in 1..size, k > 1 PROVE ends[k - 1] < ends[k]
    <3>1. k - 1 \in 1..size
      BY <1>1, <2>1
    <3>2. Rank(E, ends[k - 1]) = k - 1 /\ Rank(E, ends[k]) = k
      BY <1>2, <3>1
    <3>3. ~(ends[k] < ends[k - 1]) /\ ends[k] # ends[k - 1]
      BY <1>2, <3>1, <3>2, Ranks
    <3> QED
      BY <1>2, <3>1, <3>3
  <2> QED
    BY <2>1
<1>4. ends[size] = n
  <2>1. size \in 1..size
    BY <1>1
  <2>2. Rank(E, ends[size]) = size /\ Rank(E, n) = size /\ ends[size] \in E /\ ends[size] \in Nat
    BY <1>2, <2>1, Ranks
  <2>3. ~(ends[size] < n) /\ ends[size] <= n
    BY <1>1, <2>2, Ranks
  <2> QED
    BY <2>2, <2>3
<1>5. Tiles(E) = [k \in 1..size |-> Span(IF k = 1 THEN 0 ELSE ends[k - 1], ends[k])]
  BY DEF Tiles, Rank
<1> HIDE DEF ends, size
<1>6. Tiles(E) \in Seq([start : Nat, end : Nat]) /\ Len(Tiles(E)) = size /\ DOMAIN Tiles(E) = 1..size
  <2>1. \A k \in 1..size : k = 1 \/ k - 1 \in 1..size
    BY <1>1
  <2>2. \A k \in 1..size : Span(IF k = 1 THEN 0 ELSE ends[k - 1], ends[k]) \in [start : Nat, end : Nat]
    BY <1>2, <2>1 DEF Span
  <2> QED
    BY <1>1, <1>5, <2>2
<1>7. \A k \in 1..size : Tiles(E)[k].start = (IF k = 1 THEN 0 ELSE ends[k - 1]) /\ Tiles(E)[k].end = ends[k]
  BY <1>5 DEF Span
<1>8. 1 \in 1..size /\ size \in 1..size /\ \A k \in 1..size : k > 1 => k - 1 \in 1..size
  BY <1>1
<1>9. Tiles(E) # <<>>
  BY <1>1, <1>6
<1>10. \A k \in 1..size : Tiles(E)[k].start < Tiles(E)[k].end
  BY <1>2, <1>3, <1>7, <1>8
<1>11. \A k \in 1..size : k > 1 => Tiles(E)[k].start = Tiles(E)[k - 1].end
  BY <1>7, <1>8
<1> QED
  BY <1>4, <1>6, <1>7, <1>8, <1>9, <1>10, <1>11 DEF Tiling

-------------------------------------------------------------------------------
(* Starts that ascend and lie in a text of n lines. *)
Ascending(ss) == \A j, k \in 1..Len(ss) : j < k => ss[j] < ss[k]

Before(ss, n) == \A k \in 1..Len(ss) : ss[k] < n

(* The sections from ascending starts tile the text, with a preamble or without. *)
LEMMA SectionsTile ==
  ASSUME text \in Seq(Line), NEW ss \in Seq(Nat), ss # <<>>, Ascending(ss), Before(ss, Len(text))
  PROVE  Tiling(unitsFromStarts(ss), Len(text))
<1> DEFINE n == Len(text)
           m == Len(ss)
           sec == sectionsFrom(ss)
           us == unitsFromStarts(ss)
<1>1. n \in Nat /\ m \in Nat /\ m > 0 /\ \A k \in 1..m : ss[k] \in Nat
  OBVIOUS
<1>2. /\ 1 \in 1..m /\ m \in 1..m
      /\ \A k \in 1..m : k # m => k + 1 \in 1..m
      /\ \A k \in 1..m : k > 1 => k - 1 \in 1..m
  BY <1>1
<1>3. sec = [k \in 1..m |-> Span(ss[k], IF k = m THEN n ELSE ss[k + 1])]
  BY DEF sectionsFrom
<1> HIDE DEF sec
<1>4. \A k \in 1..m : sec[k].start = ss[k] /\ sec[k].end = IF k = m THEN n ELSE ss[k + 1]
  BY <1>3 DEF Span
<1>5. /\ sec \in Seq([start : Nat, end : Nat]) /\ Len(sec) = m /\ DOMAIN sec = 1..m
  <2>1. \A k \in 1..m : Span(ss[k], IF k = m THEN n ELSE ss[k + 1]) \in [start : Nat, end : Nat]
    BY <1>1, <1>2 DEF Span
  <2> QED
    BY <1>1, <1>3, <2>1
<1>6. \A k \in 1..m : sec[k].start < sec[k].end
  <2>1. \A k \in 1..m : ss[k] < n
    BY DEF Before
  <2>2. \A k \in 1..m : k # m => ss[k] < ss[k + 1]
    BY <1>1, <1>2 DEF Ascending
  <2> QED
    BY <1>4, <2>1, <2>2
<1>7. \A k \in 1..m : k > 1 => sec[k].start = sec[k - 1].end
  <2>1. ASSUME NEW k \in 1..m, k > 1 PROVE sec[k].start = sec[k - 1].end
    <3>1. k - 1 \in 1..m /\ k - 1 # m /\ (k - 1) + 1 = k
      BY <1>1, <2>1
    <3>2. sec[k].start = ss[k]
      BY <1>4, <2>1
    <3>3. sec[k - 1].end = ss[(k - 1) + 1]
      BY <1>4, <3>1
    <3> QED
      BY <3>1, <3>2, <3>3
  <2> QED
    BY <2>1
<1>8. sec[1].start = ss[1] /\ sec[m].end = n
  BY <1>2, <1>4
<1>9. CASE ~(ss[1] > 0)
  <2>1. ss[1] = 0
    BY <1>1, <1>2, <1>9
  <2>2. us = sec
    <3>1. us = <<>> \o sec
      BY <1>9 DEF unitsFromStarts, sec
    <3> HIDE DEF us
    <3> QED
      BY <1>5, <3>1
  <2>3. Tiling(sec, n)
    <3>1. sec # <<>> /\ Len(sec) = m /\ DOMAIN sec = 1..m
      BY <1>1, <1>5
    <3> QED
      BY <1>6, <1>7, <1>8, <2>1, <3>1 DEF Tiling
  <2> QED
    BY <2>2, <2>3
<1>10. CASE ss[1] > 0
  <2> DEFINE pre == Span(0, ss[1])
  <2>1. pre \in [start : Nat, end : Nat] /\ pre.start = 0 /\ pre.end = ss[1]
    BY <1>1, <1>2 DEF Span
  <2>2. us = <<pre>> \o sec
    BY <1>10 DEF unitsFromStarts, sec
  <2> HIDE DEF us, pre
  <2>3. /\ us \in Seq([start : Nat, end : Nat]) /\ Len(us) = m + 1 /\ us[1] = pre
        /\ \A k \in 1..m : us[k + 1] = sec[k]
    BY <1>5, <2>1, <2>2
  <2>4. DOMAIN us = 1..(m + 1) /\ us # <<>> /\ us[Len(us)].end = n
    <3>1. us[Len(us)] = sec[m]
      BY <1>2, <2>3
    <3>2. DOMAIN us = 1..(m + 1) /\ us # <<>>
      BY <1>1, <2>3
    <3> QED
      BY <1>8, <3>1, <3>2
  <2>5. ASSUME NEW k \in 1..(m + 1)
        PROVE  us[k].start < us[k].end /\ (k > 1 => us[k].start = us[k - 1].end)
    <3>1. CASE k = 1
      BY <1>10, <2>1, <2>3, <3>1
    <3>2. CASE k = 2
      <4>1. us[2] = sec[1] /\ us[1] = pre
        BY <1>2, <2>3
      <4> QED
        BY <1>2, <1>6, <1>8, <2>1, <3>2, <4>1
    <3>3. CASE k > 2
      <4>1. k - 1 \in 1..m /\ k - 2 \in 1..m /\ k - 1 > 1 /\ (k - 1) - 1 = k - 2
            /\ (k - 1) + 1 = k /\ (k - 2) + 1 = k - 1
        BY <1>1, <3>3
      <4>2. us[k] = sec[k - 1] /\ us[k - 1] = sec[k - 2]
        BY <2>3, <4>1
      <4> QED
        BY <1>6, <1>7, <4>1, <4>2
    <3> QED
      BY <1>1, <3>1, <3>2, <3>3
  <2> QED
    BY <2>1, <2>3, <2>4, <2>5 DEF Tiling, us
<1> QED
  BY <1>9, <1>10

(* The paragraphs of a text tile it. *)
LEMMA ParagraphsTile ==
  ASSUME text \in Seq(Line), text # <<>>
  PROVE  Tiling(Paragraphs, Len(text))
<1>1. Len(text) \in Nat /\ Len(text) \in 1..Len(text)
  OBVIOUS
<1>2. {Len(text)} \union paragraphBreaks \in SUBSET (1..Len(text))
  BY <1>1 DEF paragraphBreaks
<1> QED
  BY <1>1, <1>2, TilesTile DEF Paragraphs

-------------------------------------------------------------------------------
(* What the pass knows of the starts it has found: they ascend and lie in the lines read,
   and while a paragraph runs, in front of its last line. *)
IInv ==
  /\ text \in Seq(Line) /\ starts \in Seq(Nat)
  /\ Ascending(starts) /\ Before(starts, Len(text))
  /\ prevLineStart \in Nat
  /\ prevIsParagraph => Len(text) = prevLineStart + 1 /\ Before(starts, prevLineStart)
  /\ UnitsTile

(* The guard of appendStart is never needed: no start is found twice. *)
LEMMA AppendStart ==
  ASSUME NEW ss \in Seq(Nat), ss = starts, Ascending(ss), NEW s \in Nat, Before(ss, s)
  PROVE  /\ appendStart(s) = Append(ss, s)
         /\ appendStart(s) \in Seq(Nat) /\ Ascending(appendStart(s)) /\ Before(appendStart(s), s + 1)
<1>1. ss # <<>> => Last(ss) < s
  BY DEF Before, Last
<1>2. appendStart(s) = Append(ss, s)
  BY <1>1 DEF appendStart, Last
<1> DEFINE t == Append(ss, s)
<1>3. /\ t \in Seq(Nat) /\ Len(t) = Len(ss) + 1 /\ t[Len(ss) + 1] = s
      /\ \A k \in 1..Len(ss) : t[k] = ss[k] /\ t[k] \in Nat
  OBVIOUS
<1> HIDE DEF t
<1>4. \A k \in 1..Len(t) : k = Len(ss) + 1 \/ k \in 1..Len(ss)
  BY <1>3
<1>5. Before(t, s + 1)
  <2>1. \A k \in 1..Len(ss) : ss[k] < s /\ ss[k] \in Nat
    BY DEF Before
  <2>2. s < s + 1 /\ \A x \in Nat : x < s => x < s + 1
    OBVIOUS
  <2>3. \A k \in 1..Len(t) : t[k] < s + 1
    BY <1>3, <1>4, <2>1, <2>2
  <2> QED
    BY <2>3 DEF Before
<1>6. ASSUME NEW j \in 1..Len(t), NEW k \in 1..Len(t), j < k PROVE t[j] < t[k]
  <2>1. j \in 1..Len(ss)
    BY <1>3, <1>6
  <2> QED
    BY <1>3, <1>4, <1>6, <2>1 DEF Ascending, Before
<1> QED
  BY <1>2, <1>3, <1>5, <1>6 DEF Ascending, t

(* Reading a line leaves the starts below the lines read. *)
LEMMA ReadFacts ==
  ASSUME IInv, NEW l \in LineKinds, Read(l)
  PROVE  /\ text' \in Seq(Line) /\ Len(text') = Len(text) + 1 /\ Len(text) \in Nat
         /\ prevLineStart' = Len(text) /\ UnitsTile' /\ Before(starts, Len(text'))
<1>1. text \in Seq(Line) /\ l \in Line /\ text' = Append(text, l) /\ prevLineStart' = Len(text) /\ ~done'
  BY HeadingsAssumption DEF IInv, Read
<1>2. text' \in Seq(Line) /\ Len(text') = Len(text) + 1 /\ Len(text) \in Nat
  BY <1>1
<1>3. Before(starts, Len(text'))
  BY <1>2 DEF IInv, Before
<1> QED
  BY <1>1, <1>2, <1>3 DEF UnitsTile

(* Every step of the pass preserves the invariant. *)
LEMMA Step == IInv /\ [Next]_vars => IInv'
<1> SUFFICES ASSUME IInv, [Next]_vars PROVE IInv'
  OBVIOUS
<1>1. ASSUME NEW l \in LineKinds, ReadCode(l) \/ OpenFence(l) PROVE IInv'
  BY <1>1, ReadFacts DEF ReadCode, OpenFence, IInv, Before, Ascending
<1>2. ASSUME NEW l \in LineKinds, AtxHeading(l) PROVE IInv'
  <2>1. /\ appendStart(Len(text)) \in Seq(Nat) /\ Ascending(appendStart(Len(text)))
        /\ Before(appendStart(Len(text)), Len(text) + 1)
    BY <1>2, ReadFacts, AppendStart DEF AtxHeading, IInv
  <2> QED
    BY <1>2, <2>1, ReadFacts DEF AtxHeading, IInv, Before, Ascending
<1>3. ASSUME NEW l \in LineKinds, SetextHeading(l) PROVE IInv'
  <2>0. prevIsParagraph /\ Read(l) /\ starts' = appendStart(prevLineStart) /\ prevIsParagraph' = FALSE
    BY <1>3 DEF SetextHeading
  <2>1. /\ appendStart(prevLineStart) \in Seq(Nat) /\ Ascending(appendStart(prevLineStart))
        /\ Before(appendStart(prevLineStart), prevLineStart + 1)
    BY <2>0, AppendStart DEF IInv
  <2>2. Before(appendStart(prevLineStart), Len(text) + 1)
    BY <2>0, <2>1 DEF IInv, Before
  <2> QED
    BY <2>0, <2>1, <2>2, ReadFacts DEF IInv, Before, Ascending
<1>4. ASSUME NEW l \in LineKinds, PlainLine(l) PROVE IInv'
  BY <1>4, ReadFacts DEF PlainLine, IInv, Before, Ascending
<1>5. CASE Finish
  <2>1. UNCHANGED <<text, starts, prevLineStart, prevIsParagraph>>
    BY <1>5 DEF Finish
  <2>2. text # <<>> => Tiling(units', Len(text))
    <3>1. CASE starts = <<>>
      BY <1>5, <3>1, ParagraphsTile DEF Finish, IInv
    <3>2. CASE starts # <<>>
      BY <1>5, <3>2, SectionsTile DEF Finish, IInv
    <3> QED
      BY <3>1, <3>2
  <2>3. UnitsTile'
    BY <2>1, <2>2 DEF UnitsTile, Tiling
  <2> QED
    BY <2>1, <2>3 DEF IInv, Before, Ascending
<1>6. CASE Terminated \/ UNCHANGED vars
  BY <1>6 DEF Terminated, vars, IInv, Before, Ascending, UnitsTile
<1> QED
  BY <1>1, <1>2, <1>3, <1>4, <1>5, <1>6 DEF Next

(* The pass starts with nothing read and nothing found. *)
LEMMA InitIInv == Init => IInv
  BY DEF Init, IInv, Before, Ascending, UnitsTile

(* The units Headings returns follow each other without gap or overlap from the start of a
   text to its end, for texts of every length and every mix of headings, fences and
   preamble, so Split accepts them and no line is left out. *)
THEOREM UnitsAlwaysTile == Spec => []UnitsTile
<1>1. IInv => UnitsTile
  BY DEF IInv
<1> QED
  BY <1>1, InitIInv, Step, PTL DEF Spec

-------------------------------------------------------------------------------
(* A fence that line j of t opens, with c saying which lines are code, is open behind line n. *)
OpenAt(t, c, j, n) ==
  fenceMarker(t[j]) /\ ~c[j] /\ \A m \in (j + 1)..n : ~closesFence(t[j], t[m])

(* c says of each line of t whether it is code. *)
CodeOf(t, c) == c = [k \in 1..Len(t) |-> \E j \in 1..(k - 1) : OpenAt(t, c, j, k - 1)]

(* isCode, which recursion defines, is a function of that kind if there is one. *)
LEMMA IsCodeDef ==
  /\ isCode = CHOOSE c : CodeOf(text, c)
  /\ isCode' = CHOOSE c : CodeOf(text', c)
  BY DEF isCode, CodeOf, OpenAt

(* Line k of t is prose, and u says which lines are underlines. *)
ProseOf(t, c, k) == ~c[k] /\ ~fenceMarker(t[k]) /\ ~isAtx(t[k]) /\ ~isBlank(t[k])

UnderlinesOf(t, c, u) ==
  u = [k \in 1..Len(t) |->
         k > 1 /\ ProseOf(t, c, k) /\ setextUnderline(t[k]) /\ ProseOf(t, c, k - 1) /\ ~u[k - 1]]

(* And so is isUnderline. *)
LEMMA IsUnderlineDef ==
  /\ isUnderline = CHOOSE u : UnderlinesOf(text, isCode, u)
  /\ isUnderline' = CHOOSE u : UnderlinesOf(text', isCode', u)
  BY DEF isUnderline, UnderlinesOf, ProseOf, isProse

(* A non-empty set of numbers has a least member. *)
LEMMA Least ==
  ASSUME NEW S \in SUBSET Nat, S # {}
  PROVE  \E x \in S : \A y \in S : x <= y
<1>1. PICK x \in S : \A y \in S : <<y, x>> \notin OpToRel(<, Nat)
  BY WFMin, NatLessThanWellFounded
<1>2. ASSUME NEW y \in S PROVE x <= y
  <2>1. x \in Nat /\ y \in Nat /\ <<y, x>> \notin {ss \in Nat \X Nat : ss[1] < ss[2]}
    BY <1>1 DEF OpToRel
  <2>2. ~(y < x)
    BY <2>1
  <2> QED
    BY <2>1, <2>2
<1> QED
  BY <1>2

(* Which lines are code does not depend on the lines behind them. *)
LEMMA CodePrefix ==
  ASSUME NEW t \in Seq(Line), NEW l \in Line, NEW c, NEW d,
         CodeOf(t, c), CodeOf(Append(t, l), d)
  PROVE  \A k \in 1..Len(t) : d[k] = c[k]
<1> DEFINE n == Len(t)
           D == {k \in 1..n : d[k] # c[k]}
<1>1. n \in Nat /\ \A k \in 1..n : Append(t, l)[k] = t[k] /\ Len(Append(t, l)) = n + 1
  OBVIOUS
<1>2. ASSUME D # {} PROVE FALSE
  <2>1. PICK k \in D : \A y \in D : k <= y
    <3>1. D \in SUBSET Nat
      OBVIOUS
    <3> HIDE DEF D
    <3> QED
      BY <1>2, <3>1, Least
  <2>2. k \in 1..n /\ d[k] # c[k]
    OBVIOUS
  <2>3. \A j \in 1..(k - 1) : j \in 1..n /\ d[j] = c[j] /\ \A m \in (j + 1)..(k - 1) : m \in 1..n
    <3>1. ASSUME NEW j \in 1..(k - 1) PROVE j \in 1..n /\ ~(k <= j)
      BY <1>1, <2>2
    <3>2. \A j \in 1..(k - 1) : j \in 1..n /\ d[j] = c[j]
      BY <2>1, <3>1
    <3> QED
      BY <1>1, <2>2, <3>2
  <2>4. c[k] = \E j \in 1..(k - 1) : OpenAt(t, c, j, k - 1)
    BY <2>2 DEF CodeOf
  <2>5. d[k] = \E j \in 1..(k - 1) : OpenAt(t, d, j, k - 1)
    <3>1. k \in 1..Len(Append(t, l))
      BY <1>1, <2>2
    <3>2. d[k] = \E j \in 1..(k - 1) : OpenAt(Append(t, l), d, j, k - 1)
      BY <3>1 DEF CodeOf
    <3>3. \A j \in 1..(k - 1) : OpenAt(Append(t, l), d, j, k - 1) = OpenAt(t, d, j, k - 1)
      BY <1>1, <2>3 DEF OpenAt
    <3> QED
      BY <3>2, <3>3
  <2>6. \A j \in 1..(k - 1) : OpenAt(t, d, j, k - 1) = OpenAt(t, c, j, k - 1)
    BY <2>3 DEF OpenAt
  <2> QED
    BY <2>2, <2>4, <2>5, <2>6
<1> QED
  BY <1>2

(* A line behind those of t is code if a fence is open there. *)
LEMMA CodeAppend ==
  ASSUME NEW t \in Seq(Line), NEW l \in Line, NEW c, CodeOf(t, c)
  PROVE  \E d : CodeOf(Append(t, l), d)
<1> DEFINE n == Len(t)
           u == Append(t, l)
           last == \E j \in 1..n : OpenAt(t, c, j, n)
           d == [k \in 1..(n + 1) |-> IF k = n + 1 THEN last ELSE c[k]]
<1>1. /\ n \in Nat /\ \A k \in 1..n : u[k] = t[k] /\ d[k] = c[k]
      /\ Len(u) = n + 1 /\ d[n + 1] = last
  <2>1. n \in Nat /\ \A k \in 1..n : k # n + 1 /\ k \in 1..(n + 1)
    OBVIOUS
  <2>2. Len(u) = n + 1 /\ \A k \in 1..n : u[k] = t[k]
    OBVIOUS
  <2>3. n + 1 \in 1..(n + 1)
    BY <2>1
  <2>4. d[n + 1] = last /\ \A k \in 1..n : d[k] = c[k]
    <3> HIDE DEF last
    <3> QED
      BY <2>1, <2>3
  <2> QED
    BY <2>1, <2>2, <2>4
<1>2. ASSUME NEW k \in 1..(n + 1)
      PROVE  d[k] = \E j \in 1..(k - 1) : OpenAt(u, d, j, k - 1)
  <2>1. \A j \in 1..(k - 1) : j \in 1..n /\ \A m \in (j + 1)..(k - 1) : m \in 1..n
    BY <1>1
  <2>2. \A j \in 1..(k - 1) : OpenAt(u, d, j, k - 1) = OpenAt(t, c, j, k - 1)
    <3> HIDE DEF u, d
    <3> QED
      BY <1>1, <2>1 DEF OpenAt
  <2>3. d[k] = \E j \in 1..(k - 1) : OpenAt(t, c, j, k - 1)
    <3>1. CASE k = n + 1
      <4>1. k - 1 = n
        BY <1>1, <3>1
      <4> QED
        BY <1>1, <3>1, <4>1
    <3>2. CASE k # n + 1
      <4>1. k \in 1..n
        BY <1>1, <3>2
      <4>2. c[k] = \E j \in 1..(k - 1) : OpenAt(t, c, j, k - 1)
        BY <4>1 DEF CodeOf
      <4> QED
        BY <1>1, <4>1, <4>2
    <3> QED
      BY <3>1, <3>2
  <2> QED
    BY <2>2, <2>3
<1>3. d = [k \in 1..(n + 1) |-> \E j \in 1..(k - 1) : OpenAt(u, d, j, k - 1)]
  BY <1>2
<1> QED
  BY <1>1, <1>3 DEF CodeOf

(* Nor does which lines are underlines depend on the lines behind them. *)
LEMMA UnderlinePrefix ==
  ASSUME NEW t \in Seq(Line), NEW l \in Line, NEW c, NEW d, NEW u, NEW v,
         UnderlinesOf(t, c, u), UnderlinesOf(Append(t, l), d, v), \A k \in 1..Len(t) : d[k] = c[k]
  PROVE  \A k \in 1..Len(t) : v[k] = u[k]
<1> DEFINE n == Len(t)
           D == {k \in 1..n : v[k] # u[k]}
<1>1. n \in Nat /\ \A k \in 1..n : Append(t, l)[k] = t[k] /\ k \in 1..Len(Append(t, l))
  OBVIOUS
<1>2. ASSUME D # {} PROVE FALSE
  <2>1. PICK k \in D : \A y \in D : k <= y
    <3>1. D \in SUBSET Nat
      OBVIOUS
    <3> HIDE DEF D
    <3> QED
      BY <1>2, <3>1, Least
  <2>2. k \in 1..n /\ v[k] # u[k]
    OBVIOUS
  <2>3. k > 1 => k - 1 \in 1..n /\ v[k - 1] = u[k - 1]
    <3>1. k > 1 => k - 1 \in 1..n /\ ~(k <= k - 1)
      BY <1>1, <2>2
    <3> QED
      BY <2>1, <3>1
  <2>4. u[k] = (k > 1 /\ ProseOf(t, c, k) /\ setextUnderline(t[k]) /\ ProseOf(t, c, k - 1) /\ ~u[k - 1])
    BY <2>2 DEF UnderlinesOf
  <2>5. v[k] = (/\ k > 1 /\ ProseOf(Append(t, l), d, k) /\ setextUnderline(Append(t, l)[k])
                /\ ProseOf(Append(t, l), d, k - 1) /\ ~v[k - 1])
    BY <1>1, <2>2 DEF UnderlinesOf
  <2>6. \A j \in 1..n : ProseOf(Append(t, l), d, j) = ProseOf(t, c, j)
    BY <1>1 DEF ProseOf
  <2> QED
    BY <1>1, <2>2, <2>3, <2>4, <2>5, <2>6
<1> QED
  BY <1>2

(* Whether a line behind those of t is an underline is decided by what is known of t. *)
LEMMA UnderlineAppend ==
  ASSUME NEW t \in Seq(Line), NEW l \in Line, NEW c, NEW d, NEW u,
         UnderlinesOf(t, c, u), \A k \in 1..Len(t) : d[k] = c[k]
  PROVE  \E v : UnderlinesOf(Append(t, l), d, v)
<1> DEFINE n == Len(t)
           w == Append(t, l)
           last == n + 1 > 1 /\ ProseOf(w, d, n + 1) /\ setextUnderline(l) /\ ProseOf(w, d, n) /\ ~u[n]
           v == [k \in 1..(n + 1) |-> IF k = n + 1 THEN last ELSE u[k]]
<1>1. /\ n \in Nat /\ Len(w) = n + 1 /\ w[n + 1] = l
      /\ \A k \in 1..n : w[k] = t[k] /\ k # n + 1 /\ k \in 1..(n + 1)
  OBVIOUS
<1>2. v[n + 1] = last /\ \A k \in 1..n : v[k] = u[k]
  <2>1. n + 1 \in 1..(n + 1)
    BY <1>1
  <2> HIDE DEF last
  <2> QED
    BY <1>1, <2>1
<1> HIDE DEF w
<1>3. ASSUME NEW k \in 1..(n + 1)
      PROVE  v[k] = (k > 1 /\ ProseOf(w, d, k) /\ setextUnderline(w[k]) /\ ProseOf(w, d, k - 1) /\ ~v[k - 1])
  <2> HIDE DEF v
  <2>1. CASE k = n + 1
    <3>1. k - 1 = n /\ (k > 1 => n \in 1..n)
      BY <1>1, <2>1
    <3> QED
      BY <1>1, <1>2, <2>1, <3>1
  <2>2. CASE k # n + 1
    <3>1. k \in 1..n /\ (k > 1 => k - 1 \in 1..n)
      BY <1>1, <2>2
    <3>2. u[k] = (k > 1 /\ ProseOf(t, c, k) /\ setextUnderline(t[k]) /\ ProseOf(t, c, k - 1) /\ ~u[k - 1])
      BY <3>1 DEF UnderlinesOf
    <3>3. \A j \in 1..n : ProseOf(w, d, j) = ProseOf(t, c, j)
      BY <1>1 DEF ProseOf
    <3> QED
      BY <1>1, <1>2, <3>1, <3>2, <3>3
  <2> QED
    BY <2>1, <2>2
<1>4. v = [k \in 1..(n + 1) |->
             k > 1 /\ ProseOf(w, d, k) /\ setextUnderline(w[k]) /\ ProseOf(w, d, k - 1) /\ ~v[k - 1]]
  BY <1>3
<1> QED
  BY <1>1, <1>4 DEF UnderlinesOf, w

-------------------------------------------------------------------------------
(* The starts a text has by the reference definitions. *)
AtxAt(t, c, k) == ~c[k] /\ ~fenceMarker(t[k]) /\ isAtx(t[k])

Heads(t, c, u) ==
  {k - 1 : k \in {m \in 1..Len(t) : AtxAt(t, c, m)}} \union {k - 2 : k \in {m \in 1..Len(t) : u[m]}}

(* What the pass has kept of the lines read is what the reference definitions say of them:
   the open fence, whether a paragraph may still become a heading, and the headings. *)
HeadInv ==
  /\ CodeOf(text, isCode) /\ UnderlinesOf(text, isCode, isUnderline)
  /\ inFence \in BOOLEAN /\ prevIsParagraph \in BOOLEAN
  /\ inFence <=> \E j \in 1..Len(text) : OpenAt(text, isCode, j, Len(text))
  /\ \A j \in 1..Len(text) : OpenAt(text, isCode, j, Len(text)) => text[j] = fence
  /\ prevIsParagraph <=>
       text # <<>> /\ ProseOf(text, isCode, Len(text)) /\ ~isUnderline[Len(text)]
  /\ Range(starts) = Heads(text, isCode, isUnderline)

(* Reading a line l: what is known of the lines before it stays, and l is code if a fence
   is open, and an underline if a paragraph is in front of it. *)
LEMMA LineFacts ==
  ASSUME IInv, HeadInv, NEW l \in LineKinds, Read(l)
  PROVE  LET n == Len(text) IN
         /\ n \in Nat /\ l \in Line /\ Len(text') = n + 1 /\ text'[n + 1] = l
         /\ \A k \in 1..n : text'[k] = text[k] /\ isCode'[k] = isCode[k] /\ isUnderline'[k] = isUnderline[k]
         /\ CodeOf(text', isCode') /\ UnderlinesOf(text', isCode', isUnderline')
         /\ isCode'[n + 1] = inFence
         /\ isUnderline'[n + 1] =
              (/\ prevIsParagraph /\ ~inFence /\ setextUnderline(l)
               /\ ~fenceMarker(l) /\ ~isAtx(l) /\ ~isBlank(l))
<1> DEFINE n == Len(text)
<1>1. /\ text \in Seq(Line) /\ l \in Line /\ text' = Append(text, l)
      /\ CodeOf(text, isCode) /\ UnderlinesOf(text, isCode, isUnderline)
  BY HeadingsAssumption DEF IInv, Read, HeadInv
<1>2. /\ n \in Nat /\ Len(text') = n + 1 /\ text'[n + 1] = l
      /\ \A k \in 1..n : text'[k] = text[k]
  BY <1>1
<1>3. CodeOf(text', isCode')
  BY <1>1, CodeAppend, IsCodeDef
<1>4. \A k \in 1..n : isCode'[k] = isCode[k]
  BY <1>1, <1>3, CodePrefix
<1>5. UnderlinesOf(text', isCode', isUnderline')
  BY <1>1, <1>4, UnderlineAppend, IsUnderlineDef
<1>6. \A k \in 1..n : isUnderline'[k] = isUnderline[k]
  BY <1>1, <1>4, <1>5, UnderlinePrefix
<1>7. isCode'[n + 1] = inFence
  <2>1. n + 1 \in 1..Len(text') /\ (n + 1) - 1 = n
    BY <1>2
  <2>2. isCode'[n + 1] = \E j \in 1..n : OpenAt(text', isCode', j, n)
    BY <1>3, <2>1 DEF CodeOf
  <2>3. \A j \in 1..n : OpenAt(text', isCode', j, n) = OpenAt(text, isCode, j, n)
    <3>1. \A j \in 1..n : \A m \in (j + 1)..n : m \in 1..n
      BY <1>2
    <3> QED
      BY <1>2, <1>4, <3>1 DEF OpenAt
  <2> QED
    BY <2>2, <2>3 DEF HeadInv
<1>8. isUnderline'[n + 1] =
        (/\ prevIsParagraph /\ ~inFence /\ setextUnderline(l)
         /\ ~fenceMarker(l) /\ ~isAtx(l) /\ ~isBlank(l))
  <2>1. n + 1 \in 1..Len(text') /\ (n + 1) - 1 = n /\ (n + 1 > 1 <=> n \in 1..n) /\ (text # <<>> <=> n \in 1..n)
    BY <1>1, <1>2
  <2>2. isUnderline'[n + 1] = (/\ n + 1 > 1 /\ ProseOf(text', isCode', n + 1) /\ setextUnderline(l)
                               /\ ProseOf(text', isCode', n) /\ ~isUnderline'[n])
    BY <1>2, <1>5, <2>1 DEF UnderlinesOf
  <2>3. ProseOf(text', isCode', n + 1) <=> ~inFence /\ ~fenceMarker(l) /\ ~isAtx(l) /\ ~isBlank(l)
    BY <1>2, <1>7 DEF ProseOf
  <2>4. n \in 1..n => (ProseOf(text', isCode', n) <=> ProseOf(text, isCode, n))
    BY <1>2, <1>4 DEF ProseOf
  <2>5. prevIsParagraph <=> n \in 1..n /\ ProseOf(text, isCode, n) /\ ~isUnderline[n]
    BY <2>1 DEF HeadInv
  <2> QED
    BY <1>6, <2>1, <2>2, <2>3, <2>4, <2>5
<1> QED
  BY <1>1, <1>2, <1>3, <1>4, <1>5, <1>6, <1>7, <1>8

(* What a line adds to the starts. *)
LEMMA HeadsFacts ==
  ASSUME IInv, HeadInv, NEW l \in LineKinds, Read(l)
  PROVE  LET n == Len(text)
         IN  Heads(text', isCode', isUnderline') =
               Heads(text, isCode, isUnderline)
                 \union (IF AtxAt(text', isCode', n + 1) THEN {n} ELSE {})
                 \union (IF isUnderline'[n + 1] THEN {n - 1} ELSE {})
<1> DEFINE n == Len(text)
           A == {m \in 1..n : AtxAt(text, isCode, m)}
           U == {m \in 1..n : isUnderline[m]}
<1>1. /\ n \in Nat /\ 1..Len(text') = (1..n) \union {n + 1} /\ (n + 1) - 1 = n /\ (n + 1) - 2 = n - 1
      /\ \A k \in 1..n : text'[k] = text[k] /\ isCode'[k] = isCode[k] /\ isUnderline'[k] = isUnderline[k]
  <2>1. /\ n \in Nat /\ Len(text') = n + 1
        /\ \A k \in 1..n : text'[k] = text[k] /\ isCode'[k] = isCode[k] /\ isUnderline'[k] = isUnderline[k]
    BY LineFacts
  <2>2. 1..(n + 1) = (1..n) \union {n + 1} /\ (n + 1) - 1 = n /\ (n + 1) - 2 = n - 1
    BY <2>1
  <2> QED
    BY <2>1, <2>2
<1>2. {m \in 1..Len(text') : AtxAt(text', isCode', m)} =
        A \union (IF AtxAt(text', isCode', n + 1) THEN {n + 1} ELSE {})
  <2>1. \A m \in 1..n : AtxAt(text', isCode', m) <=> AtxAt(text, isCode, m)
    BY <1>1 DEF AtxAt
  <2> QED
    BY <1>1, <2>1
<1>3. {m \in 1..Len(text') : isUnderline'[m]} = U \union (IF isUnderline'[n + 1] THEN {n + 1} ELSE {})
  BY <1>1
<1> HIDE DEF A, U
<1> HIDE DEF n
<1>4. {k - 1 : k \in A \union (IF AtxAt(text', isCode', n + 1) THEN {n + 1} ELSE {})} =
        {k - 1 : k \in A} \union (IF AtxAt(text', isCode', n + 1) THEN {n} ELSE {})
  <2>1. CASE AtxAt(text', isCode', n + 1)
    <3>1. {k - 1 : k \in A \union {n + 1}} = {k - 1 : k \in A} \union {(n + 1) - 1}
      OBVIOUS
    <3> QED
      BY <1>1, <2>1, <3>1
  <2>2. CASE ~AtxAt(text', isCode', n + 1)
    BY <2>2
  <2> QED
    BY <2>1, <2>2
<1>5. {k - 2 : k \in U \union (IF isUnderline'[n + 1] THEN {n + 1} ELSE {})} =
        {k - 2 : k \in U} \union (IF isUnderline'[n + 1] THEN {n - 1} ELSE {})
  <2>1. CASE isUnderline'[n + 1]
    <3>1. {k - 2 : k \in U \union {n + 1}} = {k - 2 : k \in U} \union {(n + 1) - 2}
      OBVIOUS
    <3> QED
      BY <1>1, <2>1, <3>1
  <2>2. CASE ~isUnderline'[n + 1]
    BY <2>2
  <2> QED
    BY <2>1, <2>2
<1>6. Heads(text, isCode, isUnderline) = {k - 1 : k \in A} \union {k - 2 : k \in U}
  BY DEF Heads, A, U, n
<1> QED
  BY <1>2, <1>3, <1>4, <1>5, <1>6 DEF Heads, n

(* A sequence with one more member. *)
LEMMA AppendRange ==
  ASSUME NEW ss \in Seq(Nat), NEW s \in Nat
  PROVE  Range(Append(ss, s)) = Range(ss) \union {s}
<1>1. /\ DOMAIN Append(ss, s) = 1..(Len(ss) + 1) /\ DOMAIN ss = 1..Len(ss) /\ Len(ss) \in Nat
      /\ Append(ss, s)[Len(ss) + 1] = s /\ \A k \in 1..Len(ss) : Append(ss, s)[k] = ss[k]
  OBVIOUS
<1>2. 1..(Len(ss) + 1) = (1..Len(ss)) \union {Len(ss) + 1}
  BY <1>1
<1> QED
  BY <1>1, <1>2 DEF Range

(* What a line does to the fences open in front of it. *)
LEMMA FenceFacts ==
  ASSUME IInv, HeadInv, NEW l \in LineKinds, Read(l)
  PROVE  \A j \in 1..Len(text') :
           OpenAt(text', isCode', j, Len(text')) <=>
             \/ j \in 1..Len(text) /\ OpenAt(text, isCode, j, Len(text)) /\ ~closesFence(fence, l)
             \/ j = Len(text) + 1 /\ fenceMarker(l) /\ ~inFence
<1> DEFINE n == Len(text)
<1>1. /\ n \in Nat /\ Len(text') = n + 1 /\ text'[n + 1] = l /\ isCode'[n + 1] = inFence
      /\ \A k \in 1..n : text'[k] = text[k] /\ isCode'[k] = isCode[k]
  BY LineFacts
<1>2. ASSUME NEW j \in 1..n
      PROVE  OpenAt(text', isCode', j, n + 1) <=> OpenAt(text, isCode, j, n) /\ ~closesFence(fence, l)
  <2>1. \A m \in (j + 1)..(n + 1) : m \in 1..n \/ m = n + 1
    BY <1>1
  <2>2. \A m \in (j + 1)..n : m \in 1..n /\ m \in (j + 1)..(n + 1)
    BY <1>1
  <2>3. n + 1 \in (j + 1)..(n + 1) /\ \A m \in (j + 1)..(n + 1) : m = n + 1 \/ m \in (j + 1)..n
    BY <1>1
  <2>4. OpenAt(text, isCode, j, n) => text[j] = fence
    BY DEF HeadInv
  <2> QED
    BY <1>1, <2>1, <2>2, <2>3, <2>4 DEF OpenAt
<1>3. OpenAt(text', isCode', n + 1, n + 1) <=> fenceMarker(l) /\ ~inFence
  <2>1. ~\E m \in (n + 1 + 1)..(n + 1) : TRUE
    BY <1>1
  <2> QED
    BY <1>1, <2>1 DEF OpenAt
<1>4. n + 1 \notin 1..n /\ \A j \in 1..(n + 1) : j \in 1..n \/ j = n + 1
  BY <1>1
<1> QED
  BY <1>1, <1>2, <1>3, <1>4

(* Every step of the pass keeps it in agreement with the reference definitions. *)
LEMMA HeadStep == IInv /\ HeadInv /\ [Next]_vars => HeadInv'
<1> SUFFICES ASSUME IInv, HeadInv, [Next]_vars PROVE HeadInv'
  OBVIOUS
<1> DEFINE n == Len(text)
           atx == AtxAt(text', isCode', n + 1)
           under == isUnderline'[n + 1]
           added == (IF atx THEN {n} ELSE {}) \union (IF under THEN {n - 1} ELSE {})
<1>1. ASSUME NEW l \in LineKinds, Read(l),
             inFence' \in BOOLEAN, prevIsParagraph' \in BOOLEAN,
             inFence' <=> (inFence /\ ~closesFence(fence, l)) \/ (~inFence /\ fenceMarker(l)),
             ~inFence /\ fenceMarker(l) => fence' = l,
             inFence => fence' = fence,
             prevIsParagraph' <=> /\ ~inFence /\ ~fenceMarker(l) /\ ~isAtx(l) /\ ~isBlank(l)
                                  /\ ~(prevIsParagraph /\ setextUnderline(l)),
             Range(starts') = Range(starts) \union added
      PROVE  HeadInv'
  <2>1. /\ n \in Nat /\ Len(text') = n + 1 /\ text'[n + 1] = l /\ isCode'[n + 1] = inFence
        /\ \A k \in 1..n : text'[k] = text[k] /\ isCode'[k] = isCode[k]
        /\ CodeOf(text', isCode') /\ UnderlinesOf(text', isCode', isUnderline')
        /\ under = (/\ prevIsParagraph /\ ~inFence /\ setextUnderline(l)
                    /\ ~fenceMarker(l) /\ ~isAtx(l) /\ ~isBlank(l))
    BY <1>1, LineFacts
  <2>2. \A j \in 1..(n + 1) :
          OpenAt(text', isCode', j, n + 1) <=>
             \/ j \in 1..n /\ OpenAt(text, isCode, j, n) /\ ~closesFence(fence, l)
             \/ j = n + 1 /\ fenceMarker(l) /\ ~inFence
    BY <1>1, <2>1, FenceFacts
  <2>3. /\ inFence <=> \E j \in 1..n : OpenAt(text, isCode, j, n)
        /\ \A j \in 1..n : OpenAt(text, isCode, j, n) => text[j] = fence
        /\ inFence \in BOOLEAN /\ prevIsParagraph \in BOOLEAN
    BY DEF HeadInv
  <2>4. n + 1 \in 1..(n + 1) /\ \A j \in 1..n : j \in 1..(n + 1)
    BY <2>1
  <2>5. inFence' <=> \E j \in 1..(n + 1) : OpenAt(text', isCode', j, n + 1)
    BY <1>1, <2>2, <2>3, <2>4
  <2>6. ASSUME NEW j \in 1..(n + 1), OpenAt(text', isCode', j, n + 1) PROVE text'[j] = fence'
    <3>1. CASE j \in 1..n /\ OpenAt(text, isCode, j, n)
      BY <1>1, <2>1, <2>3, <3>1
    <3>2. CASE j = n + 1 /\ fenceMarker(l) /\ ~inFence
      BY <1>1, <2>1, <3>2
    <3> QED
      BY <2>2, <2>6, <3>1, <3>2
  <2>7. prevIsParagraph' <=> text' # <<>> /\ ProseOf(text', isCode', n + 1) /\ ~under
    <3>1. text' # <<>>
      BY <1>1 DEF IInv, Read
    <3>2. ProseOf(text', isCode', n + 1) <=> ~inFence /\ ~fenceMarker(l) /\ ~isAtx(l) /\ ~isBlank(l)
      BY <2>1 DEF ProseOf
    <3> QED
      BY <1>1, <2>1, <3>1, <3>2
  <2>8. Range(starts') = Heads(text', isCode', isUnderline')
    BY <1>1, HeadsFacts DEF HeadInv
  <2> QED
    BY <1>1, <2>1, <2>5, <2>6, <2>7, <2>8 DEF HeadInv
<1> HIDE DEF added
<1>0. inFence \in BOOLEAN /\ prevIsParagraph \in BOOLEAN
  BY DEF HeadInv
<1>2. ASSUME NEW l \in LineKinds, Read(l), inFence \/ (~isAtx(l) /\ ~(prevIsParagraph /\ setextUnderline(l)))
                                           \/ fenceMarker(l)
      PROVE  added = {}
  <2>1. ~atx
    BY <1>2, LineFacts DEF AtxAt
  <2>2. ~under
    BY <1>2, LineFacts
  <2> QED
    BY <2>1, <2>2 DEF added
<1>3. ASSUME NEW l \in LineKinds, ReadCode(l) PROVE HeadInv'
  <2>1. added = {} /\ Read(l)
    BY <1>2, <1>3 DEF ReadCode
  <2> QED
    BY <1>1, <1>3, <2>1 DEF ReadCode, HeadInv, closesFence
<1>4. ASSUME NEW l \in LineKinds, OpenFence(l) PROVE HeadInv'
  <2>1. added = {} /\ Read(l)
    BY <1>2, <1>4 DEF OpenFence
  <2> QED
    BY <1>1, <1>4, <2>1 DEF OpenFence
<1>5. ASSUME NEW l \in LineKinds, PlainLine(l) PROVE HeadInv'
  <2>1. added = {} /\ Read(l)
    BY <1>2, <1>5 DEF PlainLine
  <2>2. isBlank(l) \in BOOLEAN
    BY DEF isBlank
  <2> QED
    BY <1>0, <1>1, <1>5, <2>1, <2>2 DEF PlainLine
<1>6. ASSUME NEW l \in LineKinds, AtxHeading(l) PROVE HeadInv'
  <2>1. Read(l) /\ starts' = appendStart(n) /\ ~inFence /\ ~fenceMarker(l) /\ isAtx(l)
    BY <1>6 DEF AtxHeading
  <2>2. added = {n}
    <3>1. atx
      BY <2>1, LineFacts DEF AtxAt
    <3>2. ~under
      BY <2>1, LineFacts
    <3> QED
      BY <3>1, <3>2 DEF added
  <2>3. starts' = Append(starts, n) /\ starts \in Seq(Nat) /\ n \in Nat
    BY <2>1, AppendStart DEF IInv
  <2>4. Range(starts') = Range(starts) \union {n}
    BY <2>3, AppendRange
  <2> QED
    BY <1>0, <1>1, <1>6, <2>1, <2>2, <2>4 DEF AtxHeading
<1>7. ASSUME NEW l \in LineKinds, SetextHeading(l) PROVE HeadInv'
  <2>1. /\ Read(l) /\ starts' = appendStart(prevLineStart) /\ ~inFence /\ ~fenceMarker(l) /\ ~isAtx(l)
        /\ prevIsParagraph /\ setextUnderline(l)
    BY <1>7 DEF SetextHeading
  <2>2. ~isBlank(l)
    BY <2>1 DEF setextUnderline, isBlank
  <2>3. added = {n - 1}
    <3>1. ~atx
      BY <2>1, LineFacts DEF AtxAt
    <3>2. under
      BY <2>1, <2>2, LineFacts
    <3> QED
      BY <3>1, <3>2 DEF added
  <2>4. n = prevLineStart + 1 /\ prevLineStart \in Nat
    BY <2>1 DEF IInv
  <2>5. starts' = Append(starts, prevLineStart) /\ starts \in Seq(Nat) /\ n - 1 = prevLineStart
    <3>1. starts \in Seq(Nat) /\ Ascending(starts) /\ Before(starts, prevLineStart)
      BY <2>1 DEF IInv
    <3>2. appendStart(prevLineStart) = Append(starts, prevLineStart)
      BY <2>4, <3>1, AppendStart
    <3> HIDE DEF n
    <3> QED
      BY <2>1, <2>4, <3>1, <3>2
  <2>6. Range(starts') = Range(starts) \union {n - 1}
    BY <2>4, <2>5, AppendRange
  <2> QED
    BY <1>0, <1>1, <1>7, <2>1, <2>3, <2>6 DEF SetextHeading
<1>8. CASE Finish \/ Terminated \/ UNCHANGED vars
  <2>1. UNCHANGED <<text, starts, inFence, fence, prevIsParagraph>>
    BY <1>8 DEF Finish, Terminated, vars
  <2>2. isCode' = isCode
    BY <2>1, IsCodeDef
  <2>3. isUnderline' = isUnderline
    BY <2>1, <2>2, IsUnderlineDef
  <2> QED
    BY <2>1, <2>2, <2>3 DEF HeadInv
<1> QED
  BY <1>3, <1>4, <1>5, <1>6, <1>7, <1>8 DEF Next

(* Before the first line there is no fence, no paragraph and no heading. *)
LEMMA InitHeadInv == Init => HeadInv
<1> SUFFICES ASSUME Init PROVE HeadInv
  OBVIOUS
<1>1. text = <<>> /\ starts = <<>> /\ inFence = FALSE /\ prevIsParagraph = FALSE /\ Len(text) = 0 /\ 1..Len(text) = {}
  BY DEF Init
<1> DEFINE c == [k \in 1..Len(text) |-> TRUE]
<1>2. CodeOf(text, c)
  BY <1>1 DEF CodeOf
<1>3. UnderlinesOf(text, isCode, c)
  BY <1>1 DEF UnderlinesOf
<1>4. CodeOf(text, isCode) /\ UnderlinesOf(text, isCode, isUnderline)
  BY <1>2, <1>3, IsCodeDef, IsUnderlineDef
<1>5. Range(starts) = Heads(text, isCode, isUnderline)
  BY <1>1 DEF Heads, Range
<1> QED
  BY <1>1, <1>4, <1>5 DEF HeadInv

(* For every text, the section starts found are exactly the ATX headings and the titles of
   setext headings outside fenced code, in order and once each: a pass that keeps one flag,
   one marker and one line agrees with definitions that look at the whole text. *)
THEOREM StartsAlwaysHeadings == Spec => []StartsAreHeadings
<1>1. IInv /\ HeadInv => StartsAreHeadings
  <2> SUFFICES ASSUME IInv, HeadInv PROVE StartsAreHeadings
    OBVIOUS
  <2>1. \A i, j \in DOMAIN starts : i < j => starts[i] < starts[j]
    BY DEF IInv, Ascending
  <2>2. Range(starts) = Heads(text, isCode, isUnderline)
    BY DEF HeadInv
  <2> QED
    BY <2>1, <2>2 DEF StartsAreHeadings, Heads, AtxAt
<1> QED
  BY <1>1, InitIInv, Step, InitHeadInv, HeadStep, PTL DEF Spec
=============================================================================
