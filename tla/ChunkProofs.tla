----------------------------- MODULE ChunkProofs -----------------------------
(***************************************************************************)
(* Theorems about chunk.Split, for every source, every configuration with  *)
(* or without a custom segmenter, and the default estimator with any       *)
(* number of runes per token: its chunks advance, are where they say they  *)
(* are, cut no rune, lose nothing, overlap within their budget, bring new  *)
(* text, and keep to MaxTokens.                                            *)
(*                                                                         *)
(* All rest on one invariant, IInv: the loops that run are nested, each    *)
(* over the span that the one around it gave away last, and every chunk so *)
(* far starts before the innermost loop resumes and ends before what that  *)
(* loop makes next.                                                        *)
(***************************************************************************)
EXTENDS Chunk, FiniteSetTheorems, SequenceTheorems, WellFoundedInduction, TLAPS

-------------------------------------------------------------------------------
(* Numbers, runes and sums of tokens. *)

Spans == [start : Nat, end : Nat]

(* A non-empty set of numbers has a least one. *)
LEMMA Least ==
  ASSUME NEW S \in SUBSET Nat, S # {}
  PROVE  \E x \in S : \A y \in S : x <= y
<1>1. PICK x \in S : \A y \in S : <<y, x>> \notin OpToRel(<, Nat)
  BY WFMin, NatLessThanWellFounded
<1>2. ASSUME NEW y \in S PROVE x <= y
  <2>1. x \in Nat /\ y \in Nat /\ <<y, x>> \notin {ss \in Nat \X Nat : ss[1] < ss[2]}
    BY <1>1 DEF OpToRel
  <2>2. ~(y < x)
    BY <2>1
  <2> QED
    BY <2>1, <2>2
<1> QED
  BY <1>2

(* Min is the least member of a non-empty set of numbers. *)
LEMMA MinIsLeast ==
  ASSUME NEW S \in SUBSET Nat, S # {}
  PROVE  Min(S) \in S /\ Min(S) \in Nat /\ \A y \in S : Min(S) <= y
<1>1. \E x \in S : \A y \in S : x <= y
  BY Least
<1>2. Min(S) \in S /\ \A y \in S : Min(S) <= y
  BY <1>1 DEF Min
<1> QED
  BY <1>2

(* Max is the greatest member of a non-empty bounded set of numbers. *)
LEMMA MaxIsGreatest ==
  ASSUME NEW S \in SUBSET Nat, S # {}, NEW b \in Nat, \A x \in S : x <= b
  PROVE  Max(S) \in S /\ Max(S) \in Nat /\ \A y \in S : y <= Max(S)
<1> DEFINE T == {b - x : x \in S}
<1>1. T \in SUBSET Nat /\ T # {}
  <2>1. \A x \in S : x \in Nat /\ b - x \in Nat
    OBVIOUS
  <2> QED
    BY <2>1
<1>2. PICK t \in T : \A u \in T : t <= u
  <2> HIDE DEF T
  <2> QED
    BY <1>1, Least
<1>3. PICK m \in S : t = b - m
  OBVIOUS
<1>4. ASSUME NEW y \in S PROVE m >= y
  <2>1. b - y \in T /\ y \in Nat /\ m \in Nat
    BY <1>3
  <2>2. b - m <= b - y
    BY <1>2, <1>3, <2>1
  <2> QED
    BY <2>1, <2>2
<1>5. Max(S) \in S /\ \A y \in S : Max(S) >= y
  BY <1>3, <1>4 DEF Max
<1> QED
  BY <1>5

(* A stretch of a text is a text. *)
LEMMA StretchType ==
  ASSUME text \in Seq(Bytes), NEW s \in Nat, NEW e \in Nat
  PROVE  Len(SubSeq(text, s + 1, e)) \in Nat
OBVIOUS

(* The runes of a stretch of text are a number. *)
LEMMA RunesType ==
  ASSUME text \in Seq(Bytes), NEW s \in Nat, NEW e \in Nat
  PROVE  Runes(s, e) \in Nat
<1> DEFINE n == Len(SubSeq(text, s + 1, e))
           S == {x \in 0..(n - 1) : BetweenRunes(SubSeq(text, s + 1, e), x)}
<1>1. n \in Nat
  BY StretchType
<1> HIDE DEF n
<1>2. 0 \in Int /\ n - 1 \in Int
  BY <1>1
<1>3. IsFiniteSet(0..(n - 1))
  BY <1>2, FS_Interval
<1>4. S \in SUBSET (0..(n - 1))
  OBVIOUS
<1>5. Cardinality(S) \in Nat
  BY <1>3, <1>4, FS_Subset, FS_CardinalityType
<1> QED
  BY <1>5 DEF Runes, RuneCount, n

(* An estimate is a number of tokens. *)
LEMMA EstType ==
  ASSUME text \in Seq(Bytes), NEW s \in Nat, NEW e \in Nat
  PROVE  est(s, e) \in Nat
<1>1. Runes(s, e) \in Nat /\ CharsPerToken \in Nat \ {0}
  BY RunesType, ChunkAssumption
<1> QED
  BY <1>1 DEF est

(* The tokens of a span are a number. *)
LEMMA TokensType ==
  ASSUME text \in Seq(Bytes), NEW spans \in Seq(Spans), NEW k \in 1..Len(spans)
  PROVE  Tokens(spans, k) \in Nat
<1>1. spans[k] \in Spans
  OBVIOUS
<1>2. spans[k].start \in Nat /\ spans[k].end \in Nat
  BY <1>1 DEF Spans
<1> QED
  BY <1>2, EstType DEF Tokens

(* g is the running total of the tokens of the spans from i to each up to j. *)
Run(g, spans, i, j) == g = [k \in (i - 1)..j |-> IF k < i THEN 0 ELSE g[k - 1] + Tokens(spans, k)]

(* There is a running total. *)
LEMMA RunExists ==
  ASSUME NEW spans, NEW i \in Nat, NEW j \in Nat, i >= 1, i - 1 <= j
  PROVE  \E g : Run(g, spans, i, j)
<1> DEFINE bad == {m \in Nat : i - 1 <= m /\ ~\E g : Run(g, spans, i, m)}
<1>1. SUFFICES ASSUME bad # {} PROVE FALSE
  OBVIOUS
<1>2. bad \in SUBSET Nat
  OBVIOUS
<1>3. PICK m \in bad : \A k \in bad : m <= k
  <2> HIDE DEF bad
  <2> QED
    BY <1>1, <1>2, Least
<1>4. m \in Nat /\ i - 1 <= m /\ ~\E g : Run(g, spans, i, m)
  OBVIOUS
<1>5. CASE m = i - 1
  <2> DEFINE g == [k \in (i - 1)..m |-> 0]
  <2>1. \A k \in (i - 1)..m : k < i
    BY <1>4, <1>5
  <2>2. g = [k \in (i - 1)..m |-> IF k < i THEN 0 ELSE g[k - 1] + Tokens(spans, k)]
    BY <2>1
  <2> HIDE DEF g
  <2>3. Run(g, spans, i, m)
    BY <2>2 DEF Run
  <2> QED
    BY <1>4, <2>3
<1>6. CASE m # i - 1
  <2>1. m - 1 \in Nat /\ i - 1 <= m - 1 /\ ~(m <= m - 1) /\ ~(m < i) /\ m \in (i - 1)..m
    BY <1>4, <1>6
  <2>2. m - 1 \notin bad
    <3> HIDE DEF bad
    <3> QED
      BY <1>3, <2>1
  <2>3. PICK f : Run(f, spans, i, m - 1)
    BY <2>1, <2>2
  <2> DEFINE g == [k \in (i - 1)..m |-> IF k = m THEN f[m - 1] + Tokens(spans, m) ELSE f[k]]
  <2>4. ASSUME NEW k \in (i - 1)..m PROVE g[k] = IF k < i THEN 0 ELSE g[k - 1] + Tokens(spans, k)
    <3>1. CASE k = m
      <4>1. m - 1 \in (i - 1)..m /\ m - 1 # m
        BY <2>1
      <4>2. g[m - 1] = f[m - 1] /\ g[m] = f[m - 1] + Tokens(spans, m)
        BY <2>1, <4>1
      <4> HIDE DEF g
      <4> QED
        BY <2>1, <3>1, <4>2
    <3>2. CASE k # m
      <4>1. k \in (i - 1)..(m - 1) /\ (~(k < i) => k - 1 \in (i - 1)..m /\ k - 1 # m)
        BY <2>1, <3>2
      <4>2. f[k] = IF k < i THEN 0 ELSE f[k - 1] + Tokens(spans, k)
        BY <2>3, <4>1 DEF Run
      <4>3. g[k] = f[k] /\ (~(k < i) => g[k - 1] = f[k - 1])
        BY <3>2, <4>1
      <4> HIDE DEF g
      <4> QED
        BY <4>2, <4>3
    <3> QED
      BY <3>1, <3>2
  <2>5. Run(g, spans, i, m)
    <3>1. g = [k \in (i - 1)..m |-> g[k]]
      OBVIOUS
    <3> HIDE DEF g
    <3> QED
      BY <2>4, <3>1 DEF Run
  <2> QED
    BY <1>4, <2>5
<1> QED
  BY <1>5, <1>6

(* Two running totals from the same span agree where both are defined. *)
LEMMA RunsAgree ==
  ASSUME NEW spans, NEW i \in Nat, NEW j \in Nat, NEW m \in Nat, i >= 1, i - 1 <= j, j <= m,
         NEW g, NEW h, Run(g, spans, i, j), Run(h, spans, i, m)
  PROVE  g[j] = h[j]
<1> DEFINE bad == {k \in (i - 1)..j : g[k] # h[k]}
<1>1. SUFFICES ASSUME bad # {} PROVE FALSE
  <2>1. j \in (i - 1)..j
    OBVIOUS
  <2> QED
    BY <2>1
<1>2. bad \in SUBSET Nat
  OBVIOUS
<1>3. PICK k \in bad : \A l \in bad : k <= l
  <2> HIDE DEF bad
  <2> QED
    BY <1>1, <1>2, Least
<1>4. k \in (i - 1)..j /\ k \in (i - 1)..m /\ k \in Nat /\ g[k] # h[k]
  OBVIOUS
<1>5. /\ g[k] = IF k < i THEN 0 ELSE g[k - 1] + Tokens(spans, k)
      /\ h[k] = IF k < i THEN 0 ELSE h[k - 1] + Tokens(spans, k)
  BY <1>4 DEF Run
<1>6. ~(k < i)
  BY <1>4, <1>5
<1>7. k - 1 \in (i - 1)..j /\ ~(k <= k - 1)
  BY <1>4, <1>6
<1>8. k - 1 \notin bad
  <2> HIDE DEF bad
  <2> QED
    BY <1>3, <1>7
<1> QED
  BY <1>4, <1>5, <1>6, <1>7, <1>8

(* The sum of the tokens of consecutive spans. *)
LEMMA SumIsRun ==
  ASSUME NEW spans, NEW i \in Nat, NEW j \in Nat, i >= 1, i - 1 <= j
  PROVE  \E g : Run(g, spans, i, j) /\ SumTokens(spans, i, j) = g[j]
<1> DEFINE g == CHOOSE g : Run(g, spans, i, j)
<1>1. Run(g, spans, i, j)
  BY RunExists
<1>2. SumTokens(spans, i, j) = g[j]
  BY DEF SumTokens, Run
<1> QED
  BY <1>1, <1>2

(* The sum starts at zero and grows by the tokens of each further span. *)
LEMMA SumSteps ==
  ASSUME NEW spans, NEW i \in Nat, i >= 1
  PROVE  /\ SumTokens(spans, i, i - 1) = 0
         /\ \A j \in Nat : j >= i => SumTokens(spans, i, j) = SumTokens(spans, i, j - 1) + Tokens(spans, j)
<1>1. SumTokens(spans, i, i - 1) = 0
  <2>1. i - 1 \in Nat /\ i - 1 <= i - 1 /\ i - 1 < i
    OBVIOUS
  <2>2. PICK g : Run(g, spans, i, i - 1) /\ SumTokens(spans, i, i - 1) = g[i - 1]
    BY <2>1, SumIsRun
  <2>3. i - 1 \in (i - 1)..(i - 1)
    BY <2>1
  <2>4. g[i - 1] = 0
    BY <2>1, <2>2, <2>3 DEF Run
  <2> QED
    BY <2>2, <2>4
<1>2. ASSUME NEW j \in Nat, j >= i
      PROVE  SumTokens(spans, i, j) = SumTokens(spans, i, j - 1) + Tokens(spans, j)
  <2>1. j - 1 \in Nat /\ i - 1 <= j - 1 /\ i - 1 <= j /\ j - 1 <= j /\ ~(j < i) /\ j \in (i - 1)..j
    BY <1>2
  <2>2. PICK g : Run(g, spans, i, j) /\ SumTokens(spans, i, j) = g[j]
    BY <2>1, SumIsRun
  <2>3. PICK h : Run(h, spans, i, j - 1) /\ SumTokens(spans, i, j - 1) = h[j - 1]
    BY <2>1, SumIsRun
  <2>4. h[j - 1] = g[j - 1]
    BY <2>1, <2>2, <2>3, RunsAgree
  <2>5. g[j] = g[j - 1] + Tokens(spans, j)
    BY <2>1, <2>2 DEF Run
  <2> QED
    BY <2>2, <2>3, <2>4, <2>5
<1> QED
  BY <1>1, <1>2

-------------------------------------------------------------------------------
(* Runes, and the offsets that cut none. *)

(* DecodeRune takes one byte, or a whole rune of the width its first byte names. *)
LEMMA SizeIs ==
  ASSUME NEW t \in Seq(Bytes), NEW x \in 0..(Len(t) - 1)
  PROVE  /\ RuneSize(t, x) \in 1..4 /\ x + RuneSize(t, x) <= Len(t)
         /\ \A k \in (x + 2)..(x + RuneSize(t, x)) : t[k] = "c"
         /\ t[x + 1] = "c" => RuneSize(t, x) = 1
<1>1. WidthOf(t[x + 1]) \in 1..4 /\ (t[x + 1] = "c" => WidthOf(t[x + 1]) = 1)
  BY DEF WidthOf
<1>2. Len(t) \in Nat /\ x \in Nat /\ x + 1 <= Len(t)
  OBVIOUS
<1>3. CASE /\ x + WidthOf(t[x + 1]) <= Len(t)
           /\ \A k \in (x + 2)..(x + WidthOf(t[x + 1])) : t[k] = "c"
  <2>1. RuneSize(t, x) = WidthOf(t[x + 1])
    BY <1>3 DEF RuneSize
  <2> QED
    BY <1>1, <1>3, <2>1
<1>4. CASE ~(/\ x + WidthOf(t[x + 1]) <= Len(t)
             /\ \A k \in (x + 2)..(x + WidthOf(t[x + 1])) : t[k] = "c")
  <2>1. RuneSize(t, x) = 1
    BY <1>4 DEF RuneSize
  <2>2. (x + 2)..(x + 1) = {}
    BY <1>2
  <2> QED
    BY <1>2, <2>1, <2>2
<1> QED
  BY <1>3, <1>4

(* An offset no rune of the text reaches over. *)
Clean(x) == BetweenRunes(text, x)

(* The text's ends cut no rune. *)
LEMMA EndsClean ==
  ASSUME text \in Seq(Bytes)
  PROVE  Clean(0) /\ Clean(Len(text))
<1>1. Len(text) \in Nat /\ 0..(0 - 1) = {}
  OBVIOUS
<1>2. \A p \in 0..(Len(text) - 1) : p + RuneSize(text, p) <= Len(text)
  BY SizeIs
<1> QED
  BY <1>1, <1>2 DEF Clean, BetweenRunes

(* A rune that reaches over an offset has a continuation byte there. *)
LEMMA CutIsInside ==
  ASSUME text \in Seq(Bytes), NEW x \in 1..(Len(text) - 1), ~Clean(x)
  PROVE  text[x + 1] = "c" /\ text[x] \in {"L2", "L3", "L4", "c"}
<1>1. PICK p \in 0..(x - 1) : ~(p + RuneSize(text, p) <= x)
  BY DEF Clean, BetweenRunes
<1>2. p \in 0..(Len(text) - 1) /\ p \in Nat /\ x \in Nat /\ p < x
  OBVIOUS
<1>3. /\ RuneSize(text, p) \in 1..4 /\ p + RuneSize(text, p) <= Len(text)
      /\ \A k \in (p + 2)..(p + RuneSize(text, p)) : text[k] = "c"
  BY <1>2, SizeIs
<1>4. x + 1 \in (p + 2)..(p + RuneSize(text, p))
  BY <1>1, <1>2, <1>3
<1>5. CASE x = p + 1
  <2>1. RuneSize(text, p) # 1
    BY <1>1, <1>2, <1>5
  <2>2. text[p + 1] \in {"L2", "L3", "L4"}
    <3>1. WidthOf(text[p + 1]) # 1
      BY <2>1 DEF RuneSize
    <3> QED
      BY <3>1 DEF WidthOf
  <2> QED
    BY <1>3, <1>4, <1>5, <2>2
<1>6. CASE x # p + 1
  <2>1. x \in (p + 2)..(p + RuneSize(text, p))
    BY <1>2, <1>3, <1>4, <1>6
  <2> QED
    BY <1>3, <1>4, <2>1
<1> QED
  BY <1>5, <1>6

(* The rune behind s ends at the first offset behind it that cuts none. *)
LEMMA NextClean ==
  ASSUME text \in Seq(Bytes), NEW s \in 0..(Len(text) - 1), Clean(s)
  PROVE  /\ s + RuneSize(text, s) \in (s + 1)..Len(text)
         /\ Clean(s + RuneSize(text, s))
         /\ \A e \in (s + 1)..Len(text) : Clean(e) => s + RuneSize(text, s) <= e
<1> DEFINE r == s + RuneSize(text, s)
<1>1. /\ RuneSize(text, s) \in 1..4 /\ r <= Len(text)
      /\ \A k \in (s + 2)..r : text[k] = "c"
      /\ s \in Nat /\ Len(text) \in Nat
  BY SizeIs
<1>2. r \in (s + 1)..Len(text) /\ r \in Nat
  BY <1>1
<1>3. ASSUME NEW p \in 0..(r - 1) PROVE p + RuneSize(text, p) <= r
  <2>1. p \in 0..(Len(text) - 1) /\ p \in Nat
    BY <1>1, <1>2
  <2>2. RuneSize(text, p) \in Nat
    BY <2>1, SizeIs
  <2>3. CASE p < s
    <3>1. p + RuneSize(text, p) <= s
      BY <1>1, <2>1, <2>3 DEF Clean, BetweenRunes
    <3> QED
      BY <1>1, <1>2, <2>1, <2>2, <3>1
  <2>4. CASE p = s
    BY <1>1, <1>2, <2>4
  <2>5. CASE p > s
    <3>1. p + 1 \in (s + 2)..r
      BY <1>1, <1>2, <2>1, <2>5
    <3>2. text[p + 1] = "c"
      BY <1>1, <3>1
    <3>3. RuneSize(text, p) = 1
      BY <2>1, <3>2, SizeIs
    <3> QED
      BY <1>2, <2>1, <3>3
  <2> QED
    BY <1>1, <2>1, <2>3, <2>4, <2>5
<1>4. ASSUME NEW e \in (s + 1)..Len(text), Clean(e) PROVE r <= e
  <2>1. s \in 0..(e - 1)
    BY <1>1
  <2> QED
    BY <1>4, <2>1 DEF Clean, BetweenRunes
<1>5. Clean(r)
  BY <1>3 DEF Clean, BetweenRunes
<1> QED
  BY <1>2, <1>4, <1>5

(* A stretch between two offsets that cut no rune has the bytes and the runes of its place. *)
LEMMA StretchRunes ==
  ASSUME text \in Seq(Bytes), NEW s \in Nat, NEW e \in 0..Len(text), s <= e, Clean(s), Clean(e)
  PROVE  LET t == SubSeq(text, s + 1, e)
         IN  /\ t \in Seq(Bytes) /\ Len(t) = e - s /\ \A k \in 1..(e - s) : t[k] = text[s + k]
             /\ \A x \in 0..(e - s - 1) :
                  /\ RuneSize(t, x) = RuneSize(text, s + x)
                  /\ BetweenRunes(t, x) <=> Clean(s + x)
<1> DEFINE t == SubSeq(text, s + 1, e)
           n == e - s
<1>0. Len(text) \in Nat /\ e \in Nat /\ e <= Len(text) /\ n \in Nat
  OBVIOUS
<1>1. t \in Seq(Bytes) /\ Len(t) = n /\ \A k \in 1..n : t[k] = text[s + k]
  <2>1. t = [k \in 1..(e - (s + 1) + 1) |-> text[k + (s + 1) - 1]]
    OBVIOUS
  <2>2. e - (s + 1) + 1 = n /\ \A k \in 1..n : k + (s + 1) - 1 = s + k
    BY <1>0
  <2>3. \A k \in 1..n : s + k \in 1..Len(text)
    BY <1>0
  <2>4. t = [k \in 1..n |-> text[s + k]]
    BY <2>1, <2>2
  <2> HIDE DEF t, n
  <2>5. t \in Seq(Bytes) /\ Len(t) = n
    BY <1>0, <2>3, <2>4
  <2> QED
    BY <2>4, <2>5
<1> HIDE DEF t
<1>2. ASSUME NEW x \in 0..(n - 1) PROVE RuneSize(t, x) = RuneSize(text, s + x)
  <2> DEFINE w == WidthOf(text[s + x + 1])
  <2>1. x \in Nat /\ x + 1 \in 1..n /\ s + (x + 1) = s + x + 1 /\ s + x \in 0..(Len(text) - 1)
    BY <1>0
  <2>2. t[x + 1] = text[s + x + 1]
    BY <1>1, <2>1
  <2>3. w \in 1..4
    BY DEF WidthOf
  <2>4. RuneSize(text, s + x) = w => s + x + w <= e
    <3>1. s + x \in 0..(e - 1)
      BY <1>0, <2>1
    <3>2. s + x + RuneSize(text, s + x) <= e
      BY <3>1 DEF Clean, BetweenRunes
    <3> QED
      BY <3>2
  <2>5. RuneSize(text, s + x) = IF s + x + w <= Len(text) /\ \A k \in (s + x + 2)..(s + x + w) : text[k] = "c" THEN w ELSE 1
    BY DEF RuneSize
  <2>6. RuneSize(t, x) = IF x + w <= n /\ \A k \in (x + 2)..(x + w) : t[k] = "c" THEN w ELSE 1
    BY <1>1, <2>2 DEF RuneSize
  <2> HIDE DEF w
  <2>7. ASSUME x + w <= n
        PROVE  (\A k \in (x + 2)..(x + w) : t[k] = "c") <=> (\A k \in (s + x + 2)..(s + x + w) : text[k] = "c")
    <3>1. ASSUME NEW k \in (x + 2)..(x + w)
          PROVE  s + k \in (s + x + 2)..(s + x + w) /\ t[k] = text[s + k]
      <4>1. k \in 1..n
        BY <1>0, <2>1, <2>3, <2>7
      <4>2. t[k] = text[s + k]
        BY <1>1, <4>1
      <4>3. s + k \in (s + x + 2)..(s + x + w)
        BY <2>1, <2>3
      <4> QED
        BY <4>2, <4>3
    <3>2. ASSUME NEW k \in (s + x + 2)..(s + x + w)
          PROVE  k - s \in (x + 2)..(x + w) /\ s + (k - s) = k
      BY <2>1, <2>3
    <3>3. ASSUME NEW k \in (s + x + 2)..(s + x + w)
          PROVE  text[k] = t[k - s]
      BY <3>1, <3>2
    <3> QED
      BY <3>1, <3>2, <3>3
  <2>8. CASE x + w <= n
    <3>1. s + x + w <= Len(text)
      BY <1>0, <2>1, <2>3, <2>8
    <3> QED
      BY <2>5, <2>6, <2>7, <2>8, <3>1
  <2>9. CASE ~(x + w <= n)
    <3>1. ~(s + x + w <= e)
      BY <1>0, <2>1, <2>3, <2>9
    <3>2. RuneSize(text, s + x) # w
      BY <2>4, <3>1
    <3> QED
      BY <2>5, <2>6, <2>9, <3>2
  <2> QED
    BY <2>8, <2>9
<1>3. ASSUME NEW x \in 0..(n - 1) PROVE BetweenRunes(t, x) <=> Clean(s + x)
  <2>1. x \in Nat /\ s + x \in Nat
    OBVIOUS
  <2>2. ASSUME NEW p \in 0..(x - 1)
        PROVE  /\ s + p \in 0..(s + x - 1) /\ RuneSize(t, p) = RuneSize(text, s + p)
               /\ p + RuneSize(t, p) <= x <=> s + p + RuneSize(text, s + p) <= s + x
    <3>1. p \in 0..(n - 1) /\ s + p \in 0..(Len(text) - 1) /\ s + p \in 0..(s + x - 1)
      BY <1>0, <2>1
    <3>2. RuneSize(t, p) = RuneSize(text, s + p) /\ RuneSize(text, s + p) \in Nat
      BY <1>2, <3>1, SizeIs
    <3> QED
      BY <2>1, <3>1, <3>2
  <2>3. ASSUME NEW p \in 0..(s + x - 1), p < s PROVE p + RuneSize(text, p) <= s + x
    <3>1. p \in 0..(s - 1) /\ p \in 0..(Len(text) - 1)
      BY <1>0, <2>3
    <3>2. p + RuneSize(text, p) <= s
      BY <3>1 DEF Clean, BetweenRunes
    <3>3. RuneSize(text, p) \in 1..4
      BY <3>1, SizeIs
    <3>4. RuneSize(text, p) \in Nat
      BY <3>3
    <3> QED
      BY <2>1, <3>1, <3>2, <3>4
  <2>4. ASSUME NEW p \in 0..(s + x - 1), ~(p < s) PROVE p - s \in 0..(x - 1) /\ s + (p - s) = p
    BY <2>1, <2>4
  <2> QED
    BY <2>2, <2>3, <2>4 DEF Clean, BetweenRunes
<1> QED
  BY <1>1, <1>2, <1>3 DEF t

(* Offsets between s and e that cut no rune. *)
Starts(s, e) == {x \in s..(e - 1) : Clean(x)}

(* A stretch between two offsets that cut no rune has a rune for each such offset in it. *)
LEMMA RunesAre ==
  ASSUME text \in Seq(Bytes), NEW s \in Nat, NEW e \in 0..Len(text), s <= e, Clean(s), Clean(e)
  PROVE  IsFiniteSet(Starts(s, e)) /\ Runes(s, e) = Cardinality(Starts(s, e))
<1> DEFINE t == SubSeq(text, s + 1, e)
           A == {x \in 0..(Len(t) - 1) : BetweenRunes(t, x)}
           B == Starts(s, e)
           f == [x \in A |-> s + x]
<1>1. Len(t) = e - s /\ \A x \in 0..(e - s - 1) : BetweenRunes(t, x) <=> Clean(s + x)
  BY StretchRunes
<1>2. Runes(s, e) = Cardinality(A)
  BY DEF Runes, RuneCount
<1> HIDE DEF t
<1>3. A = {x \in 0..(e - s - 1) : Clean(s + x)}
  BY <1>1
<1> HIDE DEF A
<1>4. e \in Nat /\ e - 1 \in Int /\ s \in Int
  OBVIOUS
<1>5. IsFiniteSet(B)
  <2>1. IsFiniteSet(s..(e - 1)) /\ B \in SUBSET (s..(e - 1))
    BY <1>4, FS_Interval DEF Starts
  <2> QED
    BY <2>1, FS_Subset
<1>6. f \in [A -> B] /\ \A x, y \in A : f[x] = f[y] => x = y
  <2>1. ASSUME NEW x \in A PROVE s + x \in B /\ x \in Nat
    BY <1>3, <1>4 DEF Starts
  <2> HIDE DEF B
  <2> QED
    BY <2>1
<1>7. \A y \in B : \E x \in A : f[x] = y
  <2>1. ASSUME NEW y \in B PROVE y - s \in A /\ f[y - s] = y
    <3>1. y - s \in 0..(e - s - 1) /\ s + (y - s) = y /\ Clean(y)
      BY <1>4 DEF Starts
    <3>2. y - s \in A
      BY <1>3, <3>1
    <3> QED
      BY <3>1, <3>2
  <2> QED
    BY <2>1
<1> HIDE DEF B, f
<1>8. f \in Injection(A, B) /\ f \in Surjection(A, B)
  BY <1>6, <1>7 DEF Injection, IsInjective, Surjection
<1>9. Cardinality(A) = Cardinality(B)
  BY <1>5, <1>8, FS_Injection
<1> QED
  BY <1>2, <1>5, <1>9 DEF B

(* The runes of two adjacent stretches of text add up. *)
LEMMA RunesAdd ==
  ASSUME text \in Seq(Bytes), NEW s \in Nat, NEW e \in Nat, NEW f \in 0..Len(text), s <= e, e <= f,
         Clean(s), Clean(e), Clean(f)
  PROVE  Runes(s, f) = Runes(s, e) + Runes(e, f)
<1>1. e \in 0..Len(text) /\ s <= f
  OBVIOUS
<1>2. /\ IsFiniteSet(Starts(s, e)) /\ Runes(s, e) = Cardinality(Starts(s, e))
      /\ IsFiniteSet(Starts(e, f)) /\ Runes(e, f) = Cardinality(Starts(e, f))
      /\ Runes(s, f) = Cardinality(Starts(s, f))
  BY <1>1, RunesAre
<1>3. Starts(s, f) = Starts(s, e) \union Starts(e, f)
  <2>1. \A x : x \in s..(f - 1) <=> x \in s..(e - 1) \/ x \in e..(f - 1)
    BY <1>1
  <2> QED
    BY <2>1 DEF Starts
<1>4. Starts(s, e) \intersect Starts(e, f) = {}
  <2>1. \A x : ~(x \in s..(e - 1) /\ x \in e..(f - 1))
    BY <1>1
  <2> QED
    BY <2>1 DEF Starts
<1>5. Cardinality(Starts(s, e) \union Starts(e, f)) = Cardinality(Starts(s, e)) + Cardinality(Starts(e, f)) - Cardinality({})
  BY <1>2, <1>4, FS_Union
<1>6. Cardinality({}) = 0 /\ Cardinality(Starts(s, e)) \in Nat /\ Cardinality(Starts(e, f)) \in Nat
  BY <1>2, FS_EmptySet, FS_CardinalityType
<1> QED
  BY <1>2, <1>3, <1>5, <1>6

(* In valid UTF-8 a rune starts at each offset that cuts none. *)
LEMMA ValidStarts ==
  ASSUME text \in Seq(Bytes), ValidUTF8(text), NEW x \in 0..(Len(text) - 1), Clean(x)
  PROVE  RuneStart(text[x + 1]) /\ RuneSize(text, x) = WidthOf(text[x + 1])
BY DEF ValidUTF8, Clean

(* A stretch of valid UTF-8 between two offsets that cut no rune is valid UTF-8. *)
LEMMA ValidStretch ==
  ASSUME text \in Seq(Bytes), ValidUTF8(text),
         NEW s \in Nat, NEW e \in 0..Len(text), s <= e, Clean(s), Clean(e)
  PROVE  ValidUTF8(SubSeq(text, s + 1, e))
<1> DEFINE t == SubSeq(text, s + 1, e)
<1>1. /\ Len(t) = e - s /\ \A k \in 1..(e - s) : t[k] = text[s + k]
      /\ \A x \in 0..(e - s - 1) : RuneSize(t, x) = RuneSize(text, s + x) /\ (BetweenRunes(t, x) <=> Clean(s + x))
  BY StretchRunes
<1> HIDE DEF t
<1>2. ASSUME NEW x \in 0..(e - s - 1)
      PROVE  RuneSize(t, x) = WidthOf(t[x + 1]) /\ (BetweenRunes(t, x) => RuneStart(t[x + 1]))
  <2>1. s + x \in 0..(Len(text) - 1) /\ x + 1 \in 1..(e - s) /\ s + (x + 1) = s + x + 1
    OBVIOUS
  <2>2. t[x + 1] = text[s + x + 1]
    BY <1>1, <2>1
  <2>3. RuneSize(text, s + x) = WidthOf(text[s + x + 1]) /\ (Clean(s + x) => RuneStart(text[s + x + 1]))
    BY <2>1 DEF ValidUTF8, Clean
  <2> QED
    BY <1>1, <2>2, <2>3
<1>3. ValidUTF8(t)
  BY <1>1, <1>2 DEF ValidUTF8
<1> QED
  BY <1>3 DEF t

(* An offset at which a rune starts, or the text ends. *)
Aligned(x) == x = Len(text) \/ RuneStart(text[x + 1])

(* An offset at which a rune starts cuts none. *)
LEMMA AlignedClean ==
  ASSUME text \in Seq(Bytes), NEW x \in 0..Len(text), Aligned(x)
  PROVE  Clean(x)
<1>1. CASE x = 0 \/ x = Len(text)
  BY <1>1, EndsClean
<1>2. CASE x # 0 /\ x # Len(text)
  <2>1. x \in 1..(Len(text) - 1)
    BY <1>2
  <2> QED
    BY <1>2, <2>1, CutIsInside DEF Aligned, RuneStart
<1> QED
  BY <1>1, <1>2

(* The text behind a newline is no continuation of it. *)
LEMMA NewlineClean ==
  ASSUME text \in Seq(Bytes), NEW x \in 1..Len(text), text[x] = "n"
  PROVE  Clean(x)
<1>1. x = Len(text) \/ x \in 1..(Len(text) - 1)
  OBVIOUS
<1> QED
  BY <1>1, EndsClean, CutIsInside

-------------------------------------------------------------------------------
(* Spans one behind the other, and the spans that end at given offsets. *)

(* How many of E are at or before e. *)
Rank(E, e) == Cardinality({x \in E : x <= e})

(* The ranks of a finite set of offsets are 1, 2, ... without a gap, so each of them
   names one member, and larger members have larger ranks. *)
LEMMA Ranks ==
  ASSUME NEW n \in Nat, NEW E \in SUBSET (1..n)
  PROVE  /\ IsFiniteSet(E) /\ Cardinality(E) \in Nat
         /\ \A e \in E : Rank(E, e) \in 1..Cardinality(E)
         /\ \A e, f \in E : e < f => Rank(E, e) < Rank(E, f)
         /\ \A k \in 1..Cardinality(E) : \E e \in E : Rank(E, e) = k
         /\ n \in E => Rank(E, n) = Cardinality(E)
<1> DEFINE UpTo(e) == {x \in E : x <= e}
<1>0. \A x \in E : x \in Nat /\ 1 <= x /\ x <= n
  OBVIOUS
<1>1. IsFiniteSet(E) /\ Cardinality(E) \in Nat
  <2>1. 1 \in Int /\ n \in Int
    OBVIOUS
  <2> QED
    BY <2>1, FS_Interval, FS_Subset, FS_CardinalityType
<1>2. ASSUME NEW e \in E
      PROVE  /\ IsFiniteSet(UpTo(e)) /\ Cardinality(UpTo(e)) \in Nat
             /\ Cardinality(UpTo(e)) <= Cardinality(E) /\ Cardinality(UpTo(e)) # 0
  <2>1. UpTo(e) \in SUBSET E /\ e \in UpTo(e)
    OBVIOUS
  <2>2. IsFiniteSet(UpTo(e)) /\ Cardinality(UpTo(e)) <= Cardinality(E)
    BY <1>1, <2>1, FS_Subset
  <2> HIDE DEF UpTo
  <2> QED
    BY <2>1, <2>2, FS_CardinalityType, FS_EmptySet
<1>3. \A e \in E : Rank(E, e) \in 1..Cardinality(E)
  BY <1>1, <1>2 DEF Rank
<1>4. ASSUME NEW e \in E, NEW f \in E, e < f PROVE Rank(E, e) < Rank(E, f)
  <2>1. UpTo(e) \in SUBSET UpTo(f) /\ f \in UpTo(f) /\ f \notin UpTo(e)
    <3>1. \A x \in E : x <= e => x <= f
      BY <1>0, <1>4
    <3>2. f <= f /\ ~(f <= e)
      BY <1>0, <1>4
    <3> QED
      BY <3>1, <3>2
  <2>2. Cardinality(UpTo(e)) <= Cardinality(UpTo(f)) /\ Cardinality(UpTo(f)) # Cardinality(UpTo(e))
    <3> HIDE DEF UpTo
    <3> QED
      BY <1>2, <2>1, FS_Subset
  <2> QED
    BY <1>2, <2>2 DEF Rank
<1> DEFINE rank == [e \in E |-> Rank(E, e)]
<1>5. rank \in Injection(E, 1..Cardinality(E))
  <2>1. ASSUME NEW e \in E, NEW f \in E, Rank(E, e) = Rank(E, f) PROVE e = f
    <3>1. ~(e < f) /\ ~(f < e)
      BY <1>1, <1>3, <1>4, <2>1
    <3> QED
      BY <3>1
  <2> QED
    BY <1>3, <2>1 DEF Injection, IsInjective
<1>6. rank \in Surjection(E, 1..Cardinality(E))
  <2>1. 1 \in Int /\ Cardinality(E) \in Int
    BY <1>1
  <2>2. /\ IsFiniteSet(1..Cardinality(E))
        /\ Cardinality(1..Cardinality(E)) =
             IF 1 > Cardinality(E) THEN 0 ELSE Cardinality(E) - 1 + 1
    BY <2>1, FS_Interval
  <2>3. Cardinality(1..Cardinality(E)) = Cardinality(E)
    BY <1>1, <2>2
  <2> HIDE DEF rank
  <2> QED
    BY <1>5, <2>2, <2>3, FS_Injection
<1>7. \A k \in 1..Cardinality(E) : \E e \in E : Rank(E, e) = k
  BY <1>6 DEF Surjection
<1>8. n \in E => Rank(E, n) = Cardinality(E)
  <2>1. {x \in E : x <= n} = E
    BY <1>0
  <2> QED
    BY <2>1 DEF Rank
<1> QED
  BY <1>1, <1>3, <1>4, <1>7, <1>8

(* Spans of the text that come one behind the other, and cut no rune. *)
Ordered(us) ==
  /\ us \in Seq(Spans) /\ us # <<>>
  /\ \A k \in DOMAIN us :
       /\ us[k].start < us[k].end /\ us[k].end <= Len(text)
       /\ Clean(us[k].start) /\ Clean(us[k].end)
       /\ k > 1 => us[k - 1].end <= us[k].start

(* Spans that follow each other without a gap, from s to e. *)
Fills(us, s, e) ==
  /\ us[1].start = s /\ us[Len(us)].end = e
  /\ \A k \in DOMAIN us : k > 1 => us[k].start = us[k - 1].end

(* The spans that end at given offsets, the last offset among them, fill the text up to it. *)
LEMMA TilesFill ==
  ASSUME text \in Seq(Bytes), NEW s \in Nat, NEW n \in 1..Len(text),
         NEW E \in SUBSET ((s + 1)..n), n \in E, Clean(s), \A x \in E : Clean(x)
  PROVE  Ordered(Tiles(s, E)) /\ Fills(Tiles(s, E), s, n)
<1> DEFINE size == Cardinality(E)
           ends == [k \in 1..size |-> CHOOSE e \in E : Rank(E, e) = k]
<1>0. n \in Nat /\ E \in SUBSET (1..n)
  OBVIOUS
<1>1. size \in Nat /\ size > 0
  <2>1. size \in Nat /\ Rank(E, n) \in 1..size
    BY <1>0, Ranks
  <2> QED
    BY <2>1
<1>2. \A k \in 1..size : ends[k] \in E /\ ends[k] \in Nat /\ Rank(E, ends[k]) = k /\ ends[k] > s /\ ends[k] <= Len(text)
  <2>1. \A k \in 1..size : \E e \in E : Rank(E, e) = k
    BY <1>0, Ranks
  <2>2. \A k \in 1..size : ends[k] \in E /\ Rank(E, ends[k]) = k
    BY <2>1
  <2>3. \A e \in E : e \in Nat /\ e > s /\ e <= Len(text)
    OBVIOUS
  <2> QED
    BY <2>2, <2>3
<1>3. \A k \in 1..size : k > 1 => ends[k - 1] < ends[k]
  <2>1. ASSUME NEW k \in 1..size, k > 1 PROVE ends[k - 1] < ends[k]
    <3>1. k - 1 \in 1..size
      BY <1>1, <2>1
    <3>2. Rank(E, ends[k - 1]) = k - 1 /\ Rank(E, ends[k]) = k
      BY <1>2, <3>1
    <3>3. ~(ends[k] < ends[k - 1]) /\ ends[k] # ends[k - 1]
      BY <1>0, <1>2, <3>1, <3>2, Ranks
    <3> QED
      BY <1>2, <3>1, <3>3
  <2> QED
    BY <2>1
<1>4. ends[size] = n
  <2>1. size \in 1..size
    BY <1>1
  <2>2. Rank(E, ends[size]) = size /\ Rank(E, n) = size /\ ends[size] \in E /\ ends[size] \in Nat
    BY <1>0, <1>2, <2>1, Ranks
  <2>3. ~(ends[size] < n) /\ ends[size] <= n
    BY <1>0, <1>1, <2>2, Ranks
  <2> QED
    BY <2>2, <2>3
<1>5. Tiles(s, E) = [k \in 1..size |-> Span(IF k = 1 THEN s ELSE ends[k - 1], ends[k])]
  BY DEF Tiles, Rank
<1> HIDE DEF ends, size
<1>6. Tiles(s, E) \in Seq(Spans) /\ Len(Tiles(s, E)) = size /\ DOMAIN Tiles(s, E) = 1..size
  <2>1. \A k \in 1..size : k = 1 \/ k - 1 \in 1..size
    BY <1>1
  <2>2. \A k \in 1..size : Span(IF k = 1 THEN s ELSE ends[k - 1], ends[k]) \in Spans
    BY <1>2, <2>1 DEF Span, Spans
  <2> QED
    BY <1>1, <1>5, <2>2
<1>7. \A k \in 1..size : Tiles(s, E)[k].start = (IF k = 1 THEN s ELSE ends[k - 1]) /\ Tiles(s, E)[k].end = ends[k]
  BY <1>5 DEF Span
<1>8. 1 \in 1..size /\ size \in 1..size /\ \A k \in 1..size : k > 1 => k - 1 \in 1..size
  BY <1>1
<1>9. Tiles(s, E) # <<>>
  BY <1>1, <1>6
<1>10. \A k \in 1..size : Tiles(s, E)[k].start < Tiles(s, E)[k].end /\ Tiles(s, E)[k].end <= Len(text)
  BY <1>2, <1>3, <1>7, <1>8
<1>11. \A k \in 1..size : k > 1 => Tiles(s, E)[k].start = Tiles(s, E)[k - 1].end
  BY <1>7, <1>8
<1>12. \A k \in 1..size : Clean(Tiles(s, E)[k].start) /\ Clean(Tiles(s, E)[k].end)
  <2>1. \A k \in 1..size : Clean(ends[k])
    BY <1>2
  <2> QED
    BY <1>7, <1>8, <2>1
<1>13. \A k \in 1..size : k > 1 => Tiles(s, E)[k - 1].end <= Tiles(s, E)[k].start
  <2>1. \A k \in 1..size : k > 1 => Tiles(s, E)[k - 1].end \in Nat /\ Tiles(s, E)[k].start = Tiles(s, E)[k - 1].end
    BY <1>2, <1>7, <1>8
  <2> QED
    BY <2>1
<1>14. Ordered(Tiles(s, E))
  BY <1>6, <1>9, <1>10, <1>12, <1>13 DEF Ordered
<1> QED
  BY <1>4, <1>6, <1>7, <1>8, <1>11, <1>14 DEF Fills

(* Of ordered spans each ends before every later one starts. *)
LEMMA OrderedFar ==
  ASSUME text \in Seq(Bytes), NEW us, Ordered(us), NEW k \in DOMAIN us, NEW l \in DOMAIN us
  PROVE  /\ us[k].start \in Nat /\ us[k].end \in Nat
         /\ us[k].start < us[k].end /\ us[k].end <= Len(text)
         /\ k < l => us[k].end <= us[l].start
<1>1. Len(us) \in Nat /\ DOMAIN us = 1..Len(us) /\ \A j \in 1..Len(us) : us[j] \in Spans
  BY DEF Ordered
<1>2. \A j \in 1..Len(us) : us[j].start \in Nat /\ us[j].end \in Nat /\ us[j].start < us[j].end /\ us[j].end <= Len(text)
  BY <1>1 DEF Ordered, Spans
<1>3. \A j \in 1..Len(us) : j > 1 => us[j - 1].end <= us[j].start
  BY <1>1 DEF Ordered
<1>4. ASSUME k < l PROVE us[k].end <= us[l].start
  <2> DEFINE bad == {j \in 1..Len(us) : k < j /\ ~(us[k].end <= us[j].start)}
  <2>1. SUFFICES ASSUME bad # {} PROVE FALSE
    BY <1>1, <1>4
  <2>2. bad \in SUBSET Nat
    BY <1>1
  <2>3. PICK j \in bad : \A x \in bad : j <= x
    <3> HIDE DEF bad
    <3> QED
      BY <2>1, <2>2, Least
  <2>4. j \in 1..Len(us) /\ k < j /\ ~(us[k].end <= us[j].start)
    OBVIOUS
  <2>5. j > 1 /\ j - 1 \in 1..Len(us) /\ ~(j <= j - 1) /\ (j - 1 = k \/ k < j - 1)
    BY <1>1, <2>4
  <2>6. j - 1 \notin bad
    <3> HIDE DEF bad
    <3> QED
      BY <2>3, <2>5
  <2>7. us[k].end <= us[j - 1].end
    <3>1. CASE j - 1 = k
      BY <1>1, <1>2, <3>1
    <3>2. CASE k < j - 1
      <4>1. us[k].end <= us[j - 1].start
        BY <2>5, <2>6, <3>2
      <4> QED
        BY <1>1, <1>2, <2>5, <4>1
    <3> QED
      BY <2>5, <3>1, <3>2
  <2>8. us[j - 1].end <= us[j].start
    BY <1>3, <2>4, <2>5
  <2> QED
    BY <1>1, <1>2, <2>4, <2>5, <2>7, <2>8
<1> QED
  BY <1>1, <1>2, <1>4

-------------------------------------------------------------------------------
(* Units, groups and lines fill what they are made of; the loops. *)

(* A span of the text that cuts no rune. *)
Piece(s, e) == s \in Nat /\ e \in 1..Len(text) /\ s < e /\ Clean(s) /\ Clean(e)

(* The lines of a piece of the text fill it. *)
LEMMA LinesFill ==
  ASSUME text \in Seq(Bytes), NEW s, NEW e, Piece(s, e)
  PROVE  Ordered(Lines(s, e)) /\ Fills(Lines(s, e), s, e)
<1> DEFINE E == {k \in (s + 1)..e : text[k] = "n" \/ k = e}
<1>1. s \in Nat /\ e \in 1..Len(text) /\ E \in SUBSET ((s + 1)..e) /\ e \in E
  BY DEF Piece
<1>2. \A x \in E : Clean(x)
  <2>1. \A x \in E : x \in 1..Len(text) /\ (text[x] = "n" \/ x = e)
    BY <1>1
  <2> QED
    BY <2>1, NewlineClean DEF Piece
<1>3. Lines(s, e) = Tiles(s, E)
  BY DEF Lines
<1>4. Clean(s)
  BY DEF Piece
<1> HIDE DEF E
<1> QED
  BY <1>1, <1>2, <1>3, <1>4, TilesFill

(* The fenced groups of a piece of the text fill it. *)
LEMMA GroupsFill ==
  ASSUME text \in Seq(Bytes), NEW s, NEW e, Piece(s, e)
  PROVE  Ordered(fencedGroups(s, e)) /\ Fills(fencedGroups(s, e), s, e)
<1> DEFINE lines == Lines(s, e)
           n == Len(lines)
           open == CHOOSE open : open =
             [k \in 0..n |->
                IF k = 0 THEN 0
                ELSE LET m == MarkerLen(lines[k])
                     IN  IF open[k - 1] = 0 THEN m
                         ELSE IF m >= open[k - 1] /\ ~HasInfo(lines[k]) THEN 0
                         ELSE open[k - 1]]
           D == {j \in DOMAIN lines : open[j] = 0 \/ j = Len(lines)}
           E == {lines[k].end : k \in D}
<1>1. fencedGroups(s, e) = Tiles(s, E)
  BY DEF fencedGroups
<1> HIDE DEF open
<1>2. Ordered(lines) /\ Fills(lines, s, e)
  BY LinesFill
<1> HIDE DEF lines
<1>3. lines \in Seq(Spans) /\ lines # <<>> /\ DOMAIN lines = 1..n /\ n \in Nat /\ n >= 1
  BY <1>2 DEF Ordered
<1>4. D \in SUBSET (1..n) /\ n \in D /\ 1 \in 1..n
  BY <1>3
<1> HIDE DEF D
<1>5. lines[n].end = e /\ lines[1].start = s
  BY <1>2 DEF Fills
<1>6. s \in Nat /\ e \in 1..Len(text) /\ Clean(s)
  BY DEF Piece
<1>7. ASSUME NEW k \in D PROVE lines[k].end \in (s + 1)..e /\ Clean(lines[k].end)
  <2>1. k \in 1..n /\ n \in 1..n /\ 1 \in 1..n
    BY <1>3, <1>4
  <2>2. Clean(lines[k].end)
    BY <1>2, <1>3, <2>1 DEF Ordered
  <2>3. lines[k].start \in Nat /\ lines[k].end \in Nat /\ lines[k].start < lines[k].end
    BY <1>2, <1>3, <2>1, OrderedFar
  <2>4. lines[n].start \in Nat /\ lines[n].start < lines[n].end /\ (k < n => lines[k].end <= lines[n].start)
    BY <1>2, <1>3, <2>1, OrderedFar
  <2>5. lines[1].end \in Nat /\ lines[1].start < lines[1].end /\ (1 < k => lines[1].end <= lines[k].start)
    BY <1>2, <1>3, <2>1, OrderedFar
  <2>6. lines[k].end <= e
    BY <1>3, <1>5, <1>6, <2>1, <2>3, <2>4
  <2>7. s <= lines[k].start
    BY <1>3, <1>5, <1>6, <2>1, <2>3, <2>5
  <2> QED
    BY <1>6, <2>2, <2>3, <2>6, <2>7
<1>8. E \in SUBSET ((s + 1)..e) /\ e \in E /\ \A x \in E : Clean(x)
  BY <1>4, <1>5, <1>7
<1> HIDE DEF E
<1> QED
  BY <1>1, <1>6, <1>8, TilesFill

(* The paragraphs of the text fill it. *)
LEMMA ParagraphsFill ==
  ASSUME text \in Seq(Bytes), text # <<>>
  PROVE  Ordered(Paragraphs) /\ Fills(Paragraphs, 0, Len(text))
<1> DEFINE n == Len(text)
           E == {n} \union {k \in 2..(n - 1) : text[k - 1] = "n" /\ text[k] = "n" /\ text[k + 1] # "n"}
<1>1. n \in Nat /\ n \in 1..n /\ 0 \in Nat
  OBVIOUS
<1>2. E \in SUBSET ((0 + 1)..n) /\ n \in E
  BY <1>1
<1>3. Clean(0) /\ \A x \in E : Clean(x)
  <2>1. \A x \in E : x \in 1..Len(text) /\ (x = Len(text) \/ text[x] = "n")
    BY <1>1
  <2> QED
    BY <2>1, EndsClean, NewlineClean
<1>4. Paragraphs = Tiles(0, E)
  BY DEF Paragraphs
<1> HIDE DEF E
<1> QED
  BY <1>1, <1>2, <1>3, <1>4, TilesFill

(* Spans a segmenter may return. *)
AnySpans == [start : Int, end : Int]

(* Whatever a segmenter gives, the units are spans of the text one behind the other. *)
LEMMA UnitsOrdered ==
  ASSUME text \in Seq(Bytes), text # <<>>, cfg \in Configs
  PROVE  Ordered(Units)
<1> DEFINE us == IF cfg.custom = <<>> THEN Paragraphs ELSE cfg.custom[1]
<1>1. us \in Seq(AnySpans)
  <2>1. cfg.custom \in Seq(Seq(AnySpans)) /\ Len(cfg.custom) \in {0, 1}
    BY ChunkAssumption DEF AnySpans
  <2>2. cfg.custom # <<>> => cfg.custom[1] \in Seq(AnySpans)
    BY <2>1
  <2>3. Paragraphs \in Seq(Spans)
    BY ParagraphsFill DEF Ordered
  <2>4. ASSUME NEW t \in Seq(Spans) PROVE t \in Seq(AnySpans)
    <3>1. \A x \in Spans : x \in AnySpans
      BY DEF Spans, AnySpans
    <3> QED
      BY <3>1
  <2> QED
    BY <2>2, <2>3, <2>4
<1> HIDE DEF us
<1>2. Units = IF validUnits(us) THEN us ELSE <<Span(0, Len(text))>>
  BY DEF Units, us
<1>3. CASE validUnits(us)
  <2>1. us # <<>> /\ DOMAIN us = 1..Len(us)
    BY <1>1, <1>3 DEF validUnits
  <2>2. ASSUME NEW k \in DOMAIN us
        PROVE  /\ us[k] \in Spans
               /\ us[k].start < us[k].end /\ us[k].end <= Len(text)
               /\ runeAligned(us[k].start) /\ runeAligned(us[k].end)
               /\ k > 1 => us[k - 1].end <= us[k].start
    <3>1. /\ 0 <= us[k].start /\ us[k].start < us[k].end /\ us[k].end <= Len(text)
          /\ runeAligned(us[k].start) /\ runeAligned(us[k].end)
          /\ k > 1 => us[k - 1].end <= us[k].start
      BY <1>3, <2>2 DEF validUnits
    <3>2. us[k] \in AnySpans
      BY <1>1, <2>1
    <3>3. us[k].start \in Int /\ us[k].end \in Int
      BY <3>2 DEF AnySpans
    <3>4. us[k] \in Spans
      BY <3>1, <3>2, <3>3 DEF Spans, AnySpans
    <3> QED
      BY <3>1, <3>4
  <2>3. us \in Seq(Spans)
    BY <1>1, <2>2
  <2>4. \A x \in 0..Len(text) : runeAligned(x) => Clean(x)
    BY EndsClean, AlignedClean DEF runeAligned, Aligned
  <2>5. ASSUME NEW k \in DOMAIN us PROVE Clean(us[k].start) /\ Clean(us[k].end)
    <3>1. us[k].start \in 0..Len(text) /\ us[k].end \in 0..Len(text)
      BY <2>2 DEF Spans
    <3> QED
      BY <2>2, <2>4, <3>1
  <2>6. Ordered(us)
    BY <2>1, <2>2, <2>3, <2>5 DEF Ordered
  <2> QED
    BY <1>2, <1>3, <2>6
<1>4. CASE ~validUnits(us)
  <2> DEFINE one == <<Span(0, Len(text))>>
  <2>1. Span(0, Len(text)) \in Spans /\ Len(text) \in Nat /\ Len(text) > 0
    BY DEF Span, Spans
  <2>2. one \in Seq(Spans) /\ one # <<>> /\ DOMAIN one = {1} /\ one[1] = Span(0, Len(text))
    BY <2>1
  <2>3. Clean(0) /\ Clean(Len(text))
    BY EndsClean
  <2>4. Ordered(one)
    <3> HIDE DEF one
    <3>1. one[1].start = 0 /\ one[1].end = Len(text) /\ ~(1 > 1)
      BY <2>2 DEF Span
    <3> QED
      BY <2>1, <2>2, <2>3, <3>1 DEF Ordered
  <2> QED
    BY <1>2, <1>4, <2>4
<1> QED
  BY <1>3, <1>4

Kinds == {"units", "groups", "lines", "prose"}

Frames == [kind : Kinds, spans : Seq(Spans), i : Nat]

(* A running loop: over ordered spans of the text, or in prose at an offset of its span. *)
Loop(fr) ==
  /\ fr \in Frames /\ Ordered(fr.spans)
  /\ fr.kind # "prose" => fr.i \in 1..(Len(fr.spans) + 1)
  /\ fr.kind = "prose" =>
       /\ Len(fr.spans) = 1 /\ Clean(fr.i)
       /\ fr.spans[1].start <= fr.i /\ fr.i < fr.spans[1].end

(* The end of what a loop runs over. *)
Limit(fr) == fr.spans[Len(fr.spans)].end

(* An oversize span is given on as a whole, to a loop at its start. *)
LEMMA Splits ==
  ASSUME text \in Seq(Bytes), NEW kind \in Kinds, NEW span \in Spans, Piece(span.start, span.end)
  PROVE  /\ Loop(SplitterOf(kind, span))
         /\ Fills(SplitterOf(kind, span).spans, span.start, span.end)
         /\ SplitterOf(kind, span).kind = "prose" => SplitterOf(kind, span) = ProseFrame(span)
         /\ SplitterOf(kind, span).kind # "prose" => SplitterOf(kind, span).i = 1
<1> DEFINE s == span.start
           e == span.end
<1>1. ASSUME NEW us, NEW k \in {"groups", "lines"}, Ordered(us), Fills(us, s, e)
      PROVE  /\ Loop(Frame(k, us, 1)) /\ Fills(Frame(k, us, 1).spans, s, e)
             /\ Frame(k, us, 1).kind # "prose" /\ Frame(k, us, 1).i = 1
  <2>1. Frame(k, us, 1).kind = k /\ Frame(k, us, 1).spans = us /\ Frame(k, us, 1).i = 1
    BY DEF Frame
  <2>2. us \in Seq(Spans) /\ us # <<>> /\ Len(us) \in Nat
    BY <1>1 DEF Ordered
  <2>3. Frame(k, us, 1) \in Frames
    BY <1>1, <2>2 DEF Frame, Frames, Kinds
  <2>4. 1 \in 1..(Len(us) + 1)
    BY <2>2
  <2>5. k # "prose"
    BY <1>1
  <2> QED
    BY <1>1, <2>1, <2>3, <2>4, <2>5 DEF Loop
<1>2. /\ Loop(ProseFrame(span)) /\ Fills(ProseFrame(span).spans, s, e)
      /\ ProseFrame(span).kind = "prose"
  <2> DEFINE us == <<span>>
  <2>1. us \in Seq(Spans) /\ us # <<>> /\ DOMAIN us = {1} /\ Len(us) = 1 /\ us[1] = span
    OBVIOUS
  <2> HIDE DEF us
  <2>2. s \in Nat /\ e \in Nat /\ s < e /\ e <= Len(text) /\ Clean(s) /\ Clean(e) /\ ~(1 > 1) /\ s <= s
    BY DEF Piece
  <2>3. Ordered(us) /\ Fills(us, s, e)
    BY <2>1, <2>2 DEF Ordered, Fills
  <2>4. ProseFrame(span).kind = "prose" /\ ProseFrame(span).spans = us /\ ProseFrame(span).i = s
    BY DEF ProseFrame, Frame, us
  <2>5. ProseFrame(span) \in Frames
    <3>1. ProseFrame(span) = [kind |-> "prose", spans |-> us, i |-> s]
      BY DEF ProseFrame, Frame, us
    <3> QED
      BY <2>1, <2>2, <3>1 DEF Frames, Kinds
  <2>6. Loop(ProseFrame(span))
    BY <2>1, <2>2, <2>3, <2>4, <2>5 DEF Loop
  <2> QED
    BY <2>3, <2>4, <2>6
<1>3. Ordered(Lines(s, e)) /\ Fills(Lines(s, e), s, e)
  BY LinesFill
<1>4. Ordered(fencedGroups(s, e)) /\ Fills(fencedGroups(s, e), s, e)
  BY GroupsFill
<1>5. SplitterOf(kind, span) \in {Frame("groups", fencedGroups(s, e), 1), Frame("lines", Lines(s, e), 1), ProseFrame(span)}
  BY DEF SplitterOf
<1>6. CASE SplitterOf(kind, span) = Frame("groups", fencedGroups(s, e), 1)
  BY <1>1, <1>4, <1>6
<1>7. CASE SplitterOf(kind, span) = Frame("lines", Lines(s, e), 1)
  BY <1>1, <1>3, <1>7
<1>8. CASE SplitterOf(kind, span) = ProseFrame(span)
  BY <1>2, <1>8
<1> QED
  BY <1>5, <1>6, <1>7, <1>8

-------------------------------------------------------------------------------
(* How far a chunk grows and where the next one starts. *)

(* The budgets are numbers, and a chunk may hold something. *)
LEMMA BudgetType ==
  ASSUME cfg \in Configs
  PROVE  maxTok \in Nat /\ maxTok > 0 /\ overlapTok \in Nat
<1>1. /\ cfg.maxTokens \in Int /\ cfg.overlapTokens \in Int
      /\ DefaultMaxTokens \in Nat \ {0} /\ DefaultOverlapTokens \in Nat \ {0}
  BY ChunkAssumption
<1> QED
  BY <1>1 DEF maxTok, overlapTok

(* The sum of the tokens of consecutive spans is a number. *)
LEMMA SumType ==
  ASSUME text \in Seq(Bytes), NEW us \in Seq(Spans), NEW i \in 1..Len(us)
  PROVE  \A j \in (i - 1)..Len(us) : SumTokens(us, i, j) \in Nat
<1> DEFINE bad == {j \in (i - 1)..Len(us) : SumTokens(us, i, j) \notin Nat}
<1>1. SUFFICES ASSUME bad # {} PROVE FALSE
  OBVIOUS
<1>2. bad \in SUBSET Nat
  OBVIOUS
<1>3. PICK j \in bad : \A k \in bad : j <= k
  <2> HIDE DEF bad
  <2> QED
    BY <1>1, <1>2, Least
<1>4. j \in (i - 1)..Len(us) /\ j \in Nat /\ SumTokens(us, i, j) \notin Nat /\ i \in Nat /\ i >= 1
  OBVIOUS
<1>5. j # i - 1
  <2>1. SumTokens(us, i, i - 1) = 0
    BY <1>4, SumSteps
  <2> QED
    BY <1>4, <2>1
<1>6. j >= i /\ j \in 1..Len(us) /\ j - 1 \in (i - 1)..Len(us) /\ ~(j <= j - 1)
  BY <1>4, <1>5
<1>7. j - 1 \notin bad
  <2> HIDE DEF bad
  <2> QED
    BY <1>3, <1>6
<1>8. SumTokens(us, i, j - 1) \in Nat
  BY <1>6, <1>7
<1>9. Tokens(us, j) \in Nat
  BY <1>6, TokensType
<1>10. SumTokens(us, i, j) = SumTokens(us, i, j - 1) + Tokens(us, j)
  BY <1>4, <1>6, SumSteps
<1> QED
  BY <1>4, <1>8, <1>9, <1>10

(* A sum of fewer spans is no larger. *)
LEMMA SumShrinks ==
  ASSUME text \in Seq(Bytes), NEW us \in Seq(Spans), NEW i \in 1..Len(us), NEW l \in i..Len(us)
  PROVE  \A j \in (l - 1)..Len(us) : SumTokens(us, l, j) <= SumTokens(us, i, j)
<1> DEFINE bad == {j \in (l - 1)..Len(us) : ~(SumTokens(us, l, j) <= SumTokens(us, i, j))}
<1>1. SUFFICES ASSUME bad # {} PROVE FALSE
  OBVIOUS
<1>2. bad \in SUBSET Nat
  OBVIOUS
<1>3. PICK j \in bad : \A k \in bad : j <= k
  <2> HIDE DEF bad
  <2> QED
    BY <1>1, <1>2, Least
<1>4. /\ j \in (l - 1)..Len(us) /\ j \in Nat /\ ~(SumTokens(us, l, j) <= SumTokens(us, i, j))
      /\ i \in Nat /\ i >= 1 /\ l \in Nat /\ l >= 1 /\ l \in 1..Len(us)
  OBVIOUS
<1>5. j # l - 1
  <2>1. SumTokens(us, l, l - 1) = 0
    BY <1>4, SumSteps
  <2>2. l - 1 \in (i - 1)..Len(us)
    BY <1>4
  <2>3. SumTokens(us, i, l - 1) \in Nat
    BY <2>2, SumType
  <2> QED
    BY <1>4, <2>1, <2>3
<1>6. j >= l /\ j >= i /\ j \in 1..Len(us) /\ j - 1 \in (l - 1)..Len(us) /\ j - 1 \in (i - 1)..Len(us) /\ ~(j <= j - 1)
  BY <1>4, <1>5
<1>7. j - 1 \notin bad
  <2> HIDE DEF bad
  <2> QED
    BY <1>3, <1>6
<1>8. SumTokens(us, l, j - 1) <= SumTokens(us, i, j - 1)
  BY <1>6, <1>7
<1>9. Tokens(us, j) \in Nat
  BY <1>6, TokensType
<1>10. SumTokens(us, l, j - 1) \in Nat /\ SumTokens(us, i, j - 1) \in Nat
  BY <1>4, <1>6, SumType
<1>11. SumTokens(us, l, j) = SumTokens(us, l, j - 1) + Tokens(us, j)
  BY <1>4, <1>6, SumSteps
<1>12. SumTokens(us, i, j) = SumTokens(us, i, j - 1) + Tokens(us, j)
  BY <1>4, <1>6, SumSteps
<1> QED
  BY <1>4, <1>8, <1>9, <1>10, <1>11, <1>12

(* The sum of one span is its tokens. *)
LEMMA SumOne ==
  ASSUME text \in Seq(Bytes), NEW us \in Seq(Spans), NEW i \in 1..Len(us)
  PROVE  SumTokens(us, i, i) = Tokens(us, i)
<1>1. i \in Nat /\ i >= 1
  OBVIOUS
<1>2. SumTokens(us, i, i - 1) = 0 /\ SumTokens(us, i, i) = SumTokens(us, i, i - 1) + Tokens(us, i)
  BY <1>1, SumSteps
<1> QED
  BY <1>2, TokensType

(* A chunk grows to the last span that fits with all before it. *)
LEMMA GrowFits ==
  ASSUME text \in Seq(Bytes), NEW us \in Seq(Spans), NEW i \in 1..Len(us)
  PROVE  /\ growChunk(us, i) \in i..Len(us)
         /\ \A m \in (i + 1)..growChunk(us, i) : SumTokens(us, i, m) <= maxTok
         /\ \A j \in i..Len(us) :
              (\A m \in (i + 1)..j : SumTokens(us, i, m) <= maxTok) => j <= growChunk(us, i)
<1> DEFINE S == {j \in i..Len(us) : \A m \in (i + 1)..j : SumTokens(us, i, m) <= maxTok}
<1>1. S \in SUBSET Nat /\ Len(us) \in Nat /\ \A x \in S : x <= Len(us)
  OBVIOUS
<1>2. i \in S
  OBVIOUS
<1>3. Max(S) \in S /\ \A y \in S : y <= Max(S)
  <2> HIDE DEF S
  <2> QED
    BY <1>1, <1>2, MaxIsGreatest
<1>4. growChunk(us, i) = Max(S)
  BY DEF growChunk
<1> HIDE DEF S
<1>5. growChunk(us, i) \in S /\ \A y \in S : y <= growChunk(us, i)
  BY <1>3, <1>4
<1> QED
  BY <1>5 DEF S

(* A chunk that starts within an earlier one is no oversize span and reaches as far. *)
LEMMA GrowReaches ==
  ASSUME text \in Seq(Bytes), cfg \in Configs,
         NEW us \in Seq(Spans), NEW i \in 1..Len(us), NEW l \in (i + 1)..growChunk(us, i)
  PROVE  /\ l \in 1..Len(us) /\ Tokens(us, l) <= maxTok
         /\ growChunk(us, i) <= growChunk(us, l)
<1> DEFINE j == growChunk(us, i)
<1>1. j \in i..Len(us) /\ \A m \in (i + 1)..j : SumTokens(us, i, m) <= maxTok
  BY GrowFits
<1>2. l \in 1..Len(us) /\ l \in i..Len(us) /\ j \in l..Len(us) /\ l \in (l - 1)..Len(us)
      /\ \A m \in l..j : m \in (l - 1)..Len(us) /\ m \in (i + 1)..j /\ m \in (i - 1)..Len(us)
  BY <1>1
<1>3. \A m \in l..j : SumTokens(us, l, m) <= maxTok
  <2>1. ASSUME NEW m \in l..j PROVE SumTokens(us, l, m) <= maxTok
    <3>1. SumTokens(us, l, m) <= SumTokens(us, i, m)
      BY <1>2, SumShrinks
    <3>2. SumTokens(us, l, m) \in Nat /\ SumTokens(us, i, m) \in Nat
      BY <1>2, SumType
    <3>3. SumTokens(us, i, m) <= maxTok
      BY <1>1, <1>2
    <3> QED
      BY <3>1, <3>2, <3>3, BudgetType
  <2> QED
    BY <2>1
<1>4. Tokens(us, l) <= maxTok
  <2>1. l \in l..j
    BY <1>2
  <2> QED
    BY <1>2, <1>3, <2>1, SumOne
<1>5. \A m \in (l + 1)..j : SumTokens(us, l, m) <= maxTok
  <2>1. \A m \in (l + 1)..j : m \in l..j
    BY <1>2
  <2> QED
    BY <1>3, <2>1
<1>6. j <= growChunk(us, l)
  BY <1>2, <1>5, GrowFits
<1> QED
  BY <1>2, <1>4, <1>6

(* The next chunk starts behind the first span of this one and no later than behind its
   last, and what it repeats fits the overlap budget. *)
LEMMA OverlapFits ==
  ASSUME text \in Seq(Bytes), cfg \in Configs,
         NEW us \in Seq(Spans), NEW i \in 1..Len(us), NEW j \in i..Len(us)
  PROVE  /\ overlapStart(us, i, j) \in (i + 1)..(j + 1)
         /\ \A m \in overlapStart(us, i, j)..j : SumTokens(us, m, j) <= overlapTok
<1>1. CASE overlapTok <= 0
  <2>1. overlapStart(us, i, j) = j + 1
    BY <1>1 DEF overlapStart
  <2>2. j + 1 \in (i + 1)..(j + 1) /\ \A m \in (j + 1)..j : FALSE
    OBVIOUS
  <2> QED
    BY <2>1, <2>2
<1>2. CASE ~(overlapTok <= 0)
  <2> DEFINE S == {ov \in (i + 1)..(j + 1) : \A m \in ov..j : SumTokens(us, m, j) <= overlapTok}
  <2>1. S \in SUBSET Nat
    OBVIOUS
  <2>2. j + 1 \in S
    <3>1. j + 1 \in (i + 1)..(j + 1) /\ \A m \in (j + 1)..j : FALSE
      OBVIOUS
    <3> QED
      BY <3>1
  <2>3. Min(S) \in S
    <3> HIDE DEF S
    <3> QED
      BY <2>1, <2>2, MinIsLeast
  <2>4. overlapStart(us, i, j) = Min(S)
    BY <1>2 DEF overlapStart
  <2> HIDE DEF S
  <2>5. overlapStart(us, i, j) \in S
    BY <2>3, <2>4
  <2> QED
    BY <2>5 DEF S
<1> QED
  BY <1>1, <1>2

-------------------------------------------------------------------------------
(* Windows of prose and the runes at their ends. *)

(* The maximum of two numbers. *)
LEMMA MaxOfTwo ==
  ASSUME NEW a \in Int, NEW b \in Int
  PROVE  Max({a, b}) = IF a >= b THEN a ELSE b
<1> DEFINE m == IF a >= b THEN a ELSE b
<1>1. m \in {a, b} /\ \A y \in {a, b} : m >= y
  OBVIOUS
<1>2. Max({a, b}) \in {a, b} /\ \A y \in {a, b} : Max({a, b}) >= y
  <2> HIDE DEF m
  <2> QED
    BY <1>1 DEF Max
<1> QED
  BY <1>2

(* The minimum of two numbers. *)
LEMMA MinOfTwo ==
  ASSUME NEW a \in Int, NEW b \in Int
  PROVE  Min({a, b}) = IF a <= b THEN a ELSE b
<1> DEFINE m == IF a <= b THEN a ELSE b
<1>1. m \in {a, b} /\ \A y \in {a, b} : m <= y
  OBVIOUS
<1>2. Min({a, b}) \in {a, b} /\ \A y \in {a, b} : Min({a, b}) <= y
  <2> HIDE DEF m
  <2> QED
    BY <1>1 DEF Min
<1> QED
  BY <1>2

(* A window of prose advances by at least a byte. *)
LEMMA WindowType ==
  ASSUME text \in Seq(Bytes), cfg \in Configs, NEW span \in Spans, span.start < span.end
  PROVE  /\ Total(span) \in Nat /\ Total(span) > 0
         /\ Target(span) \in Nat /\ Target(span) > 0
         /\ Overlap(span) \in Nat
<1>1. span.start \in Nat /\ span.end \in Nat
  BY DEF Spans
<1> DEFINE t == est(span.start, span.end)
<1>2. t \in Nat
  BY <1>1, EstType
<1>3. Total(span) = IF t >= 1 THEN t ELSE 1
  BY <1>2, MaxOfTwo DEF Total
<1>4. Total(span) \in Nat /\ Total(span) > 0
  BY <1>2, <1>3
<1> DEFINE len == span.end - span.start
<1>5. len \in Nat
  BY <1>1
<1>6. maxTok \in Nat /\ overlapTok \in Nat
  BY BudgetType
<1>7. \A x, y \in Nat : x * y \in Nat
  OBVIOUS
<1>8. \A x, y \in Nat : y > 0 => x \div y \in Nat
  OBVIOUS
<1>9. (maxTok * len) \div Total(span) \in Nat /\ (overlapTok * len) \div Total(span) \in Nat
  BY <1>4, <1>5, <1>6, <1>7, <1>8
<1>10. Overlap(span) \in Nat
  BY <1>9 DEF Overlap
<1> DEFINE w == (maxTok * len) \div Total(span)
<1>11. Target(span) = Max({w, 1})
  BY DEF Target
<1> HIDE DEF w
<1>12. w \in Nat
  BY <1>9 DEF w
<1>13. Target(span) = IF w >= 1 THEN w ELSE 1
  BY <1>11, <1>12, MaxOfTwo
<1> QED
  BY <1>4, <1>10, <1>12, <1>13

(* Where the last quarter of a window starts. *)
Quarter(s, ideal) == ideal - (ideal - s) \div 4

Sentences(s, ideal) == {k \in (Quarter(s, ideal) + 1)..(ideal - 1) : text[k] = "." /\ text[k + 1] = " "}

Blanks(s, ideal) == {k \in (Quarter(s, ideal) + 1)..ideal : IsSpace(text[k])}

(* findBoundary cuts at the last sentence end of the last quarter, else at its last blank,
   else at its end. *)
LEMMA BoundaryCases ==
  ASSUME NEW s \in Nat, NEW ideal \in Nat, s < ideal
  PROVE  /\ Quarter(s, ideal) \in (s + 1)..ideal
         /\ Sentences(s, ideal) # {} =>
              /\ findBoundary(s, ideal) \in Sentences(s, ideal)
              /\ \A k \in Sentences(s, ideal) : k <= findBoundary(s, ideal)
         /\ Sentences(s, ideal) = {} /\ Blanks(s, ideal) # {} =>
              /\ findBoundary(s, ideal) + 1 \in Blanks(s, ideal)
              /\ findBoundary(s, ideal) \in Nat
              /\ \A k \in Blanks(s, ideal) : k <= findBoundary(s, ideal) + 1
         /\ Sentences(s, ideal) = {} /\ Blanks(s, ideal) = {} => findBoundary(s, ideal) = ideal
<1> DEFINE d == ideal - s
           q == Quarter(s, ideal)
<1>1. d \in Nat /\ d > 0 /\ d \div 4 \in Nat /\ d \div 4 < d
  OBVIOUS
<1>2. q \in (s + 1)..ideal /\ q \in Nat
  BY <1>1 DEF Quarter
<1>3. Max({ideal - (ideal - s) \div 4, s}) = q
  <2>1. Max({q, s}) = IF q >= s THEN q ELSE s
    BY <1>2, MaxOfTwo
  <2> QED
    BY <1>2, <2>1 DEF Quarter
<1>4. findBoundary(s, ideal) =
        IF Sentences(s, ideal) # {} THEN Max(Sentences(s, ideal))
        ELSE IF Blanks(s, ideal) # {} THEN Max(Blanks(s, ideal)) - 1
        ELSE ideal
  BY <1>3 DEF findBoundary, Sentences, Blanks
<1>5. /\ Sentences(s, ideal) \in SUBSET Nat /\ \A x \in Sentences(s, ideal) : x <= ideal
      /\ Blanks(s, ideal) \in SUBSET Nat /\ \A x \in Blanks(s, ideal) : x <= ideal /\ x > 0
  <2>1. \A x \in (q + 1)..ideal : x \in Nat /\ x <= ideal /\ x > 0
    BY <1>2
  <2>2. \A x \in (q + 1)..(ideal - 1) : x \in Nat /\ x <= ideal
    BY <1>2
  <2> HIDE DEF q
  <2>3. Sentences(s, ideal) \subseteq (q + 1)..(ideal - 1) /\ Blanks(s, ideal) \subseteq (q + 1)..ideal
    BY DEF Sentences, Blanks, q
  <2> QED
    BY <2>1, <2>2, <2>3
<1> HIDE DEF q, d
<1>6. CASE Sentences(s, ideal) # {}
  BY <1>2, <1>4, <1>5, <1>6, MaxIsGreatest DEF q
<1>7. CASE Sentences(s, ideal) = {} /\ Blanks(s, ideal) # {}
  <2>1. /\ Max(Blanks(s, ideal)) \in Blanks(s, ideal)
        /\ Max(Blanks(s, ideal)) \in Nat
        /\ \A k \in Blanks(s, ideal) : k <= Max(Blanks(s, ideal))
    BY <1>5, <1>7, MaxIsGreatest
  <2>2. findBoundary(s, ideal) = Max(Blanks(s, ideal)) - 1 /\ Max(Blanks(s, ideal)) > 0
    BY <1>4, <1>5, <1>7, <2>1
  <2>3. findBoundary(s, ideal) + 1 = Max(Blanks(s, ideal)) /\ findBoundary(s, ideal) \in Nat
    BY <2>1, <2>2
  <2> QED
    BY <1>2, <1>7, <2>1, <2>3 DEF q
<1>8. CASE Sentences(s, ideal) = {} /\ Blanks(s, ideal) = {}
  BY <1>2, <1>4, <1>8 DEF q
<1> QED
  BY <1>6, <1>7, <1>8

(* The cut lies in the last quarter of the window. *)
LEMMA BoundaryRange ==
  ASSUME NEW s \in Nat, NEW ideal \in Nat, s < ideal
  PROVE  findBoundary(s, ideal) \in Quarter(s, ideal)..ideal /\ findBoundary(s, ideal) \in Nat
<1>1. Quarter(s, ideal) \in (s + 1)..ideal /\ Quarter(s, ideal) \in Nat
  BY BoundaryCases
<1>2. CASE Sentences(s, ideal) # {}
  <2>1. findBoundary(s, ideal) \in Sentences(s, ideal)
    BY <1>2, BoundaryCases
  <2>2. findBoundary(s, ideal) \in (Quarter(s, ideal) + 1)..(ideal - 1)
    BY <2>1 DEF Sentences
  <2> QED
    BY <1>1, <2>2
<1>3. CASE Sentences(s, ideal) = {} /\ Blanks(s, ideal) # {}
  <2>1. findBoundary(s, ideal) + 1 \in Blanks(s, ideal) /\ findBoundary(s, ideal) \in Nat
    BY <1>3, BoundaryCases
  <2>2. findBoundary(s, ideal) + 1 \in (Quarter(s, ideal) + 1)..ideal
    BY <2>1 DEF Blanks
  <2> QED
    BY <1>1, <2>1, <2>2
<1>4. CASE Sentences(s, ideal) = {} /\ Blanks(s, ideal) = {}
  <2>1. findBoundary(s, ideal) = ideal
    BY <1>4, BoundaryCases
  <2> QED
    BY <1>1, <2>1
<1> QED
  BY <1>2, <1>3, <1>4

(* A window of the same size further on is cut no earlier. *)
LEMMA BoundaryAdvances ==
  ASSUME NEW s \in Nat, NEW ideal \in Nat, NEW s2 \in Nat, NEW ideal2 \in Nat,
         s < ideal, s < s2, ideal2 - s2 = ideal - s
  PROVE  findBoundary(s, ideal) <= findBoundary(s2, ideal2)
<1> DEFINE q == Quarter(s, ideal)
           q2 == Quarter(s2, ideal2)
           b == findBoundary(s, ideal)
           b2 == findBoundary(s2, ideal2)
<1>1. s2 < ideal2 /\ ideal < ideal2
  OBVIOUS
<1>2. q \in Nat /\ q2 \in Nat /\ q < q2 /\ q2 <= ideal2 /\ q <= ideal
  <2>1. q \in (s + 1)..ideal /\ q2 \in (s2 + 1)..ideal2
    BY <1>1, BoundaryCases
  <2>2. (ideal - s) \div 4 \in Nat /\ (ideal2 - s2) \div 4 = (ideal - s) \div 4
    OBVIOUS
  <2>3. q < q2
    BY <2>2 DEF Quarter
  <2> QED
    BY <2>1, <2>3
<1>3. b \in q..ideal /\ b \in Nat /\ b2 \in q2..ideal2 /\ b2 \in Nat
  BY <1>1, BoundaryRange
<1> HIDE DEF q, q2, b, b2
<1>0. /\ q \in Int /\ q2 \in Int /\ b \in Int /\ b2 \in Int /\ ideal \in Int /\ ideal2 \in Int
      /\ b <= ideal /\ q2 <= b2 /\ b2 <= ideal2 /\ q < q2 /\ ideal < ideal2
  BY <1>1, <1>2, <1>3
<1>8. SUFFICES b <= b2
  BY DEF b, b2
<1>4. CASE b <= q2
  BY <1>0, <1>4
<1>5. CASE b > q2 /\ Sentences(s, ideal) # {}
  <2>1. b \in Sentences(s, ideal)
    BY <1>5, BoundaryCases DEF b, b2
  <2>2. b \in (q + 1)..(ideal - 1) /\ text[b] = "." /\ text[b + 1] = " "
    BY <2>1 DEF Sentences, q, q2
  <2>3. b \in (q2 + 1)..(ideal2 - 1)
    <3>1. b \in (q + 1)..(ideal - 1) /\ b > q2
      BY <1>5, <2>2
    <3> QED
      BY <1>0, <3>1
  <2>4. b \in Sentences(s2, ideal2)
    BY <2>2, <2>3 DEF Sentences, q, q2
  <2> QED
    BY <1>1, <2>4, BoundaryCases DEF b, b2
<1>6. CASE b > q2 /\ Sentences(s, ideal) = {}
  <2>1. ASSUME Sentences(s2, ideal2) # {} PROVE b <= b2
    <3>1. b2 \in Sentences(s2, ideal2)
      BY <1>1, <2>1, BoundaryCases DEF b, b2
    <3>2. b2 \in (q2 + 1)..(ideal2 - 1) /\ text[b2] = "." /\ text[b2 + 1] = " "
      BY <3>1 DEF Sentences, q, q2
    <3>3. b2 \notin (q + 1)..(ideal - 1)
      BY <1>6, <3>2 DEF Sentences, q, q2
    <3>4. b2 > q2
      <4>1. b2 \in (q2 + 1)..(ideal2 - 1)
        BY <3>2
      <4> QED
        BY <1>0, <4>1
    <3>5. b2 >= ideal
      BY <1>0, <3>3, <3>4
    <3> QED
      BY <1>0, <3>5
  <2>2. ASSUME Sentences(s2, ideal2) = {}, Blanks(s2, ideal2) # {}, Blanks(s, ideal) # {} PROVE b <= b2
    <3>1. b + 1 \in Blanks(s, ideal)
      BY <1>6, <2>2, BoundaryCases DEF b, b2
    <3>2. b + 1 \in (q2 + 1)..ideal2 /\ IsSpace(text[b + 1])
      BY <1>1, <1>2, <1>3, <1>6, <3>1 DEF Blanks, q, q2
    <3>3. b + 1 \in Blanks(s2, ideal2)
      BY <3>2 DEF Blanks, q, q2
    <3>4. b + 1 <= b2 + 1
      BY <1>1, <2>2, <3>3, BoundaryCases DEF b, b2
    <3> QED
      BY <1>3, <3>4
  <2>3. ASSUME Sentences(s2, ideal2) = {}, Blanks(s2, ideal2) # {}, Blanks(s, ideal) = {} PROVE b <= b2
    <3>1. b2 + 1 \in Blanks(s2, ideal2)
      BY <1>1, <2>3, BoundaryCases DEF b, b2
    <3>2. b2 + 1 \in (q2 + 1)..ideal2 /\ IsSpace(text[b2 + 1])
      BY <3>1 DEF Blanks, q, q2
    <3>3. b2 + 1 \notin (q + 1)..ideal
      BY <2>3, <3>2 DEF Blanks, q, q2
    <3> QED
      BY <1>2, <1>3, <3>2, <3>3
  <2>4. ASSUME Sentences(s2, ideal2) = {}, Blanks(s2, ideal2) = {} PROVE b <= b2
    <3>1. b2 = ideal2
      BY <1>1, <2>4, BoundaryCases DEF b, b2
    <3> QED
      BY <1>1, <1>3, <3>1
  <2> QED
    BY <2>1, <2>2, <2>3, <2>4
<1> QED
  BY <1>0, <1>4, <1>5, <1>6

(* The first rune behind s ends at the first offset behind it that cuts none. *)
LEMMA RuneEnds ==
  ASSUME text \in Seq(Bytes), NEW s \in Nat, s < Len(text), Clean(s)
  PROVE  /\ Min({s + RuneSize(text, s), Len(text)}) = s + RuneSize(text, s)
         /\ s + RuneSize(text, s) \in (s + 1)..Len(text)
         /\ Clean(s + RuneSize(text, s))
         /\ \A e \in (s + 1)..Len(text) : Clean(e) => s + RuneSize(text, s) <= e
<1>1. s \in 0..(Len(text) - 1) /\ Len(text) \in Nat
  OBVIOUS
<1>2. /\ s + RuneSize(text, s) \in (s + 1)..Len(text)
      /\ Clean(s + RuneSize(text, s))
      /\ \A e \in (s + 1)..Len(text) : Clean(e) => s + RuneSize(text, s) <= e
  BY <1>1, NextClean
<1>3. s + RuneSize(text, s) \in Int /\ s + RuneSize(text, s) <= Len(text)
  BY <1>1, <1>2
<1>4. Min({s + RuneSize(text, s), Len(text)}) = s + RuneSize(text, s)
  BY <1>1, <1>3, MinOfTwo
<1> QED
  BY <1>2, <1>4

Cuts(s, x) == {y \in s..x : y = s \/ y = Len(text) \/ RuneStart(text[y + 1])}

(* A chunk of prose is not empty, cuts no rune and stays before any end that cuts none. *)
LEMMA SnapEnd ==
  ASSUME text \in Seq(Bytes), NEW s \in Nat, NEW x \in (s + 1)..Len(text), Clean(s)
  PROVE  /\ snapEndToRuneBoundary(s, x) \in (s + 1)..Len(text)
         /\ Clean(snapEndToRuneBoundary(s, x))
         /\ \A e \in x..Len(text) : Clean(e) => snapEndToRuneBoundary(s, x) <= e
         /\ \/ snapEndToRuneBoundary(s, x) = Max(Cuts(s, x)) /\ Max(Cuts(s, x)) > s
            \/ snapEndToRuneBoundary(s, x) = s + RuneSize(text, s)
         /\ Max(Cuts(s, x)) \in Cuts(s, x) /\ \A y \in Cuts(s, x) : y <= Max(Cuts(s, x))
         /\ Max(Cuts(s, x)) <= snapEndToRuneBoundary(s, x)
<1> DEFINE S == Cuts(s, x)
           m == Max(S)
           r == snapEndToRuneBoundary(s, x)
<1>1. s \in S /\ S \in SUBSET Nat /\ x \in Nat /\ \A y \in S : y <= x /\ y >= s
  BY DEF Cuts
<1>2. m \in S /\ m \in Nat /\ \A y \in S : y <= m
  BY <1>1, MaxIsGreatest
<1>3. r = IF m > s THEN m ELSE s + RuneSize(text, s)
  <2>1. Min({s + RuneSize(text, s), Len(text)}) = s + RuneSize(text, s)
    BY RuneEnds
  <2> QED
    BY <2>1 DEF snapEndToRuneBoundary, Cuts
<1> HIDE DEF r, m
<1>4. CASE m > s
  <2>1. Aligned(m) /\ m \in s..x
    BY <1>2, <1>4 DEF Cuts, Aligned
  <2>2. Clean(m)
    BY <2>1, AlignedClean
  <2> QED
    BY <1>2, <1>3, <1>4, <2>1, <2>2 DEF m, r
<1>5. CASE ~(m > s)
  <2>1. s < Len(text)
    OBVIOUS
  <2>2. /\ r \in (s + 1)..Len(text) /\ Clean(r)
        /\ \A e \in (s + 1)..Len(text) : Clean(e) => r <= e
    BY <1>3, <1>5, <2>1, RuneEnds
  <2>3. \A e \in x..Len(text) : e \in (s + 1)..Len(text)
    OBVIOUS
  <2>4. m <= r
    BY <1>2, <1>5, <2>2
  <2>5. r = s + RuneSize(text, s)
    BY <1>3, <1>5
  <2> QED
    BY <1>2, <2>2, <2>3, <2>4, <2>5 DEF r, m
<1> QED
  BY <1>4, <1>5

(* A later window that starts with a rune ends no earlier. *)
LEMMA SnapAdvances ==
  ASSUME text \in Seq(Bytes), NEW s \in Nat, NEW x \in (s + 1)..Len(text),
         NEW s2 \in Nat, NEW x2 \in (s2 + 1)..Len(text), s < s2, x <= x2, Clean(s), Aligned(s2)
  PROVE  snapEndToRuneBoundary(s, x) <= snapEndToRuneBoundary(s2, x2)
<1>0. Clean(s2)
  <2>1. s2 \in 0..Len(text)
    OBVIOUS
  <2> QED
    BY <2>1, AlignedClean
<1> DEFINE r == snapEndToRuneBoundary(s, x)
           r2 == snapEndToRuneBoundary(s2, x2)
<1>1. /\ r \in (s + 1)..Len(text) /\ r \in Nat
      /\ \/ r = Max(Cuts(s, x)) /\ Max(Cuts(s, x)) > s
         \/ r = s + RuneSize(text, s)
      /\ Max(Cuts(s, x)) \in Cuts(s, x)
  <2>1. r \in (s + 1)..Len(text)
    BY SnapEnd
  <2>2. \/ r = Max(Cuts(s, x)) /\ Max(Cuts(s, x)) > s
        \/ r = s + RuneSize(text, s)
    BY SnapEnd
  <2>3. Max(Cuts(s, x)) \in Cuts(s, x)
    BY SnapEnd
  <2> QED
    BY <2>1, <2>2, <2>3
<1>2. /\ r2 \in (s2 + 1)..Len(text) /\ r2 \in Nat
      /\ \A y \in Cuts(s2, x2) : y <= Max(Cuts(s2, x2))
      /\ Max(Cuts(s2, x2)) <= r2
  <2>1. r2 \in (s2 + 1)..Len(text)
    BY <1>0, SnapEnd
  <2>2. \A y \in Cuts(s2, x2) : y <= Max(Cuts(s2, x2))
    BY <1>0, SnapEnd
  <2>3. Max(Cuts(s2, x2)) <= r2
    BY <1>0, SnapEnd
  <2> QED
    BY <2>1, <2>2, <2>3
<1>3. CASE r <= s2
  BY <1>1, <1>2, <1>3
<1>4. CASE r > s2 /\ r = Max(Cuts(s, x)) /\ Max(Cuts(s, x)) > s
  <2>1. r \in Cuts(s, x) /\ r # s
    BY <1>1, <1>4
  <2>2. r \in s2..x2 /\ (r = Len(text) \/ RuneStart(text[r + 1]))
    BY <1>1, <1>4, <2>1 DEF Cuts
  <2>3. r \in Cuts(s2, x2)
    BY <2>2 DEF Cuts
  <2>4. Max(Cuts(s2, x2)) \in Nat
    <3>1. Max(Cuts(s2, x2)) \in Cuts(s2, x2)
      BY <1>0, SnapEnd
    <3> QED
      BY <3>1 DEF Cuts
  <2> QED
    BY <1>1, <1>2, <2>3, <2>4
<1>5. CASE r > s2 /\ r = s + RuneSize(text, s)
  <2>1. s2 \in (s + 1)..Len(text) /\ s < Len(text)
    OBVIOUS
  <2>2. r <= s2
    BY <1>0, <1>5, <2>1, RuneEnds
  <2> QED
    BY <1>1, <1>5, <2>2
<1> QED
  BY <1>1, <1>3, <1>4, <1>5

(* The end of the window in the prose of span at pos. *)
WindowEnd(span, pos) ==
  IF pos + Target(span) >= span.end THEN span.end ELSE findBoundary(pos, pos + Target(span))

(* The window of a chunk of prose is not empty and lies in its span. *)
LEMMA WindowRange ==
  ASSUME text \in Seq(Bytes), cfg \in Configs, NEW span \in Spans, Piece(span.start, span.end),
         NEW pos \in span.start..(span.end - 1)
  PROVE  /\ WindowEnd(span, pos) \in (pos + 1)..span.end
         /\ WindowEnd(span, pos) = span.end \/ WindowEnd(span, pos) <= pos + Target(span)
         /\ ProseEnd(span, pos) = snapEndToRuneBoundary(pos, WindowEnd(span, pos))
<1>1. span.start \in Nat /\ span.end \in Nat /\ span.start < span.end
  BY DEF Piece
<1>2. Target(span) \in Nat /\ Target(span) > 0
  BY <1>1, WindowType
<1> DEFINE ideal == pos + Target(span)
<1>3. pos \in Nat /\ ideal \in Nat /\ pos < ideal
  BY <1>1, <1>2
<1>4. /\ findBoundary(pos, ideal) \in Quarter(pos, ideal)..ideal
      /\ findBoundary(pos, ideal) \in Nat
      /\ Quarter(pos, ideal) \in (pos + 1)..ideal
  BY <1>3, BoundaryRange, BoundaryCases
<1>5. findBoundary(pos, ideal) \in (pos + 1)..ideal
  BY <1>3, <1>4
<1>6. WindowEnd(span, pos) \in (pos + 1)..span.end /\ (WindowEnd(span, pos) = span.end \/ WindowEnd(span, pos) <= ideal)
  <2>1. CASE ideal >= span.end
    <3>1. WindowEnd(span, pos) = span.end
      BY <2>1 DEF WindowEnd
    <3> QED
      BY <1>1, <3>1
  <2>2. CASE ~(ideal >= span.end)
    <3>1. WindowEnd(span, pos) = findBoundary(pos, ideal)
      BY <2>2 DEF WindowEnd
    <3> QED
      BY <1>1, <1>3, <1>5, <2>2, <3>1
  <2> QED
    BY <2>1, <2>2
<1>7. ProseEnd(span, pos) = snapEndToRuneBoundary(pos, WindowEnd(span, pos))
  BY DEF ProseEnd, WindowEnd
<1> QED
  BY <1>6, <1>7

(* A chunk of prose is not empty, lies in its span and cuts no rune. *)
LEMMA ProseEnds ==
  ASSUME text \in Seq(Bytes), cfg \in Configs, NEW span \in Spans, Piece(span.start, span.end),
         NEW pos \in span.start..(span.end - 1), Clean(pos)
  PROVE  /\ ProseEnd(span, pos) \in (pos + 1)..span.end /\ ProseEnd(span, pos) \in Nat
         /\ Clean(ProseEnd(span, pos))
<1> DEFINE x == WindowEnd(span, pos)
<1>1. span.start \in Nat /\ span.end \in Nat /\ span.end <= Len(text) /\ Clean(span.end) /\ Len(text) \in Nat
  BY DEF Piece
<1>2. x \in (pos + 1)..span.end /\ ProseEnd(span, pos) = snapEndToRuneBoundary(pos, x)
  BY WindowRange
<1> HIDE DEF x
<1>3. pos \in Nat /\ x \in (pos + 1)..Len(text) /\ span.end \in x..Len(text)
  BY <1>1, <1>2
<1>4. /\ snapEndToRuneBoundary(pos, x) \in (pos + 1)..Len(text)
      /\ Clean(snapEndToRuneBoundary(pos, x))
      /\ snapEndToRuneBoundary(pos, x) <= span.end
  <2>1. snapEndToRuneBoundary(pos, x) \in (pos + 1)..Len(text)
    BY <1>3, SnapEnd
  <2>2. Clean(snapEndToRuneBoundary(pos, x))
    BY <1>3, SnapEnd
  <2>3. \A e \in x..Len(text) : Clean(e) => snapEndToRuneBoundary(pos, x) <= e
    BY <1>3, SnapEnd
  <2> QED
    BY <1>1, <1>3, <2>1, <2>2, <2>3
<1> QED
  BY <1>1, <1>2, <1>3, <1>4

(* A chunk of prose that starts later ends no earlier. *)
LEMMA ProseAdvances ==
  ASSUME text \in Seq(Bytes), cfg \in Configs, NEW span \in Spans, Piece(span.start, span.end),
         NEW pos \in span.start..(span.end - 1), NEW next \in (pos + 1)..(span.end - 1),
         Clean(pos), Aligned(next)
  PROVE  ProseEnd(span, pos) <= ProseEnd(span, next)
<1> DEFINE x == WindowEnd(span, pos)
           x2 == WindowEnd(span, next)
<1>1. span.start \in Nat /\ span.end \in Nat /\ span.end <= Len(text) /\ Len(text) \in Nat /\ span.start < span.end
  BY DEF Piece
<1>2. next \in span.start..(span.end - 1) /\ pos \in Nat /\ next \in Nat /\ pos < next
  BY <1>1
<1>3. x \in (pos + 1)..span.end /\ ProseEnd(span, pos) = snapEndToRuneBoundary(pos, x)
  BY WindowRange
<1>4. x2 \in (next + 1)..span.end /\ ProseEnd(span, next) = snapEndToRuneBoundary(next, x2)
  BY <1>2, WindowRange
<1>5. Target(span) \in Nat /\ Target(span) > 0
  BY <1>1, WindowType
<1>6. x <= x2
  <2> DEFINE t == Target(span)
             ideal == pos + t
             ideal2 == next + t
  <2>1. t \in Nat /\ t > 0
    BY <1>5
  <2> HIDE DEF t
  <2>2. CASE ideal2 >= span.end
    <3>1. x2 = span.end
      BY <2>2 DEF WindowEnd, t
    <3> QED
      BY <1>1, <1>2, <1>3, <3>1
  <2>3. CASE ~(ideal2 >= span.end)
    <3>1. ~(ideal >= span.end)
      BY <1>1, <1>2, <2>1, <2>3
    <3>2. x = findBoundary(pos, ideal) /\ x2 = findBoundary(next, ideal2)
      BY <2>3, <3>1 DEF WindowEnd, t
    <3>3. ideal \in Nat /\ ideal2 \in Nat /\ pos < ideal /\ ideal2 - next = ideal - pos
      BY <1>2, <2>1
    <3>4. findBoundary(pos, ideal) <= findBoundary(next, ideal2)
      BY <1>2, <3>3, BoundaryAdvances
    <3> QED
      BY <3>2, <3>4
  <2> QED
    BY <2>2, <2>3
<1> HIDE DEF x, x2
<1>7. x \in (pos + 1)..Len(text) /\ x2 \in (next + 1)..Len(text)
  BY <1>1, <1>2, <1>3, <1>4
<1>8. snapEndToRuneBoundary(pos, x) <= snapEndToRuneBoundary(next, x2)
  BY <1>2, <1>6, <1>7, SnapAdvances
<1> QED
  BY <1>3, <1>4, <1>8

(* snapStartToRuneStart goes on to the first offset at which a rune starts. *)
LEMMA SnapStart ==
  ASSUME text \in Seq(Bytes), NEW x \in 0..Len(text)
  PROVE  /\ snapStartToRuneStart(x) \in x..Len(text) /\ snapStartToRuneStart(x) \in Nat
         /\ Aligned(snapStartToRuneStart(x))
         /\ \A z \in x..Len(text) : Aligned(z) => snapStartToRuneStart(x) <= z
<1> DEFINE S == {y \in x..Len(text) : Aligned(y)}
<1>1. Len(text) \in S /\ S \in SUBSET Nat
  BY DEF Aligned
<1>2. snapStartToRuneStart(x) = Min(S)
  BY DEF snapStartToRuneStart, Aligned
<1>3. Min(S) \in S /\ Min(S) \in Nat /\ \A y \in S : Min(S) <= y
  <2> HIDE DEF S
  <2> QED
    BY <1>1, MinIsLeast
<1> QED
  BY <1>2, <1>3

(* The next chunk of prose starts later, with a rune; of valid text, no later than the end. *)
LEMMA ProseGoesOn ==
  ASSUME text \in Seq(Bytes), cfg \in Configs, NEW span \in Spans, Piece(span.start, span.end),
         NEW pos \in span.start..(span.end - 1), Clean(pos)
  PROVE  /\ ProseNext(span, pos) \in (pos + 1)..Len(text) /\ ProseNext(span, pos) \in Nat
         /\ Aligned(ProseNext(span, pos))
         /\ Aligned(ProseEnd(span, pos)) => ProseNext(span, pos) <= ProseEnd(span, pos)
<1> DEFINE e == ProseEnd(span, pos)
           ov == Overlap(span)
           x == IF e - ov >= pos + 1 THEN e - ov ELSE pos + 1
<1>1. span.start \in Nat /\ span.end \in Nat /\ span.end <= Len(text) /\ Len(text) \in Nat /\ span.start < span.end
  BY DEF Piece
<1>2. e \in (pos + 1)..span.end /\ e \in Nat /\ pos \in Nat
  BY <1>1, ProseEnds
<1>3. ov \in Nat
  BY <1>1, WindowType
<1> HIDE DEF e, ov
<1>4. Max({e - ov, pos + 1}) = x
  BY <1>2, <1>3, MaxOfTwo
<1>5. x \in 0..Len(text) /\ x >= pos + 1 /\ x <= e /\ e \in x..Len(text) /\ x \in Nat
  BY <1>1, <1>2, <1>3
<1>6. ProseNext(span, pos) = snapStartToRuneStart(x)
  BY <1>4 DEF ProseNext, e, ov
<1> HIDE DEF x
<1>7. /\ snapStartToRuneStart(x) \in x..Len(text) /\ snapStartToRuneStart(x) \in Nat
      /\ Aligned(snapStartToRuneStart(x))
      /\ \A z \in x..Len(text) : Aligned(z) => snapStartToRuneStart(x) <= z
  BY <1>5, SnapStart
<1>8. ProseNext(span, pos) \in (pos + 1)..Len(text)
  BY <1>1, <1>2, <1>5, <1>6, <1>7
<1>9. Aligned(e) => ProseNext(span, pos) <= e
  BY <1>5, <1>6, <1>7
<1> QED
  BY <1>6, <1>7, <1>8, <1>9 DEF e

-------------------------------------------------------------------------------
(* Chunks, and loops nested one in another. *)

Chunks == [text : Seq(Bytes), start : Nat, end : Nat, tokens : Nat, by : {"packed", "prose"}]

(* A chunk is a piece of the text, o bytes into the source. *)
CutFrom(c, o) ==
  /\ c \in Chunks /\ c.start >= o
  /\ Piece(c.start - o, c.end - o)
  /\ c.text = SubSeq(text, c.start - o + 1, c.end - o)

Made(chs, o) == chs \in Seq(Chunks) /\ \A k \in DOMAIN chs : CutFrom(chs[k], o)

Advancing(chs) ==
  \A k \in 2..Len(chs) : chs[k - 1].start < chs[k].start /\ chs[k - 1].end <= chs[k].end

(* Each running loop runs over the span that the one around it gave away last. *)
Within(outer, inner) ==
  /\ outer.kind # "prose" /\ outer.i > 1
  /\ Fills(inner.spans, outer.spans[outer.i - 1].start, outer.spans[outer.i - 1].end)

Nested(frs) ==
  /\ frs \in Seq(Frames)
  /\ \A f \in DOMAIN frs : Loop(frs[f])
  /\ frs # <<>> => frs[1].kind = "units" /\ frs[1].spans = Units
  /\ \A f \in DOMAIN frs : f > 1 => Within(frs[f - 1], frs[f])

(* Where the next chunk of a loop ends, or at least starts. *)
Reach(fr) ==
  IF fr.kind = "prose" THEN ProseEnd(fr.spans[1], fr.i)
  ELSE IF fr.i > Len(fr.spans) THEN Limit(fr)
  ELSE IF Tokens(fr.spans, fr.i) > maxTok THEN fr.spans[fr.i].start
  ELSE fr.spans[growChunk(fr.spans, fr.i)].end

(* Where the next chunk of a loop starts, or at least ends. *)
Resume(fr) ==
  IF fr.kind = "prose" THEN fr.i
  ELSE IF fr.i > Len(fr.spans) THEN Limit(fr)
  ELSE fr.spans[fr.i].start

(* The chunks so far are behind what a loop makes next. *)
Behind(fr, chs) ==
  \A k \in DOMAIN chs : chs[k].start < Resume(fr) /\ chs[k].end <= Reach(fr) /\ chs[k].end <= Limit(fr)

(* Each of the ordered spans is a piece of the text. *)
LEMMA PieceOf ==
  ASSUME text \in Seq(Bytes), NEW us, Ordered(us), NEW k \in DOMAIN us
  PROVE  us[k] \in Spans /\ Piece(us[k].start, us[k].end)
<1>1. us[k].start \in Nat /\ us[k].end \in Nat /\ us[k].start < us[k].end /\ us[k].end <= Len(text)
  BY OrderedFar
<1>2. Clean(us[k].start) /\ Clean(us[k].end) /\ us[k] \in Spans
  BY DEF Ordered
<1>3. us[k].end \in 1..Len(text)
  BY <1>1
<1> QED
  BY <1>1, <1>2, <1>3 DEF Piece

(* The spans a loop runs over, and where they end. *)
LEMMA LoopFacts ==
  ASSUME text \in Seq(Bytes), NEW fr, Loop(fr)
  PROVE  /\ fr.kind \in Kinds /\ fr.spans \in Seq(Spans) /\ fr.i \in Nat /\ Ordered(fr.spans)
         /\ DOMAIN fr.spans = 1..Len(fr.spans) /\ Len(fr.spans) \in Nat /\ Len(fr.spans) >= 1
         /\ Limit(fr) \in Nat /\ Limit(fr) <= Len(text)
         /\ \A k \in 1..Len(fr.spans) : fr.spans[k].end <= Limit(fr)
<1>1. fr.kind \in Kinds /\ fr.spans \in Seq(Spans) /\ fr.i \in Nat /\ Ordered(fr.spans)
  BY DEF Loop, Frames
<1>2. DOMAIN fr.spans = 1..Len(fr.spans) /\ Len(fr.spans) \in Nat /\ Len(fr.spans) >= 1
  <2>1. fr.spans # <<>>
    BY <1>1 DEF Ordered
  <2> QED
    BY <1>1, <2>1
<1> DEFINE n == Len(fr.spans)
<1>3. n \in 1..n
  BY <1>2
<1>4. fr.spans[n].end \in Nat /\ fr.spans[n].end <= Len(text) /\ fr.spans[n].start \in Nat /\ fr.spans[n].start < fr.spans[n].end
  BY <1>1, <1>2, <1>3, OrderedFar
<1>5. ASSUME NEW k \in 1..n PROVE fr.spans[k].end <= fr.spans[n].end
  <2>1. /\ fr.spans[k].end \in Nat
        /\ k < n => fr.spans[k].end <= fr.spans[n].start
    BY <1>1, <1>2, <1>3, OrderedFar
  <2>2. k = n \/ k < n
    BY <1>2
  <2> QED
    BY <1>4, <2>1, <2>2
<1> QED
  BY <1>1, <1>2, <1>4, <1>5 DEF Limit

(* A loop that goes on at i. *)
LEMMA AtLoop ==
  ASSUME text \in Seq(Bytes), NEW fr, Loop(fr), NEW i \in Nat
  PROVE  /\ At(fr, i).kind = fr.kind /\ At(fr, i).spans = fr.spans /\ At(fr, i).i = i
         /\ At(fr, i) \in Frames
         /\ Limit(At(fr, i)) = Limit(fr)
         /\ fr.kind # "prose" /\ i \in 1..(Len(fr.spans) + 1) => Loop(At(fr, i))
         /\ fr.kind = "prose" /\ i \in fr.spans[1].start..(fr.spans[1].end - 1) /\ Clean(i) => Loop(At(fr, i))
<1>1. At(fr, i).kind = fr.kind /\ At(fr, i).spans = fr.spans /\ At(fr, i).i = i
  BY DEF At, Frame
<1>2. At(fr, i) = [kind |-> fr.kind, spans |-> fr.spans, i |-> i]
  BY DEF At, Frame
<1>3. fr.kind \in Kinds /\ fr.spans \in Seq(Spans) /\ Ordered(fr.spans)
  BY LoopFacts
<1>4. At(fr, i) \in Frames
  BY <1>2, <1>3 DEF Frames
<1>5. Limit(At(fr, i)) = Limit(fr)
  BY <1>1 DEF Limit
<1>6. ASSUME fr.kind # "prose", i \in 1..(Len(fr.spans) + 1) PROVE Loop(At(fr, i))
  BY <1>1, <1>3, <1>4, <1>6 DEF Loop
<1>7. ASSUME fr.kind = "prose", i \in fr.spans[1].start..(fr.spans[1].end - 1), Clean(i) PROVE Loop(At(fr, i))
  <2>1. Len(fr.spans) = 1
    BY <1>7 DEF Loop
  <2>2. fr.spans[1].start \in Nat /\ fr.spans[1].end \in Nat
    <3>1. 1 \in DOMAIN fr.spans
      BY <2>1, LoopFacts
    <3> QED
      BY <1>3, <3>1, OrderedFar
  <2>3. fr.spans[1].start <= i /\ i < fr.spans[1].end
    BY <1>7, <2>2
  <2> QED
    BY <1>1, <1>3, <1>4, <1>7, <2>1, <2>3 DEF Loop
<1> QED
  BY <1>1, <1>4, <1>5, <1>6, <1>7

(* A piece of the text makes a chunk. *)
LEMMA CutMakes ==
  ASSUME text \in Seq(Bytes), NEW s, NEW e, Piece(s, e), NEW n \in Nat, NEW by \in {"packed", "prose"}
  PROVE  /\ CutFrom(NewChunk(s, e, n, by), 0)
         /\ NewChunk(s, e, n, by).start = s /\ NewChunk(s, e, n, by).end = e
         /\ NewChunk(s, e, n, by).by = by
<1> DEFINE c == NewChunk(s, e, n, by)
<1>1. s \in Nat /\ e \in 1..Len(text) /\ s < e /\ s + 1 \in 1..e /\ e \in Nat /\ e <= Len(text)
  BY DEF Piece
<1>2. c = [text |-> SubSeq(text, s + 1, e), start |-> s, end |-> e, tokens |-> n, by |-> by]
  BY DEF NewChunk
<1>3. SubSeq(text, s + 1, e) \in Seq(Bytes)
  <2>1. \A k \in (s + 1)..e : k \in 1..Len(text)
    BY <1>1
  <2>2. \A k \in (s + 1)..e : text[k] \in Bytes
    BY <2>1
  <2> QED
    BY <1>1, <2>2, SubSeqProperties
<1>4. c \in Chunks
  BY <1>1, <1>2, <1>3 DEF Chunks
<1>5. c.start = s /\ c.end = e /\ c.text = SubSeq(text, s + 1, e) /\ c.by = by
  BY DEF NewChunk
<1> HIDE DEF c
<1>6. s - 0 = s /\ e - 0 = e /\ s - 0 + 1 = s + 1 /\ s >= 0
  BY <1>1
<1>7. CutFrom(c, 0)
  BY <1>4, <1>5, <1>6 DEF CutFrom
<1> QED
  BY <1>5, <1>7 DEF c

(* A chunk that was made spans some of the text. *)
LEMMA MadeFacts ==
  ASSUME text \in Seq(Bytes), NEW chs, Made(chs, 0), NEW k \in DOMAIN chs
  PROVE  /\ chs[k].start \in Nat /\ chs[k].end \in Nat /\ chs[k].start < chs[k].end
         /\ chs[k].end <= Len(text)
<1>1. CutFrom(chs[k], 0)
  BY DEF Made
<1>2. chs[k].start \in Nat /\ chs[k].end \in Nat
  BY <1>1 DEF CutFrom, Chunks
<1>3. Piece(chs[k].start - 0, chs[k].end - 0)
  BY <1>1 DEF CutFrom
<1>4. chs[k].start - 0 = chs[k].start /\ chs[k].end - 0 = chs[k].end
  BY <1>2
<1>5. Piece(chs[k].start, chs[k].end)
  BY <1>3, <1>4
<1> QED
  BY <1>2, <1>5 DEF Piece

(* A chunk is added behind the others. *)
LEMMA AddChunk ==
  ASSUME text \in Seq(Bytes), NEW chs, Made(chs, 0), NEW c, CutFrom(c, 0)
  PROVE  /\ Made(Append(chs, c), 0)
         /\ DOMAIN Append(chs, c) = 1..(Len(chs) + 1) /\ Len(Append(chs, c)) = Len(chs) + 1
         /\ Len(chs) \in Nat /\ DOMAIN chs = 1..Len(chs)
         /\ Append(chs, c)[Len(chs) + 1] = c
         /\ \A k \in DOMAIN chs : Append(chs, c)[k] = chs[k]
         /\ \A k \in 1..(Len(chs) + 1) : k \in DOMAIN chs \/ k = Len(chs) + 1
<1>1. chs \in Seq(Chunks) /\ c \in Chunks
  BY DEF Made, CutFrom
<1>2. /\ Append(chs, c) \in Seq(Chunks)
      /\ DOMAIN Append(chs, c) = 1..(Len(chs) + 1) /\ Len(Append(chs, c)) = Len(chs) + 1
      /\ Len(chs) \in Nat /\ DOMAIN chs = 1..Len(chs)
  BY <1>1
<1>3. /\ Append(chs, c)[Len(chs) + 1] = c
      /\ \A k \in DOMAIN chs : Append(chs, c)[k] = chs[k]
  BY <1>1
<1>4. \A k \in 1..(Len(chs) + 1) : k \in DOMAIN chs \/ k = Len(chs) + 1
  BY <1>2
<1>5. \A k \in DOMAIN Append(chs, c) : CutFrom(Append(chs, c)[k], 0)
  BY <1>2, <1>3, <1>4 DEF Made
<1> QED
  BY <1>2, <1>3, <1>4, <1>5 DEF Made

(* A chunk behind the others keeps the chunks advancing. *)
LEMMA AddAdvances ==
  ASSUME text \in Seq(Bytes), NEW chs, Made(chs, 0), Advancing(chs), NEW c, CutFrom(c, 0),
         \A k \in DOMAIN chs : chs[k].start < c.start /\ chs[k].end <= c.end
  PROVE  Advancing(Append(chs, c))
<1> DEFINE d == Append(chs, c)
<1>1. ASSUME NEW k \in 2..Len(d) PROVE d[k - 1].start < d[k].start /\ d[k - 1].end <= d[k].end
  <2>1. Len(d) = Len(chs) + 1 /\ Len(chs) \in Nat /\ DOMAIN chs = 1..Len(chs)
    BY AddChunk
  <2>2. k - 1 \in DOMAIN chs /\ d[k - 1] = chs[k - 1]
    BY <2>1, AddChunk
  <2>3. CASE k = Len(chs) + 1
    <3>1. d[k] = c
      BY <2>3, AddChunk
    <3> QED
      BY <2>2, <3>1
  <2>4. CASE k # Len(chs) + 1
    <3>1. k \in DOMAIN chs /\ k \in 2..Len(chs)
      BY <2>1, <2>4
    <3>2. d[k] = chs[k]
      BY <3>1, AddChunk
    <3> QED
      BY <2>2, <3>1, <3>2 DEF Advancing
  <2> QED
    BY <2>3, <2>4
<1> QED
  BY <1>1 DEF Advancing

-------------------------------------------------------------------------------
(* What a loop makes next comes behind what was made. *)

(* A later span of a loop ends later. *)
LEMMA EndsAscend ==
  ASSUME text \in Seq(Bytes), NEW us, Ordered(us), NEW k \in DOMAIN us, NEW l \in DOMAIN us, k <= l
  PROVE  us[k].start <= us[l].start /\ us[k].end <= us[l].end /\ us[k].start < us[l].end
         /\ us[k].start \in Nat /\ us[l].start \in Nat /\ us[k].end \in Nat /\ us[l].end \in Nat
<1>1. /\ us[k].start \in Nat /\ us[k].end \in Nat /\ us[k].start < us[k].end
      /\ us[l].start \in Nat /\ us[l].end \in Nat /\ us[l].start < us[l].end
      /\ k < l => us[k].end <= us[l].start
  BY OrderedFar
<1>2. k = l \/ k < l
  BY DEF Ordered
<1> QED
  BY <1>1, <1>2

(* The span that a loop over prose runs over. *)
LEMMA ProseSpan ==
  ASSUME text \in Seq(Bytes), NEW fr, Loop(fr), fr.kind = "prose"
  PROVE  /\ fr.spans[1] \in Spans /\ Piece(fr.spans[1].start, fr.spans[1].end)
         /\ fr.i \in fr.spans[1].start..(fr.spans[1].end - 1)
         /\ fr.spans[1].start \in Nat /\ fr.spans[1].end \in Nat
         /\ Limit(fr) = fr.spans[1].end /\ Clean(fr.i)
<1>1. Len(fr.spans) = 1 /\ Clean(fr.i) /\ fr.spans[1].start <= fr.i /\ fr.i < fr.spans[1].end
  BY DEF Loop
<1>2. 1 \in DOMAIN fr.spans /\ Ordered(fr.spans) /\ fr.i \in Nat
  BY <1>1, LoopFacts
<1>3. fr.spans[1] \in Spans /\ Piece(fr.spans[1].start, fr.spans[1].end)
  BY <1>2, PieceOf
<1>4. fr.spans[1].start \in Nat /\ fr.spans[1].end \in Nat
  BY <1>2, OrderedFar
<1> QED
  BY <1>1, <1>2, <1>3, <1>4 DEF Limit

(* A loop resumes before the next chunk ends, and that ends in the span of the loop. *)
LEMMA ReachFacts ==
  ASSUME text \in Seq(Bytes), cfg \in Configs, NEW fr, Loop(fr)
  PROVE  /\ Resume(fr) \in Nat /\ Reach(fr) \in Nat /\ Limit(fr) \in Nat
         /\ Resume(fr) <= Reach(fr) /\ Reach(fr) <= Limit(fr)
<1> DEFINE us == fr.spans
           i == fr.i
<1>1. /\ us \in Seq(Spans) /\ i \in Nat /\ Ordered(us) /\ DOMAIN us = 1..Len(us) /\ Len(us) \in Nat
      /\ Limit(fr) \in Nat
  BY LoopFacts
<1>2. \A k \in 1..Len(us) : us[k].end <= Limit(fr)
  BY LoopFacts
<1>3. CASE fr.kind = "prose"
  <2>1. /\ us[1] \in Spans /\ Piece(us[1].start, us[1].end) /\ i \in us[1].start..(us[1].end - 1)
        /\ us[1].start \in Nat /\ us[1].end \in Nat /\ Limit(fr) = us[1].end /\ Clean(i)
    BY <1>3, ProseSpan
  <2>2. ProseEnd(us[1], i) \in (i + 1)..us[1].end /\ ProseEnd(us[1], i) \in Nat
    BY <2>1, ProseEnds
  <2>3. Resume(fr) = i /\ Reach(fr) = ProseEnd(us[1], i)
    BY <1>3 DEF Resume, Reach
  <2> QED
    BY <1>1, <2>1, <2>2, <2>3
<1>4. CASE fr.kind # "prose" /\ i > Len(us)
  <2>1. Resume(fr) = Limit(fr) /\ Reach(fr) = Limit(fr)
    BY <1>4 DEF Resume, Reach
  <2> QED
    BY <1>1, <2>1
<1>5. CASE fr.kind # "prose" /\ ~(i > Len(us))
  <2>1. i \in 1..Len(us)
    BY <1>1, <1>5 DEF Loop
  <2>2. Resume(fr) = us[i].start
    BY <1>5 DEF Resume
  <2>3. us[i].start \in Nat /\ us[i].end \in Nat /\ us[i].start < us[i].end
    BY <1>1, <2>1, OrderedFar
  <2>4. CASE Tokens(us, i) > maxTok
    <3>1. Reach(fr) = us[i].start
      BY <1>5, <2>4 DEF Reach
    <3> QED
      BY <1>1, <1>2, <2>1, <2>2, <2>3, <3>1
  <2>5. CASE ~(Tokens(us, i) > maxTok)
    <3> DEFINE g == growChunk(us, i)
    <3>1. Reach(fr) = us[g].end
      BY <1>5, <2>5 DEF Reach
    <3>2. g \in i..Len(us)
      BY <1>1, <2>1, GrowFits
    <3> HIDE DEF g
    <3>3. g \in 1..Len(us) /\ i <= g
      BY <1>1, <2>1, <3>2
    <3>4. us[i].start < us[g].end /\ us[g].end \in Nat
      BY <1>1, <2>1, <3>3, EndsAscend
    <3> QED
      BY <1>1, <1>2, <2>2, <2>3, <3>1, <3>3, <3>4
  <2> QED
    BY <2>4, <2>5
<1> QED
  BY <1>3, <1>4, <1>5

(* What has ended before a loop resumes is behind it. *)
LEMMA EntersBehind ==
  ASSUME text \in Seq(Bytes), cfg \in Configs, NEW fr, Loop(fr), NEW chs, Made(chs, 0),
         \A k \in DOMAIN chs : chs[k].end <= Resume(fr)
  PROVE  Behind(fr, chs)
<1>1. /\ Resume(fr) \in Nat /\ Reach(fr) \in Nat /\ Limit(fr) \in Nat
      /\ Resume(fr) <= Reach(fr) /\ Reach(fr) <= Limit(fr)
  BY ReachFacts
<1>2. ASSUME NEW k \in DOMAIN chs
      PROVE  chs[k].start < Resume(fr) /\ chs[k].end <= Reach(fr) /\ chs[k].end <= Limit(fr)
  <2>1. chs[k].start \in Nat /\ chs[k].end \in Nat /\ chs[k].start < chs[k].end
    BY MadeFacts
  <2>2. chs[k].end <= Resume(fr)
    OBVIOUS
  <2> QED
    BY <1>1, <2>1, <2>2
<1> QED
  BY <1>2 DEF Behind

(* A loop that ends gives on to the one around it, behind what it ran over. *)
LEMMA LeavesBehind ==
  ASSUME text \in Seq(Bytes), cfg \in Configs, NEW outer, Loop(outer), NEW inner, Loop(inner),
         Within(outer, inner), NEW chs, Made(chs, 0), \A k \in DOMAIN chs : chs[k].end <= Limit(inner)
  PROVE  Behind(outer, chs)
<1> DEFINE us == outer.spans
           i == outer.i
<1>1. /\ us \in Seq(Spans) /\ i \in Nat /\ Ordered(us) /\ DOMAIN us = 1..Len(us) /\ Len(us) \in Nat
      /\ \A k \in 1..Len(us) : us[k].end <= Limit(outer)
  BY LoopFacts
<1>2. outer.kind # "prose" /\ i > 1 /\ Limit(inner) = us[i - 1].end
  BY DEF Within, Fills, Limit
<1>3. i \in 1..(Len(us) + 1)
  BY <1>2 DEF Loop
<1>4. i - 1 \in 1..Len(us)
  BY <1>1, <1>2, <1>3
<1>5. us[i - 1].end <= Resume(outer)
  <2>1. CASE i > Len(us)
    BY <1>1, <1>2, <1>4, <2>1 DEF Resume
  <2>2. CASE ~(i > Len(us))
    <3>1. i \in 1..Len(us) /\ i - 1 < i
      BY <1>1, <1>3, <2>2
    <3>2. us[i - 1].end <= us[i].start
      BY <1>1, <1>4, <3>1, OrderedFar
    <3> QED
      BY <1>2, <2>2, <3>2 DEF Resume
  <2> QED
    BY <2>1, <2>2
<1>6. Resume(outer) \in Nat /\ us[i - 1].end \in Nat
  BY <1>1, <1>4, ReachFacts, OrderedFar
<1>7. \A k \in DOMAIN chs : chs[k].end <= Resume(outer)
  <2>1. ASSUME NEW k \in DOMAIN chs PROVE chs[k].end <= Resume(outer)
    <3>1. chs[k].end \in Nat
      BY MadeFacts
    <3>2. chs[k].end <= us[i - 1].end
      BY <1>2
    <3> QED
      BY <1>5, <1>6, <3>1, <3>2
  <2> QED
    BY <2>1
<1> QED
  BY <1>7, EntersBehind

(* An oversize span is given to a loop that resumes where the loop around it did. *)
LEMMA SplitBehind ==
  ASSUME text \in Seq(Bytes), cfg \in Configs, NEW fr, Loop(fr), fr.kind # "prose",
         fr.i <= Len(fr.spans), Tokens(fr.spans, fr.i) > maxTok,
         NEW chs, Made(chs, 0), Behind(fr, chs)
  PROVE  /\ Loop(SplitterOf(fr.kind, fr.spans[fr.i]))
         /\ Within(At(fr, fr.i + 1), SplitterOf(fr.kind, fr.spans[fr.i]))
         /\ Loop(At(fr, fr.i + 1))
         /\ Resume(SplitterOf(fr.kind, fr.spans[fr.i])) = Resume(fr)
         /\ Behind(SplitterOf(fr.kind, fr.spans[fr.i]), chs)
<1> DEFINE us == fr.spans
           i == fr.i
           sub == SplitterOf(fr.kind, us[i])
<1>1. us \in Seq(Spans) /\ i \in Nat /\ Ordered(us) /\ DOMAIN us = 1..Len(us) /\ Len(us) \in Nat /\ fr.kind \in Kinds
  BY LoopFacts
<1>2. i \in 1..Len(us) /\ i + 1 \in 1..(Len(us) + 1) /\ i + 1 \in Nat /\ i + 1 > 1 /\ (i + 1) - 1 = i
  BY <1>1 DEF Loop
<1>3. us[i] \in Spans /\ Piece(us[i].start, us[i].end)
  BY <1>1, <1>2, PieceOf
<1>4. /\ Loop(sub) /\ Fills(sub.spans, us[i].start, us[i].end)
      /\ sub.kind = "prose" => sub = ProseFrame(us[i])
      /\ sub.kind # "prose" => sub.i = 1
  <2>1. Loop(sub)
    BY <1>1, <1>3, Splits
  <2>2. Fills(sub.spans, us[i].start, us[i].end)
    BY <1>1, <1>3, Splits
  <2>3. (sub.kind = "prose" => sub = ProseFrame(us[i])) /\ (sub.kind # "prose" => sub.i = 1)
    BY <1>1, <1>3, Splits
  <2> QED
    BY <2>1, <2>2, <2>3
<1>5. Resume(sub) = us[i].start
  <2>1. CASE sub.kind = "prose"
    <3>1. ProseFrame(us[i]).i = us[i].start
      BY DEF ProseFrame, Frame
    <3>2. Resume(sub) = sub.i
      BY <2>1 DEF Resume
    <3> QED
      BY <1>4, <2>1, <3>1, <3>2
  <2>2. CASE sub.kind # "prose"
    <3>1. ~(1 > Len(sub.spans))
      BY <1>4, LoopFacts
    <3>2. Resume(sub) = sub.spans[1].start
      BY <1>4, <2>2, <3>1 DEF Resume
    <3> QED
      BY <1>4, <3>2 DEF Fills
  <2> QED
    BY <2>1, <2>2
<1>6. Resume(fr) = us[i].start /\ Reach(fr) = us[i].start
  BY <1>1, <1>2 DEF Resume, Reach
<1>7. /\ At(fr, i + 1).kind = fr.kind /\ At(fr, i + 1).spans = us /\ At(fr, i + 1).i = i + 1
      /\ Loop(At(fr, i + 1))
  <2>1. At(fr, i + 1).kind = fr.kind /\ At(fr, i + 1).spans = us /\ At(fr, i + 1).i = i + 1
    BY <1>2, AtLoop
  <2>2. Loop(At(fr, i + 1))
    BY <1>2, AtLoop
  <2> QED
    BY <2>1, <2>2
<1>8. Within(At(fr, i + 1), sub)
  BY <1>2, <1>4, <1>7 DEF Within
<1>9. \A k \in DOMAIN chs : chs[k].end <= Resume(sub)
  BY <1>5, <1>6 DEF Behind
<1> HIDE DEF sub
<1>10. Behind(sub, chs)
  BY <1>4, <1>9, EntersBehind
<1> QED
  BY <1>4, <1>5, <1>6, <1>7, <1>8, <1>10 DEF sub

(* c is the chunk of the spans i to j of a loop. *)
Packs(c, us, i, j) == CutFrom(c, 0) /\ c.start = us[i].start /\ c.end = us[j].end

(* The chunk a loop packs comes behind the others, and the loop goes on behind it. *)
LEMMA PackBehind ==
  ASSUME text \in Seq(Bytes), cfg \in Configs, NEW fr, Loop(fr), fr.kind # "prose",
         fr.i <= Len(fr.spans), Tokens(fr.spans, fr.i) <= maxTok,
         NEW chs, Made(chs, 0), Behind(fr, chs),
         NEW j, j = growChunk(fr.spans, fr.i), NEW c, Packs(c, fr.spans, fr.i, j)
  PROVE  /\ \A k \in DOMAIN chs : chs[k].start < c.start /\ chs[k].end <= c.end
         /\ \A k \in DOMAIN Append(chs, c) : Append(chs, c)[k].end <= Limit(fr)
         /\ j < Len(fr.spans) =>
              /\ Loop(At(fr, overlapStart(fr.spans, fr.i, j)))
              /\ Behind(At(fr, overlapStart(fr.spans, fr.i, j)), Append(chs, c))
<1> DEFINE us == fr.spans
           i == fr.i
           d == Append(chs, c)
<1>1. /\ us \in Seq(Spans) /\ i \in Nat /\ Ordered(us) /\ DOMAIN us = 1..Len(us) /\ Len(us) \in Nat
      /\ Limit(fr) \in Nat
  BY LoopFacts
<1>2. i \in 1..Len(us)
  BY <1>1 DEF Loop
<1>3. j \in i..Len(us)
  BY <1>1, <1>2, GrowFits
<1>4. j \in 1..Len(us) /\ i <= j
  BY <1>1, <1>2, <1>3
<1>5. maxTok \in Nat /\ Tokens(us, i) \in Nat
  BY <1>1, <1>2, BudgetType, TokensType
<1>6. Resume(fr) = us[i].start /\ Reach(fr) = us[j].end
  BY <1>1, <1>2, <1>5 DEF Resume, Reach
<1>7. CutFrom(c, 0) /\ c.start = us[i].start /\ c.end = us[j].end
  BY DEF Packs
<1>8. \A k \in DOMAIN chs : chs[k].start < c.start /\ chs[k].end <= c.end
  BY <1>6, <1>7 DEF Behind
<1>9. us[j].end <= Limit(fr)
  BY <1>4, LoopFacts
<1>10. \A k \in DOMAIN d : d[k].end <= us[j].end /\ d[k].start <= us[i].start /\ d[k].end \in Nat /\ d[k].start \in Nat
  <2>0. us[j].end \in Nat /\ us[i].start \in Nat
    BY <1>1, <1>2, <1>4, OrderedFar
  <2>1. ASSUME NEW k \in DOMAIN d
        PROVE  d[k].end <= us[j].end /\ d[k].start <= us[i].start /\ d[k].end \in Nat /\ d[k].start \in Nat
    <3>1. k \in DOMAIN chs \/ k = Len(chs) + 1
      BY <1>7, AddChunk
    <3>2. CASE k \in DOMAIN chs
      <4>1. d[k] = chs[k] /\ chs[k].start \in Nat /\ chs[k].end \in Nat
        BY <1>7, <3>2, AddChunk, MadeFacts
      <4>2. chs[k].start < c.start /\ chs[k].end <= c.end
        BY <1>8, <3>2
      <4> QED
        BY <1>7, <2>0, <4>1, <4>2
    <3>3. CASE k = Len(chs) + 1
      <4>1. d[k] = c
        BY <1>7, <3>3, AddChunk
      <4> QED
        BY <1>7, <2>0, <4>1
    <3> QED
      BY <3>1, <3>2, <3>3
  <2> QED
    BY <2>1
<1> HIDE DEF d
<1>11. \A k \in DOMAIN d : d[k].end <= Limit(fr)
  <2>1. us[j].end \in Nat
    BY <1>1, <1>4, OrderedFar
  <2> QED
    BY <1>1, <1>9, <1>10, <2>1
<1>12. ASSUME j < Len(us)
       PROVE  Loop(At(fr, overlapStart(us, i, j))) /\ Behind(At(fr, overlapStart(us, i, j)), d)
  <2> DEFINE o == overlapStart(us, i, j)
             g == At(fr, o)
  <2>1. o \in (i + 1)..(j + 1)
    BY <1>1, <1>2, <1>3, OverlapFits
  <2> HIDE DEF o
  <2>2. o \in 1..Len(us) /\ o \in 1..(Len(us) + 1) /\ o \in Nat /\ i < o /\ ~(o > Len(us))
    BY <1>1, <1>2, <1>4, <1>12, <2>1
  <2>3. g.kind = fr.kind /\ g.spans = us /\ g.i = o /\ Loop(g) /\ Limit(g) = Limit(fr)
    <3>1. g.kind = fr.kind /\ g.spans = us /\ g.i = o
      BY <2>2, AtLoop
    <3>2. Loop(g)
      BY <2>2, AtLoop
    <3>3. Limit(g) = Limit(fr)
      BY <2>2, AtLoop
    <3> QED
      BY <3>1, <3>2, <3>3
  <2> HIDE DEF g
  <2>4. Resume(g) = us[o].start
    BY <2>2, <2>3 DEF Resume
  <2>5. us[i].start < us[o].start /\ us[i].start \in Nat /\ us[o].start \in Nat
    <3>1. /\ us[i].start \in Nat /\ us[i].end \in Nat /\ us[i].start < us[i].end /\ us[i].end <= us[o].start
          /\ us[o].start \in Nat
      BY <1>1, <1>2, <2>2, OrderedFar
    <3> QED
      BY <3>1
  <2>6. us[j].end <= Reach(g) /\ us[j].end \in Nat /\ Reach(g) \in Nat
    <3>1. us[j].end \in Nat /\ Reach(g) \in Nat /\ Resume(g) <= Reach(g) /\ Resume(g) \in Nat
      BY <1>1, <1>4, <2>3, OrderedFar, ReachFacts
    <3>2. CASE o = j + 1
      <4>1. us[j].end <= us[o].start
        <5>1. j < o
          BY <1>4, <3>2
        <5> QED
          BY <1>1, <1>4, <2>2, <5>1, OrderedFar
      <4> QED
        BY <2>4, <3>1, <4>1
    <3>3. CASE o # j + 1
      <4>1. o \in (i + 1)..j
        BY <1>1, <1>2, <1>4, <2>1, <3>3
      <4>2. Tokens(us, o) <= maxTok /\ j <= growChunk(us, o)
        BY <1>1, <1>2, <4>1, GrowReaches
      <4>3. growChunk(us, o) \in o..Len(us)
        BY <1>1, <2>2, GrowFits
      <4>4. ~(Tokens(us, o) > maxTok)
        <5>1. Tokens(us, o) \in Nat
          BY <1>1, <2>2, TokensType
        <5> QED
          BY <1>5, <4>2, <5>1
      <4>5. Reach(g) = us[growChunk(us, o)].end
        BY <2>2, <2>3, <4>4 DEF Reach
      <4>6. growChunk(us, o) \in 1..Len(us)
        BY <1>1, <2>2, <4>3
      <4>7. us[j].end <= us[growChunk(us, o)].end
        BY <1>1, <1>4, <4>2, <4>6, EndsAscend
      <4> QED
        BY <3>1, <4>5, <4>7
    <3> QED
      BY <3>2, <3>3
  <2>7. ASSUME NEW k \in DOMAIN d
        PROVE  d[k].start < Resume(g) /\ d[k].end <= Reach(g) /\ d[k].end <= Limit(g)
    <3>1. d[k].end <= us[j].end /\ d[k].start <= us[i].start /\ d[k].end \in Nat /\ d[k].start \in Nat /\ d[k].end <= Limit(fr)
      BY <1>10, <1>11
    <3>2. d[k].start < Resume(g)
      BY <2>4, <2>5, <3>1
    <3>3. d[k].end <= Reach(g)
      BY <2>6, <3>1
    <3> QED
      BY <2>3, <3>1, <3>2, <3>3
  <2>8. Behind(g, d)
    BY <2>7 DEF Behind
  <2> QED
    BY <2>3, <2>8 DEF g, o
<1> QED
  BY <1>8, <1>11, <1>12 DEF d

(* The chunk cut from prose comes behind the others, and the next behind it. *)
LEMMA CutBehind ==
  ASSUME text \in Seq(Bytes), cfg \in Configs, NEW fr, Loop(fr), fr.kind = "prose",
         NEW chs, Made(chs, 0), Behind(fr, chs),
         NEW c, CutFrom(c, 0), c.start = fr.i, c.end = ProseEnd(fr.spans[1], fr.i)
  PROVE  /\ \A k \in DOMAIN chs : chs[k].start < c.start /\ chs[k].end <= c.end
         /\ \A k \in DOMAIN Append(chs, c) : Append(chs, c)[k].end <= Limit(fr)
         /\ ProseNext(fr.spans[1], fr.i) < fr.spans[1].end =>
              /\ Loop(At(fr, ProseNext(fr.spans[1], fr.i)))
              /\ Behind(At(fr, ProseNext(fr.spans[1], fr.i)), Append(chs, c))
<1> DEFINE span == fr.spans[1]
           i == fr.i
           e == ProseEnd(span, i)
           q == ProseNext(span, i)
           d == Append(chs, c)
<1>1. /\ span \in Spans /\ Piece(span.start, span.end) /\ i \in span.start..(span.end - 1)
      /\ span.start \in Nat /\ span.end \in Nat /\ Limit(fr) = span.end /\ Clean(i)
  BY ProseSpan
<1>2. e \in (i + 1)..span.end /\ e \in Nat
  BY <1>1, ProseEnds
<1>3. q \in (i + 1)..Len(text) /\ q \in Nat /\ Aligned(q)
  BY <1>1, ProseGoesOn
<1>4. Resume(fr) = i /\ Reach(fr) = e
  BY DEF Resume, Reach
<1>5. i \in Nat /\ e <= span.end
  BY <1>1, <1>2
<1>6. \A k \in DOMAIN chs : chs[k].start < c.start /\ chs[k].end <= c.end
  BY <1>4 DEF Behind
<1>7. c.start = i /\ c.end = e
  OBVIOUS
<1> HIDE DEF e, q
<1>8. \A k \in DOMAIN d : d[k].end <= e /\ d[k].start <= i /\ d[k].end \in Nat /\ d[k].start \in Nat
  <2>1. ASSUME NEW k \in DOMAIN d
        PROVE  d[k].end <= e /\ d[k].start <= i /\ d[k].end \in Nat /\ d[k].start \in Nat
    <3>1. k \in DOMAIN chs \/ k = Len(chs) + 1
      BY AddChunk
    <3>2. CASE k \in DOMAIN chs
      <4>1. d[k] = chs[k] /\ chs[k].start \in Nat /\ chs[k].end \in Nat
        BY <3>2, AddChunk, MadeFacts
      <4>2. chs[k].start < c.start /\ chs[k].end <= c.end
        BY <1>6, <3>2
      <4> QED
        BY <1>2, <1>5, <1>7, <4>1, <4>2
    <3>3. CASE k = Len(chs) + 1
      <4>1. d[k] = c
        BY <3>3, AddChunk
      <4> QED
        BY <1>2, <1>5, <1>7, <4>1
    <3> QED
      BY <3>1, <3>2, <3>3
  <2> QED
    BY <2>1
<1> HIDE DEF d
<1>9. \A k \in DOMAIN d : d[k].end <= Limit(fr)
  BY <1>1, <1>2, <1>5, <1>8
<1>10. ASSUME q < span.end PROVE Loop(At(fr, q)) /\ Behind(At(fr, q), d)
  <2> DEFINE g == At(fr, q)
  <2>1. q \in span.start..(span.end - 1) /\ q \in (i + 1)..(span.end - 1)
    BY <1>1, <1>3, <1>5, <1>10
  <2>2. Clean(q)
    BY <1>3, AlignedClean
  <2>3. g.kind = "prose" /\ g.spans = fr.spans /\ g.i = q /\ Loop(g) /\ Limit(g) = Limit(fr)
    <3>1. g.kind = "prose" /\ g.spans = fr.spans /\ g.i = q
      BY <1>3, AtLoop
    <3>2. Loop(g)
      BY <1>3, <2>1, <2>2, AtLoop
    <3>3. Limit(g) = Limit(fr)
      BY <1>3, AtLoop
    <3> QED
      BY <3>1, <3>2, <3>3
  <2> HIDE DEF g
  <2>4. Resume(g) = q /\ Reach(g) = ProseEnd(span, q)
    BY <2>3 DEF Resume, Reach
  <2>5. e <= ProseEnd(span, q) /\ ProseEnd(span, q) \in Nat
    BY <1>1, <1>3, <2>1, <2>2, ProseAdvances, ProseEnds DEF e
  <2>6. ASSUME NEW k \in DOMAIN d
        PROVE  d[k].start < Resume(g) /\ d[k].end <= Reach(g) /\ d[k].end <= Limit(g)
    <3>1. d[k].end <= e /\ d[k].start <= i /\ d[k].end \in Nat /\ d[k].start \in Nat /\ d[k].end <= Limit(g)
      BY <1>8, <1>9, <2>3
    <3>2. i < q
      BY <1>3, <1>5
    <3>3. d[k].start < q
      BY <1>3, <1>5, <3>1, <3>2
    <3>4. d[k].end <= ProseEnd(span, q)
      BY <1>2, <2>5, <3>1
    <3> QED
      BY <2>4, <3>1, <3>3, <3>4
  <2>7. Behind(g, d)
    BY <2>6 DEF Behind
  <2> QED
    BY <2>3, <2>7 DEF g
<1> QED
  BY <1>6, <1>9, <1>10 DEF d, e, q

Changed(frs, fr) == [frs EXCEPT ![Len(frs)] = fr]

(* The innermost loop ends. *)
LEMMA PopNested ==
  ASSUME NEW frs, Nested(frs), frs # <<>>
  PROVE  /\ Nested(Front(frs))
         /\ Len(frs) = 1 => Front(frs) = <<>>
         /\ Len(frs) # 1 => /\ Front(frs) # <<>> /\ Last(Front(frs)) = frs[Len(frs) - 1]
                            /\ Within(Last(Front(frs)), Last(frs))
         /\ Loop(Last(frs)) /\ (Front(frs) # <<>> => Loop(Last(Front(frs))))
<1> DEFINE n == Len(frs)
           f == Front(frs)
<1>1. frs \in Seq(Frames) /\ n \in Nat /\ n >= 1 /\ DOMAIN frs = 1..n
  BY DEF Nested
<1>2. f = SubSeq(frs, 1, n - 1)
  BY DEF Front
<1>3. f \in Seq(Frames) /\ Len(f) = n - 1 /\ DOMAIN f = 1..(n - 1) /\ \A k \in 1..(n - 1) : f[k] = frs[k]
  BY <1>1, <1>2
<1> HIDE DEF f
<1>4. \A k \in 1..(n - 1) : k \in DOMAIN frs /\ (k > 1 => k - 1 \in 1..(n - 1))
  BY <1>1
<1>5. \A k \in DOMAIN f : Loop(f[k])
  BY <1>3, <1>4 DEF Nested
<1>6. \A k \in DOMAIN f : k > 1 => Within(f[k - 1], f[k])
  BY <1>3, <1>4 DEF Nested
<1>7. f # <<>> => f[1].kind = "units" /\ f[1].spans = Units
  <2>1. f # <<>> => 1 \in 1..(n - 1)
    BY <1>1, <1>3
  <2> QED
    BY <1>3, <2>1 DEF Nested
<1>8. Nested(f)
  BY <1>3, <1>5, <1>6, <1>7 DEF Nested
<1>9. n = 1 => f = <<>>
  BY <1>3
<1>10. ASSUME n # 1
       PROVE  /\ f # <<>> /\ Last(f) = frs[n - 1] /\ Within(Last(f), Last(frs))
  <2>1. n - 1 \in 1..(n - 1) /\ n \in DOMAIN frs /\ n > 1
    BY <1>1, <1>10
  <2>2. f # <<>> /\ Last(f) = frs[n - 1]
    BY <1>3, <2>1 DEF Last
  <2>3. Last(frs) = frs[n]
    BY DEF Last
  <2> QED
    BY <2>1, <2>2, <2>3 DEF Nested
<1>11. Loop(Last(frs))
  BY <1>1 DEF Last, Nested
<1>12. f # <<>> => Loop(Last(f))
  <2>1. f # <<>> => n - 1 \in 1..(n - 1)
    BY <1>1, <1>3
  <2> QED
    BY <1>3, <1>5, <2>1 DEF Last
<1> QED
  BY <1>8, <1>9, <1>10, <1>11, <1>12 DEF f

(* The innermost loop goes on. *)
LEMMA MoveNested ==
  ASSUME text \in Seq(Bytes), NEW frs, Nested(frs), frs # <<>>, NEW i \in Nat, Loop(At(Last(frs), i))
  PROVE  /\ Nested(Changed(frs, At(Last(frs), i)))
         /\ Changed(frs, At(Last(frs), i)) # <<>>
         /\ Last(Changed(frs, At(Last(frs), i))) = At(Last(frs), i)
         /\ Len(Changed(frs, At(Last(frs), i))) = Len(frs)
<1> DEFINE n == Len(frs)
           fr == At(Last(frs), i)
           f == Changed(frs, fr)
<1>1. frs \in Seq(Frames) /\ n \in Nat /\ n >= 1 /\ DOMAIN frs = 1..n /\ n \in 1..n /\ Last(frs) = frs[n]
  BY DEF Nested, Last
<1>2. fr \in Frames /\ fr.kind = Last(frs).kind /\ fr.spans = Last(frs).spans /\ fr.i = i
  BY <1>1, AtLoop DEF Nested
<1> HIDE DEF fr
<1>3. /\ f \in Seq(Frames) /\ Len(f) = n /\ DOMAIN f = 1..n
      /\ \A k \in 1..n : f[k] = IF k = n THEN fr ELSE frs[k]
  BY <1>1, <1>2 DEF Changed
<1> HIDE DEF f
<1>10. f \in Seq(Frames) /\ DOMAIN f = 1..n /\ Len(f) = n /\ n >= 1 /\ n \in Nat
  BY <1>1, <1>3
<1>4. \A k \in DOMAIN f : f[k].spans = frs[k].spans /\ f[k].kind = frs[k].kind
  BY <1>1, <1>2, <1>3
<1>5. \A k \in DOMAIN f : Loop(f[k])
  BY <1>1, <1>3 DEF Nested, fr
<1>6. \A k \in DOMAIN f : k > 1 => Within(f[k - 1], f[k])
  <2>1. ASSUME NEW k \in 1..n, k > 1 PROVE Within(f[k - 1], f[k])
    <3>1. k - 1 \in 1..n /\ k - 1 # n
      BY <1>1, <2>1
    <3>2. Within(frs[k - 1], frs[k])
      BY <1>1, <2>1 DEF Nested
    <3>3. f[k - 1] = frs[k - 1] /\ f[k].spans = frs[k].spans
      BY <1>3, <1>4, <2>1, <3>1
    <3> QED
      BY <3>2, <3>3 DEF Within
  <2> QED
    BY <1>3, <2>1
<1>7. f[1].kind = "units" /\ f[1].spans = Units
  <2>1. 1 \in DOMAIN f
    BY <1>10
  <2>2. frs[1].kind = "units" /\ frs[1].spans = Units
    BY DEF Nested
  <2> QED
    BY <1>4, <2>1, <2>2
<1>8. Nested(f)
  BY <1>3, <1>5, <1>6, <1>7 DEF Nested
<1>9. f # <<>> /\ Last(f) = fr
  <2>1. f # <<>> /\ Last(f) = f[n]
    BY <1>10 DEF Last
  <2> QED
    BY <1>1, <1>3, <2>1
<1> QED
  BY <1>3, <1>8, <1>9 DEF f, fr

(* An oversize span pushes a loop over it. *)
LEMMA PushNested ==
  ASSUME text \in Seq(Bytes), NEW frs, Nested(frs), frs # <<>>, NEW sub, Loop(sub), Within(Last(frs), sub)
  PROVE  /\ Nested(Append(frs, sub)) /\ Append(frs, sub) # <<>> /\ Last(Append(frs, sub)) = sub
<1> DEFINE n == Len(frs)
           f == Append(frs, sub)
<1>1. frs \in Seq(Frames) /\ n \in Nat /\ n >= 1 /\ DOMAIN frs = 1..n /\ n \in 1..n /\ Last(frs) = frs[n]
  BY DEF Nested, Last
<1>2. sub \in Frames
  BY DEF Loop
<1>3. /\ f \in Seq(Frames) /\ Len(f) = n + 1 /\ DOMAIN f = 1..(n + 1)
      /\ f[n + 1] = sub /\ \A k \in 1..n : f[k] = frs[k]
  BY <1>1, <1>2
<1> HIDE DEF f
<1>4. \A k \in 1..(n + 1) : k \in 1..n \/ k = n + 1
  BY <1>1
<1>5. \A k \in DOMAIN f : Loop(f[k])
  BY <1>1, <1>3, <1>4 DEF Nested
<1>6. \A k \in DOMAIN f : k > 1 => Within(f[k - 1], f[k])
  <2>1. ASSUME NEW k \in 1..n, k > 1 PROVE Within(f[k - 1], f[k])
    <3>1. k - 1 \in 1..n
      BY <1>1, <2>1
    <3>2. Within(frs[k - 1], frs[k])
      BY <1>1, <2>1 DEF Nested
    <3> QED
      BY <1>3, <2>1, <3>1, <3>2
  <2>2. Within(f[(n + 1) - 1], f[n + 1])
    <3>1. (n + 1) - 1 = n
      BY <1>1
    <3> QED
      BY <1>1, <1>3, <3>1
  <2> QED
    BY <1>3, <1>4, <2>1, <2>2
<1>7. f[1].kind = "units" /\ f[1].spans = Units
  BY <1>1, <1>3 DEF Nested
<1>8. Nested(f)
  BY <1>3, <1>5, <1>6, <1>7 DEF Nested
<1>9. f # <<>> /\ Last(f) = sub
  BY <1>1, <1>3 DEF Last
<1> QED
  BY <1>8, <1>9 DEF f

(* The text and the configuration never change, so neither does what depends on them alone. *)
LEMMA Same ==
  ASSUME text' = text, cfg' = cfg
  PROVE  /\ \A s, e : Piece(s, e)' <=> Piece(s, e)
         /\ \A frs : Nested(frs)' <=> Nested(frs)
         /\ \A chs, o : Made(chs, o)' <=> Made(chs, o)
         /\ \A fr, chs : Behind(fr, chs)' <=> Behind(fr, chs)
         /\ maxTok' = maxTok /\ overlapTok' = overlapTok
         /\ \A us, k : Tokens(us, k)' = Tokens(us, k)
         /\ \A us, k : growChunk(us, k)' = growChunk(us, k)
         /\ \A s, e : est(s, e)' = est(s, e)
         /\ Units' = Units
<1>1. \A x : Clean(x)' <=> Clean(x)
  BY DEF Clean, BetweenRunes, RuneSize
<1>2. \A us : Ordered(us)' <=> Ordered(us)
  BY <1>1 DEF Ordered
<1>3. \A s, e : Piece(s, e)' <=> Piece(s, e)
  BY <1>1 DEF Piece
<1>4. \A fr : Loop(fr)' <=> Loop(fr)
  BY <1>1, <1>2 DEF Loop
<1>5. Units' = Units
  <2>1. \A x : runeAligned(x)' <=> runeAligned(x)
    BY DEF runeAligned
  <2>2. \A us : validUnits(us)' <=> validUnits(us)
    BY <2>1 DEF validUnits
  <2>3. Paragraphs' = Paragraphs
    BY DEF Paragraphs
  <2> QED
    BY <2>2, <2>3 DEF Units
<1>6. \A frs : Nested(frs)' <=> Nested(frs)
  BY <1>4, <1>5 DEF Nested
<1>7. \A c, o : CutFrom(c, o)' <=> CutFrom(c, o)
  BY <1>3 DEF CutFrom
<1>8. \A chs, o : Made(chs, o)' <=> Made(chs, o)
  BY <1>7 DEF Made
<1>9. maxTok' = maxTok /\ overlapTok' = overlapTok
  BY DEF maxTok, overlapTok
<1>10. \A s, e : Runes(s, e)' = Runes(s, e)
  BY DEF Runes, RuneCount, BetweenRunes, RuneSize
<1>11. \A s, e : est(s, e)' = est(s, e)
  BY <1>10 DEF est
<1>12. \A us, k : Tokens(us, k)' = Tokens(us, k)
  BY <1>11 DEF Tokens
<1>13. \A us, i, j : SumTokens(us, i, j)' = SumTokens(us, i, j)
  BY <1>12 DEF SumTokens
<1>14. \A us, k : growChunk(us, k)' = growChunk(us, k)
  BY <1>9, <1>13 DEF growChunk
<1>15. \A span, pos : ProseEnd(span, pos)' = ProseEnd(span, pos)
  <2>1. \A span : Total(span)' = Total(span)
    BY <1>11 DEF Total
  <2>2. \A span : Target(span)' = Target(span)
    BY <1>9, <2>1 DEF Target
  <2>3. \A s, x : findBoundary(s, x)' = findBoundary(s, x)
    BY DEF findBoundary
  <2>4. \A s : RuneSize(text, s)' = RuneSize(text, s)
    BY DEF RuneSize
  <2>5. \A s, x : snapEndToRuneBoundary(s, x)' = snapEndToRuneBoundary(s, x)
    BY <2>4 DEF snapEndToRuneBoundary
  <2> QED
    BY <2>2, <2>3, <2>5 DEF ProseEnd
<1>16. \A fr : Reach(fr)' = Reach(fr)
  BY <1>9, <1>12, <1>14, <1>15 DEF Reach
<1>17. \A fr, chs : Behind(fr, chs)' <=> Behind(fr, chs)
  BY <1>16 DEF Behind
<1> QED
  BY <1>3, <1>5, <1>6, <1>8, <1>9, <1>11, <1>12, <1>14, <1>17

-------------------------------------------------------------------------------
(* The invariant, and its preservation by every step. *)

(* The text is where it is said to be in the source. *)
TypeOK ==
  /\ source \in Seq(Bytes) /\ cfg \in Configs /\ text \in Seq(Bytes) /\ off \in Nat
  /\ text # <<>> => off + Len(text) <= Len(source)
  /\ text = SubSeq(source, off + 1, off + Len(text))
  /\ pc \in {"start", "split", "done"}

(* The loops that run are nested, and the chunks they made so far are behind them. *)
Running(frs, chs) ==
  /\ Nested(frs) /\ Made(chs, 0) /\ Advancing(chs)
  /\ frs # <<>> => Behind(Last(frs), chs)

IInv ==
  /\ TypeOK
  /\ pc = "start" => frames = <<>> /\ chunks = <<>>
  /\ pc = "split" => text # <<>> /\ Running(frames, chunks)
  /\ pc = "done" => frames = <<>> /\ Made(chunks, off) /\ Advancing(chunks)

(* The trimmed text is where it is said to be in the source. *)
LEMMA TrimType ==
  ASSUME NEW s \in Seq(Bytes)
  PROVE  /\ Trimmed(s) \in Seq(Bytes) /\ TrimmedFront(s) \in Nat
         /\ Trimmed(s) # <<>> => TrimmedFront(s) + Len(Trimmed(s)) <= Len(s)
         /\ Trimmed(s) = SubSeq(s, TrimmedFront(s) + 1, TrimmedFront(s) + Len(Trimmed(s)))
<1> DEFINE ink == {k \in DOMAIN s : ~IsSpace(s[k])}
<1>1. Len(s) \in Nat /\ DOMAIN s = 1..Len(s)
  OBVIOUS
<1>2. CASE ink = {}
  <2>1. Trimmed(s) = <<>> /\ TrimmedFront(s) = Len(s)
    BY <1>2 DEF Trimmed, TrimmedFront
  <2>2. SubSeq(s, Len(s) + 1, Len(s) + 0) = <<>>
    BY <1>1
  <2> QED
    BY <1>1, <2>1, <2>2
<1>3. CASE ink # {}
  <2>1. ink \in SUBSET Nat /\ \A x \in ink : x <= Len(s) /\ x >= 1
    BY <1>1
  <2> DEFINE a == Min(ink)
             b == Max(ink)
  <2>2. Trimmed(s) = SubSeq(s, a, b) /\ TrimmedFront(s) = a - 1
    BY <1>3 DEF Trimmed, TrimmedFront
  <2> HIDE DEF ink
  <2>3. a \in ink /\ a \in Nat /\ \A x \in ink : a <= x
    BY <1>3, <2>1, MinIsLeast
  <2>4. b \in ink /\ b \in Nat /\ \A x \in ink : x <= b
    BY <1>1, <1>3, <2>1, MaxIsGreatest
  <2>5. a >= 1 /\ a <= b /\ b <= Len(s)
    BY <2>1, <2>3, <2>4
  <2> HIDE DEF a, b
  <2>6. \A k \in a..b : s[k] \in Bytes
    <3>1. \A k \in a..b : k \in 1..Len(s)
      BY <1>1, <2>3, <2>4, <2>5
    <3> QED
      BY <3>1
  <2>7. SubSeq(s, a, b) \in Seq(Bytes) /\ Len(SubSeq(s, a, b)) = b - a + 1
    BY <2>3, <2>4, <2>5, <2>6, SubSeqProperties
  <2>8. a - 1 \in Nat /\ (a - 1) + 1 = a /\ (a - 1) + (b - a + 1) = b
    BY <2>3, <2>4, <2>5
  <2> QED
    BY <2>2, <2>5, <2>7, <2>8
<1> QED
  BY <1>2, <1>3

(* The invariant holds before Split starts. *)
LEMMA InitIInv == Init => IInv
<1> SUFFICES ASSUME Init PROVE IInv
  OBVIOUS
<1>1. source \in Seq(Bytes) /\ cfg \in Configs
  BY ChunkAssumption DEF Init
<1>2. text = Trimmed(source) /\ off = TrimmedFront(source) /\ frames = <<>> /\ chunks = <<>> /\ pc = "start"
  BY DEF Init
<1>3. TypeOK
  BY <1>1, <1>2, TrimType DEF TypeOK
<1> QED
  BY <1>2, <1>3 DEF IInv

(* The text and the configuration stay. *)
Steady == source' = source /\ cfg' = cfg /\ text' = text /\ off' = off

(* A step of the loops keeps the invariant when they are nested and behind the chunks
   afterwards. *)
LEMMA Becomes ==
  ASSUME TypeOK, Steady, pc' = "split", text # <<>>, Running(frames', chunks')
  PROVE  IInv'
<1>1. TypeOK'
  BY DEF TypeOK, Steady
<1>2. (\A frs : Nested(frs)' <=> Nested(frs)) /\ (\A chs, o : Made(chs, o)' <=> Made(chs, o))
      /\ (\A fr, chs : Behind(fr, chs)' <=> Behind(fr, chs))
  BY Same DEF Steady
<1>3. \A frs, chs : Running(frs, chs)' <=> Running(frs, chs)
  BY <1>2 DEF Running
<1>4. Running(frames, chunks)'
  BY <1>3
<1>5. pc' # "start" /\ pc' # "done" /\ (text # <<>>)'
  BY DEF Steady
<1> QED
  BY <1>1, <1>4, <1>5 DEF IInv

(* Entering the loop over the units keeps the invariant. *)
LEMMA StartKeeps == ASSUME IInv, Start PROVE IInv'
<1>1. TypeOK /\ Steady /\ frames = <<>> /\ chunks = <<>> /\ chunks' = <<>>
  BY DEF Start, IInv, Steady
<1>2. CASE text = <<>>
  <2>1. pc' = "done" /\ frames' = <<>>
    BY <1>1, <1>2 DEF Start
  <2>2. TypeOK'
    BY <1>1, <2>1 DEF TypeOK, Steady
  <2>3. <<>> \in Seq(Chunks) /\ DOMAIN <<>> = {} /\ Len(<<>>) = 0 /\ 2..0 = {}
    OBVIOUS
  <2>4. Made(<<>>, off)' /\ Advancing(<<>>)
    BY <2>3 DEF Made, Advancing
  <2>5. Made(chunks, off)' /\ Advancing(chunks)'
    BY <1>1, <2>4
  <2> QED
    BY <2>1, <2>2, <2>5 DEF IInv
<1>3. CASE text # <<>>
  <2> DEFINE fr == Frame("units", Units, 1)
  <2>1. pc' = "split" /\ frames' = <<fr>>
    BY <1>3 DEF Start
  <2>2. Ordered(Units)
    BY <1>1, <1>3, UnitsOrdered DEF TypeOK
  <2>3. Units \in Seq(Spans) /\ Units # <<>> /\ Len(Units) \in Nat
    BY <2>2 DEF Ordered
  <2>4. fr.kind = "units" /\ fr.spans = Units /\ fr.i = 1 /\ fr = [kind |-> "units", spans |-> Units, i |-> 1]
    BY DEF Frame
  <2>5. fr \in Frames
    BY <2>3, <2>4 DEF Frames, Kinds
  <2>6. Loop(fr)
    <3>1. 1 \in 1..(Len(Units) + 1)
      BY <2>3
    <3> QED
      BY <2>2, <2>4, <2>5, <3>1 DEF Loop
  <2> HIDE DEF fr
  <2>7. Nested(<<fr>>)
    <3>1. /\ <<fr>> \in Seq(Frames) /\ DOMAIN <<fr>> = {1} /\ <<fr>>[1] = fr /\ ~(1 > 1)
      BY <2>5
    <3> QED
      BY <2>4, <2>6, <3>1 DEF Nested
  <2>8. <<>> \in Seq(Chunks) /\ DOMAIN <<>> = {} /\ Len(<<>>) = 0 /\ 2..0 = {}
    OBVIOUS
  <2>9. Made(<<>>, 0) /\ Advancing(<<>>) /\ Behind(Last(<<fr>>), <<>>)
    BY <2>8 DEF Made, Advancing, Behind
  <2>10. Running(frames', chunks')
    BY <1>1, <2>1, <2>7, <2>9 DEF Running
  <2> QED
    BY <1>1, <1>3, <2>1, <2>10, Becomes
<1> QED
  BY <1>2, <1>3

(* The innermost loop, where one runs. *)
LEMMA TopFacts ==
  ASSUME IInv, pc = "split", frames # <<>>
  PROVE  /\ text \in Seq(Bytes) /\ cfg \in Configs /\ TypeOK /\ text # <<>>
         /\ Nested(frames) /\ Made(chunks, 0) /\ Advancing(chunks) /\ Behind(top, chunks)
         /\ Loop(top) /\ top = Last(frames)
<1>1. Running(frames, chunks) /\ TypeOK /\ text # <<>>
  BY DEF IInv
<1>2. Loop(Last(frames))
  BY <1>1, PopNested DEF Running
<1> QED
  BY <1>1, <1>2 DEF Running, TypeOK, top

(* The loop around the innermost goes on behind what that one ran over. *)
LEMMA PopRunning ==
  ASSUME text \in Seq(Bytes), cfg \in Configs, NEW frs, Nested(frs), frs # <<>>,
         NEW chs, Made(chs, 0), Advancing(chs), \A k \in DOMAIN chs : chs[k].end <= Limit(Last(frs))
  PROVE  Running(Front(frs), chs)
<1>1. Nested(Front(frs)) /\ Loop(Last(frs))
  BY PopNested
<1>2. ASSUME Front(frs) # <<>> PROVE Behind(Last(Front(frs)), chs)
  <2>1. Len(frs) # 1
    BY <1>2, PopNested
  <2>2. Loop(Last(Front(frs))) /\ Within(Last(Front(frs)), Last(frs))
    BY <1>2, <2>1, PopNested
  <2> QED
    BY <1>1, <2>2, LeavesBehind
<1> QED
  BY <1>1, <1>2 DEF Running

(* What is packed is a piece of the text. *)
LEMMA PackIs ==
  ASSUME IInv, PackChunk
  PROVE  /\ pc = "split" /\ pc' = "split" /\ Steady /\ frames # <<>> /\ top.kind # "prose"
         /\ top.i \in 1..Len(top.spans) /\ Tokens(top.spans, top.i) <= maxTok
         /\ growChunk(top.spans, top.i) \in top.i..Len(top.spans)
         /\ \E c : /\ Packs(c, top.spans, top.i, growChunk(top.spans, top.i))
                   /\ c.by = "packed" /\ chunks' = Append(chunks, c)
         /\ frames' = IF growChunk(top.spans, top.i) = Len(top.spans) THEN Front(frames)
                      ELSE Changed(frames, At(top, overlapStart(top.spans, top.i, growChunk(top.spans, top.i))))
<1> DEFINE us == top.spans
           i == top.i
           j == growChunk(us, i)
           c == NewChunk(us[i].start, us[j].end, SumTokens(us, i, j), "packed")
<1>1. /\ pc = "split" /\ frames # <<>> /\ top.kind # "prose" /\ i <= Len(us) /\ Tokens(us, i) <= maxTok
      /\ Steady /\ pc' = "split"
  BY DEF PackChunk, Packing, Steady
<1>2. text \in Seq(Bytes) /\ cfg \in Configs /\ Loop(top)
  BY <1>1, TopFacts
<1>3. us \in Seq(Spans) /\ Ordered(us) /\ DOMAIN us = 1..Len(us) /\ Len(us) \in Nat /\ i \in Nat
  BY <1>2, LoopFacts
<1>4. i \in 1..Len(us)
  BY <1>1, <1>2, <1>3 DEF Loop
<1>5. j \in i..Len(us)
  BY <1>2, <1>3, <1>4, GrowFits
<1> HIDE DEF j
<1>6. j \in 1..Len(us) /\ j \in (i - 1)..Len(us) /\ i <= j
  BY <1>3, <1>4, <1>5
<1>7. SumTokens(us, i, j) \in Nat
  BY <1>2, <1>3, <1>4, <1>6, SumType
<1>8. Piece(us[i].start, us[j].end)
  <2>1. Piece(us[i].start, us[i].end) /\ Piece(us[j].start, us[j].end)
    BY <1>2, <1>3, <1>4, <1>6, PieceOf
  <2>2. us[i].start < us[j].end
    BY <1>2, <1>3, <1>4, <1>6, EndsAscend
  <2> QED
    BY <2>1, <2>2 DEF Piece
<1>9. Packs(c, us, i, j) /\ c.by = "packed"
  <2>1. CutFrom(c, 0)
    BY <1>2, <1>7, <1>8, CutMakes
  <2>2. c.start = us[i].start /\ c.end = us[j].end /\ c.by = "packed"
    BY <1>2, <1>7, <1>8, CutMakes
  <2> QED
    BY <2>1, <2>2 DEF Packs
<1>10. chunks' = Append(chunks, c)
  BY DEF PackChunk, j
<1>11. frames' = IF j = Len(us) THEN Front(frames) ELSE Changed(frames, At(top, overlapStart(us, i, j)))
  BY DEF PackChunk, j, Changed
<1> QED
  BY <1>1, <1>4, <1>5, <1>9, <1>10, <1>11 DEF j

(* Packing a chunk keeps the invariant. *)
LEMMA PackKeeps == ASSUME IInv, PackChunk PROVE IInv'
<1> DEFINE us == top.spans
           i == top.i
           j == growChunk(us, i)
           o == overlapStart(us, i, j)
<1>1. /\ pc = "split" /\ pc' = "split" /\ Steady /\ frames # <<>> /\ top.kind # "prose"
      /\ i \in 1..Len(us) /\ Tokens(us, i) <= maxTok /\ j \in i..Len(us)
      /\ frames' = IF j = Len(us) THEN Front(frames) ELSE Changed(frames, At(top, o))
  BY PackIs
<1>2. PICK c : Packs(c, us, i, j) /\ c.by = "packed" /\ chunks' = Append(chunks, c)
  BY PackIs
<1>3. /\ text \in Seq(Bytes) /\ cfg \in Configs /\ TypeOK /\ text # <<>>
      /\ Nested(frames) /\ Made(chunks, 0) /\ Advancing(chunks) /\ Behind(top, chunks)
      /\ Loop(top) /\ top = Last(frames)
  BY <1>1, TopFacts
<1>4. CutFrom(c, 0)
  BY <1>2 DEF Packs
<1>5. i <= Len(us)
  BY <1>1, <1>3, LoopFacts
<1>6. \A k \in DOMAIN chunks : chunks[k].start < c.start /\ chunks[k].end <= c.end
  BY <1>1, <1>2, <1>3, <1>5, PackBehind
<1>7. \A k \in DOMAIN chunks' : chunks'[k].end <= Limit(top)
  BY <1>1, <1>2, <1>3, <1>5, PackBehind
<1>8. Made(chunks', 0) /\ Advancing(chunks')
  BY <1>2, <1>3, <1>4, <1>6, AddChunk, AddAdvances
<1>9. CASE j = Len(us)
  <2>1. Running(frames', chunks')
    BY <1>1, <1>3, <1>7, <1>8, <1>9, PopRunning
  <2> QED
    BY <1>1, <1>3, <2>1, Becomes
<1>10. CASE j # Len(us)
  <2>1. j < Len(us)
    BY <1>1, <1>3, <1>10, LoopFacts
  <2>2. Loop(At(top, o)) /\ Behind(At(top, o), chunks')
    BY <1>1, <1>2, <1>3, <1>5, <2>1, PackBehind
  <2>3. o \in Nat
    <3>1. o \in (i + 1)..(j + 1)
      BY <1>1, <1>3, LoopFacts, OverlapFits
    <3> QED
      BY <1>1, <3>1
  <2> HIDE DEF o
  <2>4. frames' = Changed(frames, At(Last(frames), o))
    BY <1>1, <1>3, <1>10
  <2>5. Nested(frames') /\ Last(frames') = At(top, o)
    <3>1. Loop(At(Last(frames), o))
      BY <1>3, <2>2
    <3>2. Nested(Changed(frames, At(Last(frames), o)))
      BY <1>1, <1>3, <2>3, <3>1, MoveNested
    <3>3. Last(Changed(frames, At(Last(frames), o))) = At(Last(frames), o)
      BY <1>1, <1>3, <2>3, <3>1, MoveNested
    <3> QED
      BY <1>3, <2>4, <3>2, <3>3
  <2>6. Running(frames', chunks')
    BY <1>8, <2>2, <2>5 DEF Running
  <2> QED
    BY <1>1, <1>3, <2>6, Becomes
<1> QED
  BY <1>9, <1>10

(* Giving an oversize span to its splitter keeps the invariant. *)
LEMMA SplitKeeps == ASSUME IInv, SplitOversize PROVE IInv'
<1> DEFINE us == top.spans
           i == top.i
           sub == SplitterOf(top.kind, us[i])
           moved == Changed(frames, At(top, i + 1))
<1>1. /\ pc = "split" /\ frames # <<>> /\ top.kind # "prose" /\ i <= Len(us) /\ Tokens(us, i) > maxTok
      /\ Steady /\ pc' = "split" /\ chunks' = chunks /\ frames' = Append(moved, sub)
  BY DEF SplitOversize, Packing, Steady, Changed
<1>2. /\ text \in Seq(Bytes) /\ cfg \in Configs /\ TypeOK /\ text # <<>>
      /\ Nested(frames) /\ Made(chunks, 0) /\ Advancing(chunks) /\ Behind(top, chunks)
      /\ Loop(top) /\ top = Last(frames)
  BY <1>1, TopFacts
<1>3. /\ Loop(sub) /\ Within(At(top, i + 1), sub) /\ Loop(At(top, i + 1)) /\ Behind(sub, chunks)
  BY <1>1, <1>2, SplitBehind
<1>4. i + 1 \in Nat
  BY <1>2, LoopFacts
<1>5. Nested(moved) /\ moved # <<>> /\ Last(moved) = At(top, i + 1)
  <2>1. Loop(At(Last(frames), i + 1))
    BY <1>2, <1>3
  <2>2. Nested(Changed(frames, At(Last(frames), i + 1)))
    BY <1>1, <1>2, <1>4, <2>1, MoveNested
  <2>3. /\ Changed(frames, At(Last(frames), i + 1)) # <<>>
        /\ Last(Changed(frames, At(Last(frames), i + 1))) = At(Last(frames), i + 1)
    BY <1>1, <1>2, <1>4, <2>1, MoveNested
  <2> QED
    BY <1>2, <2>2, <2>3
<1> HIDE DEF moved, sub
<1>6. Nested(frames') /\ Last(frames') = sub
  BY <1>1, <1>2, <1>3, <1>5, PushNested
<1>7. Running(frames', chunks')
  BY <1>1, <1>2, <1>3, <1>6 DEF Running
<1> QED
  BY <1>1, <1>2, <1>7, Becomes

(* Leaving a loop keeps the invariant. *)
LEMMA LeaveKeeps == ASSUME IInv, LeaveLoop PROVE IInv'
<1>1. /\ pc = "split" /\ frames # <<>> /\ Steady /\ pc' = "split" /\ chunks' = chunks /\ frames' = Front(frames)
  BY DEF LeaveLoop, Packing, Steady
<1>2. /\ text \in Seq(Bytes) /\ cfg \in Configs /\ TypeOK /\ text # <<>>
      /\ Nested(frames) /\ Made(chunks, 0) /\ Advancing(chunks) /\ Behind(top, chunks)
      /\ Loop(top) /\ top = Last(frames)
  BY <1>1, TopFacts
<1>3. \A k \in DOMAIN chunks : chunks[k].end <= Limit(Last(frames))
  BY <1>2 DEF Behind
<1>4. Running(frames', chunks')
  BY <1>1, <1>2, <1>3, PopRunning
<1> QED
  BY <1>1, <1>2, <1>4, Becomes

(* What is cut from prose is a piece of the text. *)
LEMMA CutIs ==
  ASSUME IInv, CutProse
  PROVE  /\ pc = "split" /\ pc' = "split" /\ Steady /\ frames # <<>> /\ top.kind = "prose"
         /\ \E c : /\ CutFrom(c, 0) /\ c.start = top.i /\ c.end = ProseEnd(top.spans[1], top.i)
                   /\ c.by = "prose" /\ chunks' = Append(chunks, c)
         /\ frames' = IF ProseEnd(top.spans[1], top.i) >= top.spans[1].end
                           \/ ProseNext(top.spans[1], top.i) >= top.spans[1].end THEN Front(frames)
                      ELSE Changed(frames, At(top, ProseNext(top.spans[1], top.i)))
<1> DEFINE span == top.spans[1]
           i == top.i
           e == ProseEnd(span, i)
           c == NewChunk(i, e, est(i, e), "prose")
<1>1. /\ pc = "split" /\ frames # <<>> /\ top.kind = "prose" /\ Steady /\ pc' = "split"
  BY DEF CutProse, Steady
<1>2. text \in Seq(Bytes) /\ cfg \in Configs /\ Loop(top)
  BY <1>1, TopFacts
<1>3. /\ span \in Spans /\ Piece(span.start, span.end) /\ i \in span.start..(span.end - 1)
      /\ span.start \in Nat /\ span.end \in Nat /\ Clean(i)
  BY <1>1, <1>2, ProseSpan
<1>4. e \in (i + 1)..span.end /\ e \in Nat /\ Clean(e)
  BY <1>2, <1>3, ProseEnds
<1> HIDE DEF e
<1>5. Piece(i, e)
  <2>1. span.end \in 1..Len(text) /\ Len(text) \in Nat
    BY <1>2, <1>3 DEF Piece
  <2>2. i \in Nat /\ e \in 1..Len(text) /\ i < e
    BY <1>3, <1>4, <2>1
  <2> QED
    BY <1>3, <1>4, <2>2 DEF Piece
<1>6. est(i, e) \in Nat
  <2>1. i \in Nat
    BY <1>5 DEF Piece
  <2> QED
    BY <1>2, <1>4, <2>1, EstType
<1>7. CutFrom(c, 0) /\ c.start = i /\ c.end = e /\ c.by = "prose"
  <2>1. CutFrom(c, 0)
    BY <1>2, <1>5, <1>6, CutMakes
  <2>2. c.start = i /\ c.end = e /\ c.by = "prose"
    BY <1>2, <1>5, <1>6, CutMakes
  <2> QED
    BY <2>1, <2>2
<1>8. chunks' = Append(chunks, c)
  BY DEF CutProse, e
<1>9. frames' = IF e >= span.end \/ ProseNext(span, i) >= span.end THEN Front(frames)
                ELSE Changed(frames, At(top, ProseNext(span, i)))
  BY DEF CutProse, Changed, e
<1> QED
  BY <1>1, <1>7, <1>8, <1>9 DEF e

(* Cutting a chunk of prose keeps the invariant. *)
LEMMA CutKeeps == ASSUME IInv, CutProse PROVE IInv'
<1> DEFINE span == top.spans[1]
           i == top.i
           e == ProseEnd(span, i)
           q == ProseNext(span, i)
<1>1. /\ pc = "split" /\ pc' = "split" /\ Steady /\ frames # <<>> /\ top.kind = "prose"
      /\ frames' = IF e >= span.end \/ q >= span.end THEN Front(frames) ELSE Changed(frames, At(top, q))
  BY CutIs
<1>2. PICK c : CutFrom(c, 0) /\ c.start = i /\ c.end = e /\ c.by = "prose" /\ chunks' = Append(chunks, c)
  BY CutIs
<1>3. /\ text \in Seq(Bytes) /\ cfg \in Configs /\ TypeOK /\ text # <<>>
      /\ Nested(frames) /\ Made(chunks, 0) /\ Advancing(chunks) /\ Behind(top, chunks)
      /\ Loop(top) /\ top = Last(frames)
  BY <1>1, TopFacts
<1>4. \A k \in DOMAIN chunks : chunks[k].start < c.start /\ chunks[k].end <= c.end
  BY <1>1, <1>2, <1>3, CutBehind
<1>5. \A k \in DOMAIN chunks' : chunks'[k].end <= Limit(top)
  BY <1>1, <1>2, <1>3, CutBehind
<1>6. Made(chunks', 0) /\ Advancing(chunks')
  BY <1>2, <1>3, <1>4, AddChunk, AddAdvances
<1>7. CASE e >= span.end \/ q >= span.end
  <2>1. frames' = Front(frames)
    BY <1>1, <1>7
  <2>2. Running(frames', chunks')
    BY <1>1, <1>3, <1>5, <1>6, <2>1, PopRunning
  <2> QED
    BY <1>1, <1>3, <2>2, Becomes
<1>8. CASE ~(e >= span.end \/ q >= span.end)
  <2>1. q < span.end /\ q \in Nat
    <3>1. /\ span \in Spans /\ Piece(span.start, span.end) /\ i \in span.start..(span.end - 1)
          /\ span.end \in Nat /\ Clean(i)
      BY <1>1, <1>3, ProseSpan
    <3>2. q \in Nat
      BY <1>3, <3>1, ProseGoesOn
    <3> QED
      BY <1>8, <3>1, <3>2
  <2>2. Loop(At(top, q)) /\ Behind(At(top, q), chunks')
    BY <1>1, <1>2, <1>3, <2>1, CutBehind
  <2> HIDE DEF q
  <2>3. frames' = Changed(frames, At(Last(frames), q))
    BY <1>1, <1>3, <1>8
  <2>4. Nested(frames') /\ Last(frames') = At(top, q)
    <3>1. Loop(At(Last(frames), q))
      BY <1>3, <2>2
    <3>2. Nested(Changed(frames, At(Last(frames), q)))
      BY <1>1, <1>3, <2>1, <3>1, MoveNested
    <3>3. Last(Changed(frames, At(Last(frames), q))) = At(Last(frames), q)
      BY <1>1, <1>3, <2>1, <3>1, MoveNested
    <3> QED
      BY <1>3, <2>3, <3>2, <3>3
  <2>5. Running(frames', chunks')
    BY <1>6, <2>2, <2>4 DEF Running
  <2> QED
    BY <1>1, <1>3, <2>5, Becomes
<1> QED
  BY <1>7, <1>8

(* A chunk in the coordinates of the source. *)
Shifted(c) == [c EXCEPT !.start = @ + off, !.end = @ + off]

(* A shifted chunk is the same piece of the text, off bytes into the source. *)
LEMMA ShiftedFrom ==
  ASSUME text \in Seq(Bytes), off \in Nat, NEW c, CutFrom(c, 0)
  PROVE  /\ CutFrom(Shifted(c), off)
         /\ Shifted(c).start = c.start + off /\ Shifted(c).end = c.end + off
         /\ Shifted(c).text = c.text /\ Shifted(c).by = c.by
<1>1. c \in Chunks /\ Piece(c.start - 0, c.end - 0) /\ c.text = SubSeq(text, c.start - 0 + 1, c.end - 0)
  BY DEF CutFrom
<1>2. c.start \in Nat /\ c.end \in Nat
  BY <1>1 DEF Chunks
<1>3. /\ Shifted(c).start = c.start + off /\ Shifted(c).end = c.end + off
      /\ Shifted(c).text = c.text /\ Shifted(c).by = c.by
  BY <1>1 DEF Shifted, Chunks
<1>4. Shifted(c) \in Chunks
  <2>1. \A d \in Chunks : \A x, y \in Nat : [d EXCEPT !.start = x, !.end = y] \in Chunks
    BY DEF Chunks
  <2>2. c.start + off \in Nat /\ c.end + off \in Nat
    BY <1>2
  <2>3. Shifted(c) = [c EXCEPT !.start = c.start + off, !.end = c.end + off]
    BY Zenon DEF Shifted
  <2> QED
    BY <1>1, <2>1, <2>2, <2>3
<1>5. /\ c.start - 0 = c.start /\ c.end - 0 = c.end
      /\ (c.start + off) - off = c.start /\ (c.end + off) - off = c.end /\ c.start + off >= off
  BY <1>2
<1>6. Piece(Shifted(c).start - off, Shifted(c).end - off)
  BY <1>1, <1>3, <1>5
<1>7. Shifted(c).text = SubSeq(text, Shifted(c).start - off + 1, Shifted(c).end - off)
  BY <1>1, <1>3, <1>5
<1>8. Shifted(c).start >= off
  BY <1>3, <1>5
<1> QED
  BY <1>3, <1>4, <1>6, <1>7, <1>8 DEF CutFrom

(* Split ends by shifting every chunk. *)
LEMMA FinishIs ==
  ASSUME IInv, Finish
  PROVE  /\ pc = "split" /\ pc' = "done" /\ Steady /\ frames = <<>> /\ frames' = frames
         /\ DOMAIN chunks' = DOMAIN chunks /\ Len(chunks') = Len(chunks) /\ chunks' \in Seq(Chunks)
         /\ \A k \in DOMAIN chunks : chunks'[k] = Shifted(chunks[k])
<1>1. pc = "split" /\ pc' = "done" /\ Steady /\ frames = <<>> /\ frames' = frames
  BY DEF Finish, Steady
<1>2. chunks' = [k \in DOMAIN chunks |-> Shifted(chunks[k])]
  BY Zenon DEF Finish, Shifted
<1>3. Made(chunks, 0) /\ text \in Seq(Bytes) /\ off \in Nat
  BY <1>1 DEF IInv, Running, TypeOK
<1>4. chunks \in Seq(Chunks) /\ \A k \in DOMAIN chunks : Shifted(chunks[k]) \in Chunks
  <2>1. \A k \in DOMAIN chunks : CutFrom(chunks[k], 0)
    BY <1>3 DEF Made
  <2>2. \A k \in DOMAIN chunks : CutFrom(Shifted(chunks[k]), off)
    BY <1>3, <2>1, ShiftedFrom
  <2> QED
    BY <1>3, <2>2 DEF Made, CutFrom
<1>5. DOMAIN chunks = 1..Len(chunks) /\ Len(chunks) \in Nat
  BY <1>4
<1>6. DOMAIN chunks' = DOMAIN chunks /\ Len(chunks') = Len(chunks) /\ chunks' \in Seq(Chunks)
  BY <1>2, <1>4, <1>5
<1>7. \A k \in DOMAIN chunks : chunks'[k] = Shifted(chunks[k])
  BY <1>2
<1> QED
  BY <1>1, <1>6, <1>7

(* Shifting the chunks keeps the invariant. *)
LEMMA FinishKeeps == ASSUME IInv, Finish PROVE IInv'
<1>1. /\ pc = "split" /\ pc' = "done" /\ Steady /\ frames = <<>> /\ frames' = frames
      /\ DOMAIN chunks' = DOMAIN chunks /\ Len(chunks') = Len(chunks) /\ chunks' \in Seq(Chunks)
      /\ \A k \in DOMAIN chunks : chunks'[k] = Shifted(chunks[k])
  BY FinishIs
<1>2. TypeOK /\ Made(chunks, 0) /\ Advancing(chunks) /\ text \in Seq(Bytes) /\ off \in Nat
  BY <1>1 DEF IInv, Running, TypeOK
<1>3. TypeOK'
  BY <1>1, <1>2 DEF TypeOK, Steady
<1>4. \A k \in DOMAIN chunks : CutFrom(chunks[k], 0)
  BY <1>2 DEF Made
<1>5. Made(chunks', off)
  <2>1. \A k \in DOMAIN chunks : CutFrom(Shifted(chunks[k]), off)
    BY <1>2, <1>4, ShiftedFrom
  <2> QED
    BY <1>1, <2>1 DEF Made
<1>6. Advancing(chunks')
  <2>1. ASSUME NEW k \in 2..Len(chunks)
        PROVE  chunks'[k - 1].start < chunks'[k].start /\ chunks'[k - 1].end <= chunks'[k].end
    <3>1. k - 1 \in DOMAIN chunks /\ k \in DOMAIN chunks
      <4>1. chunks \in Seq(Chunks)
        BY <1>2 DEF Made
      <4> QED
        BY <4>1
    <3>2. /\ chunks'[k - 1].start = chunks[k - 1].start + off /\ chunks'[k - 1].end = chunks[k - 1].end + off
          /\ chunks'[k].start = chunks[k].start + off /\ chunks'[k].end = chunks[k].end + off
      BY <1>1, <1>2, <1>4, <3>1, ShiftedFrom
    <3>3. chunks[k - 1].start < chunks[k].start /\ chunks[k - 1].end <= chunks[k].end
      BY <1>2 DEF Advancing
    <3>4. /\ chunks[k - 1].start \in Nat /\ chunks[k - 1].end \in Nat
          /\ chunks[k].start \in Nat /\ chunks[k].end \in Nat
      BY <1>2, <3>1, MadeFacts
    <3>5. \A a, b, x \in Nat : (a < b => a + x < b + x) /\ (a <= b => a + x <= b + x)
      OBVIOUS
    <3>6. /\ chunks[k - 1].start + off < chunks[k].start + off
          /\ chunks[k - 1].end + off <= chunks[k].end + off
      BY <1>2, <3>3, <3>4, <3>5
    <3> QED
      BY <3>2, <3>6
  <2> QED
    BY <1>1, <2>1 DEF Advancing
<1>7. \A chs, o : Made(chs, o)' <=> Made(chs, o)
  BY <1>1, Same DEF Steady
<1>8. Made(chunks, off)' /\ Advancing(chunks)'
  BY <1>1, <1>5, <1>6, <1>7 DEF Steady
<1> QED
  BY <1>1, <1>3, <1>8 DEF IInv

(* A step that changes nothing keeps the invariant. *)
LEMMA StutterKeeps == ASSUME IInv, UNCHANGED vars PROVE IInv'
<1>1. /\ source' = source /\ cfg' = cfg /\ text' = text /\ off' = off
      /\ frames' = frames /\ chunks' = chunks /\ pc' = pc
  BY DEF vars
<1>2. /\ \A frs : Nested(frs)' <=> Nested(frs)
      /\ \A chs, o : Made(chs, o)' <=> Made(chs, o)
      /\ \A fr, chs : Behind(fr, chs)' <=> Behind(fr, chs)
  BY <1>1, Same
<1>3. \A frs, chs : Running(frs, chs)' <=> Running(frs, chs)
  BY <1>2 DEF Running
<1>4. TypeOK => TypeOK'
  BY <1>1 DEF TypeOK
<1>5. /\ Running(frames, chunks) => Running(frames, chunks)'
      /\ Made(chunks, off) => Made(chunks, off)'
      /\ Advancing(chunks) => Advancing(chunks)'
  BY <1>1, <1>2, <1>3
<1> QED
  BY <1>1, <1>4, <1>5 DEF IInv

(* Every step keeps the invariant. *)
LEMMA IInvKept == IInv /\ [Next]_vars => IInv'
  BY StartKeeps, PackKeeps, SplitKeeps, LeaveKeeps, CutKeeps, FinishKeeps, StutterKeeps
  DEF Next, Step, Terminated

(* The invariant always holds. *)
LEMMA AlwaysIInv == Spec => []IInv
  BY InitIInv, IInvKept, PTL DEF Spec

(* Each chunk of Split starts behind the one before it and ends no earlier, for every
   text, whatever the segmenter returns and whatever the budgets. *)
THEOREM ChunksAdvance == Spec => []StartsAdvance
<1>1. IInv => StartsAdvance
  <2>1. Advancing(chunks) => StartsAdvance
    BY DEF Advancing, StartsAdvance
  <2>2. IInv /\ pc = "start" => StartsAdvance
    <3>1. Len(<<>>) = 0 /\ 2..0 = {}
      OBVIOUS
    <3> QED
      BY <3>1 DEF IInv, StartsAdvance
  <2> QED
    BY <2>1, <2>2 DEF IInv, TypeOK, Running
<1> QED
  BY <1>1, AlwaysIInv, PTL

(* The starts of advancing chunks are as many different places in the text. *)
LEMMA AdvancingAreFew ==
  ASSUME text \in Seq(Bytes), NEW o \in Nat, NEW chs, Made(chs, o), Advancing(chs)
  PROVE  Len(chs) \in Nat /\ Len(chs) <= Len(text)
<1>1. Len(chs) \in Nat /\ DOMAIN chs = 1..Len(chs) /\ Len(text) \in Nat
  BY DEF Made
<1>2. ASSUME NEW k \in 1..Len(chs)
      PROVE  chs[k].start \in Nat /\ chs[k].start >= o /\ chs[k].start - o < Len(text)
  <2>1. /\ chs[k] \in Chunks /\ chs[k].start >= o
        /\ Piece(chs[k].start - o, chs[k].end - o)
    BY <1>1 DEF Made, CutFrom
  <2>2. chs[k].start \in Nat
    BY <2>1 DEF Chunks
  <2>3. /\ chs[k].start - o \in Nat /\ chs[k].end - o \in 1..Len(text)
        /\ chs[k].start - o < chs[k].end - o
    BY <2>1 DEF Piece
  <2> QED
    BY <1>1, <2>1, <2>2, <2>3
<1> DEFINE bad == {k \in 1..Len(chs) : ~(chs[k].start - o >= k - 1)}
<1>3. bad = {}
  <2>1. SUFFICES ASSUME bad # {} PROVE FALSE
    OBVIOUS
  <2>0. bad \in SUBSET Nat
    BY <1>1
  <2>2. PICK k \in bad : \A l \in bad : k <= l
    <3> HIDE DEF bad
    <3> QED
      BY <2>0, <2>1, Least
  <2>3. k \in 1..Len(chs) /\ ~(chs[k].start - o >= k - 1)
    BY <2>2
  <2>4. CASE k = 1
    BY <1>2, <2>3, <2>4
  <2>5. CASE k # 1
    <3>1. k \in 2..Len(chs) /\ k - 1 \in 1..Len(chs) /\ ~(k <= k - 1)
      BY <1>1, <2>3, <2>5
    <3>2. k - 1 \notin bad
      BY <2>2, <3>1
    <3>3. chs[k - 1].start - o >= (k - 1) - 1
      BY <3>1, <3>2
    <3>4. chs[k - 1].start < chs[k].start
      BY <3>1 DEF Advancing
    <3>5. chs[k - 1].start \in Nat /\ chs[k].start \in Nat
      BY <1>2, <2>3, <3>1
    <3> QED
      BY <2>3, <3>1, <3>3, <3>4, <3>5
  <2> QED
    BY <2>4, <2>5
<1>4. CASE Len(chs) = 0
  BY <1>1, <1>4
<1>5. CASE Len(chs) # 0
  <2>1. Len(chs) \in 1..Len(chs)
    BY <1>1, <1>5
  <2>2. chs[Len(chs)].start - o >= Len(chs) - 1
    BY <1>3, <2>1
  <2>3. chs[Len(chs)].start \in Nat /\ chs[Len(chs)].start - o < Len(text)
    BY <1>2, <2>1
  <2> QED
    BY <1>1, <2>2, <2>3
<1> QED
  BY <1>1, <1>4, <1>5

(* Split makes no more chunks than the text has bytes, whatever the overlap: the cap on
   their number in the guards of the model never stops it. *)
THEOREM ChunksAreFew == Spec => [](Len(chunks) <= Len(text) /\ Len(chunks) < ChunkCap)
<1>1. IInv => Len(chunks) <= Len(text) /\ Len(chunks) < ChunkCap
  <2>1. ASSUME IInv PROVE Len(chunks) <= Len(text)
    <3>1. text \in Seq(Bytes) /\ off \in Nat /\ Len(text) \in Nat /\ pc \in {"start", "split", "done"}
      BY <2>1 DEF IInv, TypeOK
    <3>2. CASE pc = "start"
      <4>1. chunks = <<>>
        BY <2>1, <3>2 DEF IInv
      <4> QED
        BY <3>1, <4>1
    <3>3. CASE pc = "split"
      <4>1. Made(chunks, 0) /\ Advancing(chunks) /\ 0 \in Nat
        BY <2>1, <3>3 DEF IInv, Running
      <4> QED
        BY <3>1, <4>1, AdvancingAreFew
    <3>4. CASE pc = "done"
      <4>1. Made(chunks, off) /\ Advancing(chunks)
        BY <2>1, <3>4 DEF IInv
      <4> QED
        BY <3>1, <4>1, AdvancingAreFew
    <3> QED
      BY <3>1, <3>2, <3>3, <3>4
  <2>2. ASSUME IInv PROVE /\ Len(text) <= Len(source) /\ Len(text) \in Nat /\ Len(source) \in Nat
    <3>1. /\ text \in Seq(Bytes) /\ source \in Seq(Bytes) /\ off \in Nat
          /\ text # <<>> => off + Len(text) <= Len(source)
      BY <2>2 DEF IInv, TypeOK
    <3>2. text = <<>> => Len(text) = 0
      OBVIOUS
    <3> QED
      BY <3>1, <3>2
  <2>3. ASSUME IInv PROVE Len(chunks) \in Nat
    <3>1. chunks = <<>> \/ chunks \in Seq(Chunks)
      BY <2>3 DEF IInv, TypeOK, Running, Made
    <3> QED
      BY <3>1
  <2> QED
    BY <2>1, <2>2, <2>3 DEF ChunkCap
<1> QED
  BY <1>1, AlwaysIInv, PTL

(* What a chunk holds is at its place in the source. *)
LEMMA TextInSource ==
  ASSUME TypeOK, text # <<>>, NEW c, CutFrom(c, off)
  PROVE  c.text = SubSeq(source, c.start + 1, c.end)
<1>1. /\ source \in Seq(Bytes) /\ off \in Nat /\ text \in Seq(Bytes) /\ Len(source) \in Nat
      /\ off + Len(text) <= Len(source) /\ text = SubSeq(source, off + 1, off + Len(text)) /\ Len(text) \in Nat
  BY DEF TypeOK
<1> DEFINE s == c.start - off
           e == c.end - off
<1>2. c.start \in Nat /\ c.end \in Nat /\ c.start >= off /\ Piece(s, e) /\ c.text = SubSeq(text, s + 1, e)
  BY DEF CutFrom, Chunks
<1>3. s \in Nat /\ e \in 1..Len(text) /\ s < e
  BY <1>2 DEF Piece
<1>4. s + off = c.start /\ e + off = c.end
  BY <1>1, <1>2
<1> HIDE DEF s, e
<1>5. s + 1 \in 1..Len(text) /\ s + 1 \in Nat /\ e \in Nat /\ e <= Len(text) /\ s + 1 <= e
  BY <1>1, <1>3
<1>6. c.start + 1 \in Nat /\ c.end \in Nat /\ c.end <= Len(source) /\ c.start + 1 <= c.end
  <2>1. /\ s \in Nat /\ e \in Nat /\ off \in Nat /\ Len(text) \in Nat /\ Len(source) \in Nat
        /\ s + 1 <= e /\ e <= Len(text) /\ off + Len(text) <= Len(source)
    BY <1>1, <1>3, <1>5
  <2>2. s + off + 1 \in Nat /\ e + off \in Nat /\ e + off <= Len(source) /\ s + off + 1 <= e + off
    BY <2>1
  <2> QED
    BY <1>4, <2>2
<1>7. SubSeq(text, s + 1, e) = [k \in 1..(e - (s + 1) + 1) |-> text[k + (s + 1) - 1]]
  BY <1>5
<1>8. SubSeq(source, c.start + 1, c.end) = [k \in 1..(c.end - (c.start + 1) + 1) |-> source[k + (c.start + 1) - 1]]
  BY <1>6
<1>9. e - (s + 1) + 1 = e - s /\ c.end - (c.start + 1) + 1 = e - s
  BY <1>1, <1>2, <1>4, <1>5, <1>3
<1>10. ASSUME NEW k \in 1..(e - s) PROVE text[k + (s + 1) - 1] = source[k + (c.start + 1) - 1]
  <2>1. k + s \in 1..Len(text) /\ k + (s + 1) - 1 = k + s /\ k + (c.start + 1) - 1 = (k + s) + off
    BY <1>1, <1>3, <1>4, <1>5
  <2>2. \A x \in 1..Len(text) : text[x] = source[x + off]
    <3>1. ASSUME NEW x \in 1..Len(text) PROVE SubSeq(source, off + 1, off + Len(text))[x] = source[x + off]
      BY <1>1
    <3> QED
      BY <1>1, <3>1
  <2> QED
    BY <2>1, <2>2
<1> QED
  BY <1>2, <1>7, <1>8, <1>9, <1>10

(* The span of each finished chunk is where its text is in the caller's source. *)
THEOREM SpansMatch == Spec => []SpanMatchesText
<1>1. IInv => SpanMatchesText
  <2> SUFFICES ASSUME IInv, pc = "done", NEW k \in DOMAIN chunks
               PROVE  chunks[k].text = SubSeq(source, chunks[k].start + 1, chunks[k].end)
    BY DEF SpanMatchesText
  <2>1. TypeOK /\ CutFrom(chunks[k], off)
    BY DEF IInv, Made
  <2>2. text # <<>>
    <3>1. Piece(chunks[k].start - off, chunks[k].end - off)
      BY <2>1 DEF CutFrom
    <3>2. 1..Len(text) # {} /\ text \in Seq(Bytes)
      BY <2>1, <3>1 DEF Piece, TypeOK
    <3> QED
      BY <3>2
  <2> QED
    BY <2>1, <2>2, TextInSource
<1> QED
  BY <1>1, AlwaysIInv, PTL

(* No chunk of valid UTF-8 cuts a rune, of whatever width, in packing, fences, lines or
   prose: each is valid UTF-8 itself. *)
THEOREM NoRuneIsCut == Spec => []RunesWhole
<1>1. IInv => RunesWhole
  <2> SUFFICES ASSUME IInv, ValidUTF8(text), NEW k \in DOMAIN chunks
               PROVE  ValidUTF8(chunks[k].text)
    BY DEF RunesWhole
  <2>1. TypeOK /\ text \in Seq(Bytes) /\ chunks # <<>>
    BY DEF IInv, TypeOK
  <2>2. PICK o : CutFrom(chunks[k], o)
    BY <2>1 DEF IInv, TypeOK, Running, Made
  <2> DEFINE s == chunks[k].start - o
             e == chunks[k].end - o
  <2>3. Piece(s, e) /\ chunks[k].text = SubSeq(text, s + 1, e)
    BY <2>2 DEF CutFrom
  <2> HIDE DEF s, e
  <2>4. s \in Nat /\ e \in 1..Len(text) /\ s < e /\ Clean(s) /\ Clean(e)
    BY <2>3 DEF Piece
  <2>5. e \in 0..Len(text) /\ s <= e
    BY <2>4
  <2> QED
    BY <2>1, <2>3, <2>4, <2>5, ValidStretch
<1> QED
  BY <1>1, AlwaysIInv, PTL

-------------------------------------------------------------------------------
(* Nothing is lost. *)

(* Spans that follow each other without a gap. *)
Contiguous(us) == \A k \in DOMAIN us : k > 1 => us[k].start = us[k - 1].end

(* How far the chunks so far reach. *)
Covered(chs) == IF chs = <<>> THEN 0 ELSE chs[Len(chs)].end

(* The chunks cover the text from its start, with no gap between them. *)
Gapless(chs) ==
  /\ chs # <<>> => chs[1].start = 0
  /\ \A k \in 2..Len(chs) : chs[k].start <= chs[k - 1].end

(* The innermost loop resumes no further than the chunks reach. *)
Joined(frs, chs) ==
  /\ Gapless(chs)
  /\ frs # <<>> => Resume(Last(frs)) <= Covered(chs)
  /\ frs = <<>> => Len(text) <= Covered(chs)

(* The units of a gap-free text fill it. *)
LEMMA UnitsFill ==
  ASSUME text \in Seq(Bytes), text # <<>>, cfg \in Configs, GapFree
  PROVE  /\ Contiguous(Units) /\ Units[1].start = 0 /\ Units[Len(Units)].end = Len(text)
         /\ Len(Units) \in Nat /\ Len(Units) >= 1 /\ DOMAIN Units = 1..Len(Units)
<1>1. Units \in Seq(Spans) /\ Units # <<>>
  BY UnitsOrdered DEF Ordered
<1>2. Len(Units) \in Nat /\ Len(Units) >= 1 /\ DOMAIN Units = 1..Len(Units)
  BY <1>1
<1>3. \A k \in 2..Len(Units) : Units[k].start = Units[k - 1].end
  BY DEF GapFree
<1>4. \A k \in DOMAIN Units : k > 1 => k \in 2..Len(Units)
  BY <1>2
<1>5. Contiguous(Units)
  BY <1>3, <1>4 DEF Contiguous
<1> QED
  BY <1>2, <1>5 DEF GapFree

(* Of gap-free text, every loop runs over contiguous spans. *)
LEMMA LoopsContiguous ==
  ASSUME text \in Seq(Bytes), text # <<>>, cfg \in Configs, GapFree,
         NEW frs, Nested(frs), NEW f \in DOMAIN frs
  PROVE  Contiguous(frs[f].spans)
<1>1. frs \in Seq(Frames) /\ DOMAIN frs = 1..Len(frs) /\ Len(frs) \in Nat
  BY DEF Nested
<1>2. CASE f = 1
  <2>1. frs # <<>>
    BY <1>1
  <2>2. frs[1].spans = Units
    BY <2>1 DEF Nested
  <2> QED
    BY <1>2, <2>2, UnitsFill
<1>3. CASE f # 1
  <2>1. f > 1
    BY <1>1, <1>3
  <2>2. Within(frs[f - 1], frs[f])
    BY <2>1 DEF Nested
  <2> QED
    BY <2>2 DEF Within, Fills, Contiguous
<1> QED
  BY <1>2, <1>3

(* The loop around another resumes where that one ends. *)
LEMMA OuterResumes ==
  ASSUME text \in Seq(Bytes), NEW outer, Loop(outer), Contiguous(outer.spans),
         NEW inner, Loop(inner), Within(outer, inner)
  PROVE  Resume(outer) = Limit(inner)
<1> DEFINE us == outer.spans
           i == outer.i
<1>1. /\ us \in Seq(Spans) /\ DOMAIN us = 1..Len(us) /\ Len(us) \in Nat /\ i \in Nat
      /\ i \in 1..(Len(us) + 1) /\ i > 1 /\ outer.kind # "prose"
  BY LoopFacts DEF Loop, Within
<1>2. Limit(inner) = us[i - 1].end
  BY DEF Within, Fills, Limit
<1>3. CASE i > Len(us)
  <2>1. i - 1 = Len(us)
    BY <1>1, <1>3
  <2> QED
    BY <1>1, <1>2, <1>3, <2>1 DEF Resume, Limit
<1>4. CASE ~(i > Len(us))
  <2>1. i \in DOMAIN us
    BY <1>1, <1>4
  <2>2. us[i].start = us[i - 1].end
    BY <1>1, <2>1 DEF Contiguous
  <2> QED
    BY <1>1, <1>2, <1>4, <2>2 DEF Resume
<1> QED
  BY <1>3, <1>4

(* When the innermost loop has ended and the chunks reach its end, they reach as far as the
   loop around it resumes, or to the end of the text. *)
LEMMA PopJoined ==
  ASSUME text \in Seq(Bytes), text # <<>>, cfg \in Configs, GapFree,
         NEW frs, Nested(frs), frs # <<>>, NEW chs, Gapless(chs), Limit(Last(frs)) <= Covered(chs)
  PROVE  Joined(Front(frs), chs)
<1>1. Loop(Last(frs)) /\ (Front(frs) # <<>> => Loop(Last(Front(frs))))
  BY PopNested
<1>2. frs \in Seq(Frames) /\ Len(frs) \in Nat /\ Len(frs) >= 1 /\ DOMAIN frs = 1..Len(frs)
  BY DEF Nested
<1>3. ASSUME Front(frs) # <<>> PROVE Resume(Last(Front(frs))) <= Covered(chs)
  <2>1. Len(frs) # 1
    BY <1>3, PopNested
  <2>2. /\ Last(Front(frs)) = frs[Len(frs) - 1] /\ Within(Last(Front(frs)), Last(frs))
    BY <2>1, PopNested
  <2>3. Len(frs) - 1 \in DOMAIN frs
    BY <1>2, <2>1
  <2>4. Contiguous(Last(Front(frs)).spans)
    BY <2>2, <2>3, LoopsContiguous
  <2>5. Resume(Last(Front(frs))) = Limit(Last(frs))
    BY <1>1, <1>3, <2>2, <2>4, OuterResumes
  <2> QED
    BY <2>5
<1>4. ASSUME Front(frs) = <<>> PROVE Len(text) <= Covered(chs)
  <2>1. Len(frs) = 1
    BY <1>4, PopNested
  <2>2. Last(frs).spans = Units
    BY <2>1 DEF Last, Nested
  <2>3. Limit(Last(frs)) = Len(text)
    BY <2>2, UnitsFill DEF Limit
  <2> QED
    BY <2>3
<1> QED
  BY <1>3, <1>4 DEF Joined

(* A chunk that starts no further than the others reach leaves no gap. *)
LEMMA AddGapless ==
  ASSUME text \in Seq(Bytes), NEW chs, Made(chs, 0), Gapless(chs),
         NEW c, CutFrom(c, 0), c.start \in Nat, c.start <= Covered(chs)
  PROVE  Gapless(Append(chs, c)) /\ Covered(Append(chs, c)) = c.end
<1> DEFINE d == Append(chs, c)
           n == Len(chs)
<1>1. /\ Len(d) = n + 1 /\ n \in Nat /\ DOMAIN chs = 1..n /\ d[n + 1] = c
      /\ \A k \in DOMAIN chs : d[k] = chs[k]
      /\ DOMAIN d = 1..(n + 1)
  BY AddChunk
<1> HIDE DEF d
<1>2. d # <<>> /\ Covered(d) = c.end
  <2>1. Len(<<>>) = 0
    OBVIOUS
  <2>2. d # <<>>
    BY <1>1, <2>1
  <2> QED
    BY <1>1, <2>2 DEF Covered
<1>3. d[1].start = 0
  <2>1. CASE chs = <<>>
    <3>1. n = 0 /\ Covered(chs) = 0
      BY <2>1 DEF Covered
    <3>2. d[1] = c
      BY <1>1, <3>1
    <3> QED
      BY <3>1, <3>2
  <2>2. CASE chs # <<>>
    <3>1. 1 \in DOMAIN chs
      BY <1>1, <2>2 DEF Made
    <3> QED
      BY <1>1, <2>2, <3>1 DEF Gapless
  <2> QED
    BY <2>1, <2>2
<1>4. ASSUME NEW k \in 2..Len(d) PROVE d[k].start <= d[k - 1].end
  <2>1. k - 1 \in DOMAIN chs /\ n >= 1
    BY <1>1
  <2>2. d[k - 1] = chs[k - 1]
    BY <1>1, <2>1
  <2>3. CASE k = n + 1
    <3>1. Len(<<>>) = 0
      OBVIOUS
    <3>2. chs # <<>> /\ k - 1 = n /\ d[k] = c
      BY <1>1, <2>1, <2>3, <3>1
    <3>3. Covered(chs) = chs[k - 1].end
      BY <3>2 DEF Covered
    <3> QED
      BY <2>2, <3>2, <3>3
  <2>4. CASE k # n + 1
    <3>1. k \in 2..n /\ k \in DOMAIN chs
      BY <1>1, <2>4
    <3> QED
      BY <1>1, <2>2, <3>1 DEF Gapless
  <2> QED
    BY <2>3, <2>4
<1> QED
  BY <1>2, <1>3, <1>4 DEF Gapless, d

(* Of valid UTF-8 the chunk of prose that follows starts no later than this one ends. *)
LEMMA ProseJoins ==
  ASSUME text \in Seq(Bytes), cfg \in Configs, ValidUTF8(text), NEW span \in Spans,
         Piece(span.start, span.end), NEW pos \in span.start..(span.end - 1), Clean(pos)
  PROVE  ProseNext(span, pos) <= ProseEnd(span, pos)
<1> DEFINE e == ProseEnd(span, pos)
<1>1. e \in (pos + 1)..span.end /\ e \in Nat /\ Clean(e)
  BY ProseEnds
<1> HIDE DEF e
<1>2. e \in 1..Len(text) /\ DOMAIN text = 1..Len(text) /\ Len(text) \in Nat
  <2>1. span.end \in 1..Len(text) /\ span.start \in Nat
    BY DEF Piece
  <2>2. pos \in Nat /\ DOMAIN text = 1..Len(text) /\ Len(text) \in Nat
    BY <2>1
  <2> QED
    BY <1>1, <2>1, <2>2
<1>3. Aligned(e)
  <2>1. CASE e = Len(text)
    BY <2>1 DEF Aligned
  <2>2. CASE e # Len(text)
    <3>1. e \in 0..(Len(text) - 1)
      <4>1. e \in Nat /\ Len(text) \in Nat /\ e <= Len(text)
        BY <1>1, <1>2
      <4> QED
        BY <2>2, <4>1
    <3> QED
      BY <1>1, <3>1, ValidStarts DEF Aligned
  <2> QED
    BY <2>1, <2>2
<1> QED
  BY <1>3, ProseGoesOn DEF e

(* Of gap-free valid text, the chunks so far leave no gap, and end no gap before the next. *)
JoinedInv == pc = "split" /\ ValidUTF8(text) /\ GapFree => Joined(frames, chunks)

(* What is joined stays so while the text and the configuration do. *)
LEMMA JoinedSame ==
  ASSUME text' = text, cfg' = cfg
  PROVE  /\ ValidUTF8(text)' <=> ValidUTF8(text)
         /\ GapFree' <=> GapFree
         /\ \A frs, chs : Joined(frs, chs)' <=> Joined(frs, chs)
<1>1. ValidUTF8(text)' <=> ValidUTF8(text)
  BY DEF ValidUTF8, BetweenRunes, RuneSize
<1>2. Units' = Units
  BY Same
<1>3. GapFree' <=> GapFree
  BY <1>2 DEF GapFree
<1>4. \A frs, chs : Joined(frs, chs)' <=> Joined(frs, chs)
  BY DEF Joined
<1> QED
  BY <1>1, <1>3, <1>4

(* A step keeps the chunks joined when they are joined afterwards. *)
LEMMA JoinsAgain ==
  ASSUME Steady, ValidUTF8(text) /\ GapFree => Joined(frames', chunks')
  PROVE  JoinedInv'
<1>1. /\ ValidUTF8(text)' <=> ValidUTF8(text)
      /\ GapFree' <=> GapFree
      /\ \A frs, chs : Joined(frs, chs)' <=> Joined(frs, chs)
  BY JoinedSame DEF Steady
<1>2. Joined(frames', chunks') => Joined(frames, chunks)'
  BY <1>1
<1> QED
  BY <1>1, <1>2 DEF JoinedInv

(* The loop over the units starts where the text does. *)
LEMMA StartJoins == ASSUME IInv, Start PROVE JoinedInv'
<1>1. TypeOK /\ Steady /\ frames = <<>> /\ chunks' = <<>> /\ text \in Seq(Bytes) /\ cfg \in Configs
  BY DEF Start, IInv, Steady, TypeOK
<1>2. CASE text = <<>>
  BY <1>2 DEF Start, JoinedInv
<1>3. CASE text # <<>>
  <2>1. SUFFICES ASSUME ValidUTF8(text), GapFree PROVE Joined(frames', chunks')
    BY <1>1, JoinsAgain
  <2> DEFINE fr == Frame("units", Units, 1)
  <2>2. frames' = <<fr>>
    BY <1>3 DEF Start
  <2>3. fr.kind = "units" /\ fr.spans = Units /\ fr.i = 1
    BY DEF Frame
  <2>4. Resume(fr) = 0
    <3>1. Units[1].start = 0 /\ ~(1 > Len(Units))
      BY <1>1, <1>3, <2>1, UnitsFill
    <3> QED
      BY <2>3, <3>1 DEF Resume
  <2> HIDE DEF fr
  <2>5. frames' # <<>> /\ Last(frames') = fr
    BY <2>2 DEF Last
  <2>6. Covered(chunks') = 0 /\ Gapless(chunks')
    <3>1. Len(<<>>) = 0 /\ 2..0 = {}
      OBVIOUS
    <3> QED
      BY <1>1, <3>1 DEF Covered, Gapless
  <2> QED
    BY <2>4, <2>5, <2>6 DEF Joined
<1> QED
  BY <1>2, <1>3

(* A packed chunk starts where the others reach, and the loop resumes within it or behind
   it. *)
LEMMA PackJoins == ASSUME IInv, JoinedInv, PackChunk PROVE JoinedInv'
<1> DEFINE us == top.spans
           i == top.i
           j == growChunk(us, i)
           o == overlapStart(us, i, j)
<1>1. /\ pc = "split" /\ pc' = "split" /\ Steady /\ frames # <<>> /\ top.kind # "prose"
      /\ i \in 1..Len(us) /\ Tokens(us, i) <= maxTok /\ j \in i..Len(us)
      /\ frames' = IF j = Len(us) THEN Front(frames) ELSE Changed(frames, At(top, o))
  BY PackIs
<1>2. PICK c : Packs(c, us, i, j) /\ c.by = "packed" /\ chunks' = Append(chunks, c)
  BY PackIs
<1>3. /\ text \in Seq(Bytes) /\ cfg \in Configs /\ TypeOK /\ text # <<>>
      /\ Nested(frames) /\ Made(chunks, 0) /\ Advancing(chunks) /\ Behind(top, chunks)
      /\ Loop(top) /\ top = Last(frames)
  BY <1>1, TopFacts
<1>4. SUFFICES ASSUME ValidUTF8(text), GapFree PROVE Joined(frames', chunks')
  BY <1>1, JoinsAgain
<1>5. Gapless(chunks) /\ Resume(top) <= Covered(chunks)
  BY <1>1, <1>3, <1>4 DEF JoinedInv, Joined
<1>6. us \in Seq(Spans) /\ Ordered(us) /\ DOMAIN us = 1..Len(us) /\ Len(us) \in Nat /\ i \in Nat /\ ~(i > Len(us))
  BY <1>1, <1>3, LoopFacts
<1>7. c.start = us[i].start /\ c.end = us[j].end /\ CutFrom(c, 0) /\ c.start \in Nat
  BY <1>2 DEF Packs, CutFrom, Chunks
<1>8. Resume(top) = us[i].start
  BY <1>1, <1>6 DEF Resume
<1>9. Gapless(chunks') /\ Covered(chunks') = us[j].end
  BY <1>2, <1>3, <1>5, <1>7, <1>8, AddGapless
<1>10. CASE j = Len(us)
  <2>1. Limit(Last(frames)) = us[j].end /\ us[j].end \in Nat
    <3>1. Limit(top) = us[j].end
      BY <1>10 DEF Limit
    <3> QED
      BY <1>3, <3>1, LoopFacts
  <2>2. Limit(Last(frames)) <= Covered(chunks')
    BY <1>9, <2>1
  <2>3. frames' = Front(frames)
    BY <1>1, <1>10
  <2> QED
    BY <1>1, <1>3, <1>4, <1>9, <2>2, <2>3, PopJoined
<1>11. CASE j # Len(us)
  <2>1. j + 1 \in DOMAIN us /\ j \in DOMAIN us /\ j + 1 > 1 /\ (j + 1) - 1 = j
    BY <1>1, <1>6, <1>11
  <2>2. o \in (i + 1)..(j + 1)
    BY <1>1, <1>3, <1>6, OverlapFits
  <2>3. o \in Nat /\ o \in 1..Len(us) /\ o \in DOMAIN us /\ o <= j + 1 /\ ~(o > Len(us))
    BY <1>1, <1>6, <2>1, <2>2
  <2> HIDE DEF o
  <2>4. frames' = Changed(frames, At(Last(frames), o))
    BY <1>1, <1>3, <1>11
  <2>5. Loop(At(Last(frames), o)) /\ At(top, o).kind # "prose" /\ At(top, o).spans = us /\ At(top, o).i = o
    <3>1. o \in 1..(Len(us) + 1)
      BY <1>6, <2>3
    <3> QED
      BY <1>1, <1>3, <2>3, <3>1, AtLoop
  <2>6. frames' # <<>> /\ Last(frames') = At(top, o)
    <3>1. /\ Changed(frames, At(Last(frames), o)) # <<>>
          /\ Last(Changed(frames, At(Last(frames), o))) = At(Last(frames), o)
      BY <1>1, <1>3, <2>3, <2>5, MoveNested
    <3> QED
      BY <1>3, <2>4, <3>1
  <2>7. Contiguous(us)
    <3>1. Len(frames) \in DOMAIN frames
      BY <1>1, <1>3 DEF Nested
    <3>2. Last(frames) = frames[Len(frames)]
      BY DEF Last
    <3> QED
      BY <1>3, <1>4, <3>1, <3>2, LoopsContiguous
  <2>8. us[j + 1].start = us[j].end
    BY <2>1, <2>7 DEF Contiguous
  <2>9. us[o].start <= us[j + 1].start
    BY <1>3, <1>6, <2>1, <2>3, EndsAscend
  <2>10. Resume(At(top, o)) = us[o].start
    BY <2>3, <2>5 DEF Resume
  <2> QED
    BY <1>9, <2>6, <2>8, <2>9, <2>10 DEF Joined
<1> QED
  BY <1>10, <1>11

(* The splitter of an oversize span resumes where the loop around it did. *)
LEMMA SplitJoins == ASSUME IInv, JoinedInv, SplitOversize PROVE JoinedInv'
<1> DEFINE us == top.spans
           i == top.i
           sub == SplitterOf(top.kind, us[i])
           moved == Changed(frames, At(top, i + 1))
<1>1. /\ pc = "split" /\ frames # <<>> /\ top.kind # "prose" /\ i <= Len(us) /\ Tokens(us, i) > maxTok
      /\ Steady /\ pc' = "split" /\ chunks' = chunks /\ frames' = Append(moved, sub)
  BY DEF SplitOversize, Packing, Steady, Changed
<1>2. /\ text \in Seq(Bytes) /\ cfg \in Configs /\ TypeOK /\ text # <<>>
      /\ Nested(frames) /\ Made(chunks, 0) /\ Advancing(chunks) /\ Behind(top, chunks)
      /\ Loop(top) /\ top = Last(frames)
  BY <1>1, TopFacts
<1>3. SUFFICES ASSUME ValidUTF8(text), GapFree PROVE Joined(frames', chunks')
  BY <1>1, JoinsAgain
<1>4. Gapless(chunks) /\ Resume(top) <= Covered(chunks)
  BY <1>1, <1>2, <1>3 DEF JoinedInv, Joined
<1>5. Loop(sub) /\ Loop(At(top, i + 1)) /\ Resume(sub) = Resume(top)
  BY <1>1, <1>2, SplitBehind
<1>6. i + 1 \in Nat
  BY <1>2, LoopFacts
<1>7. moved \in Seq(Frames)
  <2>1. Loop(At(Last(frames), i + 1))
    BY <1>2, <1>5
  <2>2. Nested(Changed(frames, At(Last(frames), i + 1)))
    BY <1>1, <1>2, <1>6, <2>1, MoveNested
  <2> QED
    BY <1>2, <2>2 DEF Nested
<1> HIDE DEF moved, sub
<1>8. frames' # <<>> /\ Last(frames') = sub
  <2>1. sub \in Frames
    BY <1>5 DEF Loop
  <2> QED
    BY <1>1, <1>7, <2>1 DEF Last
<1> QED
  BY <1>1, <1>4, <1>5, <1>8 DEF Joined

(* A loop is left at its end, where the one around it resumes. *)
LEMMA LeaveJoins == ASSUME IInv, JoinedInv, LeaveLoop PROVE JoinedInv'
<1>1. /\ pc = "split" /\ frames # <<>> /\ Steady /\ pc' = "split" /\ chunks' = chunks /\ frames' = Front(frames)
      /\ top.kind # "prose" /\ top.i > Len(top.spans)
  BY DEF LeaveLoop, Packing, Steady
<1>2. /\ text \in Seq(Bytes) /\ cfg \in Configs /\ TypeOK /\ text # <<>>
      /\ Nested(frames) /\ top = Last(frames)
  BY <1>1, TopFacts
<1>3. SUFFICES ASSUME ValidUTF8(text), GapFree PROVE Joined(frames', chunks')
  BY <1>1, JoinsAgain
<1>4. Gapless(chunks) /\ Resume(top) <= Covered(chunks)
  BY <1>1, <1>2, <1>3 DEF JoinedInv, Joined
<1>5. Resume(top) = Limit(top)
  BY <1>1 DEF Resume
<1> QED
  BY <1>1, <1>2, <1>3, <1>4, <1>5, PopJoined

(* A chunk of prose starts where the others reach, and the next within it or behind it. *)
LEMMA CutJoins == ASSUME IInv, JoinedInv, CutProse PROVE JoinedInv'
<1> DEFINE span == top.spans[1]
           i == top.i
           e == ProseEnd(span, i)
           q == ProseNext(span, i)
<1>1. /\ pc = "split" /\ pc' = "split" /\ Steady /\ frames # <<>> /\ top.kind = "prose"
      /\ frames' = IF e >= span.end \/ q >= span.end THEN Front(frames) ELSE Changed(frames, At(top, q))
  BY CutIs
<1>2. PICK c : CutFrom(c, 0) /\ c.start = i /\ c.end = e /\ c.by = "prose" /\ chunks' = Append(chunks, c)
  BY CutIs
<1>3. /\ text \in Seq(Bytes) /\ cfg \in Configs /\ TypeOK /\ text # <<>>
      /\ Nested(frames) /\ Made(chunks, 0) /\ Advancing(chunks) /\ Behind(top, chunks)
      /\ Loop(top) /\ top = Last(frames)
  BY <1>1, TopFacts
<1>4. SUFFICES ASSUME ValidUTF8(text), GapFree PROVE Joined(frames', chunks')
  BY <1>1, JoinsAgain
<1>5. Gapless(chunks) /\ Resume(top) <= Covered(chunks)
  BY <1>1, <1>3, <1>4 DEF JoinedInv, Joined
<1>6. /\ span \in Spans /\ Piece(span.start, span.end) /\ i \in span.start..(span.end - 1)
      /\ span.start \in Nat /\ span.end \in Nat /\ Limit(top) = span.end /\ Clean(i)
  BY <1>1, <1>3, ProseSpan
<1>7. Resume(top) = i /\ i \in Nat
  BY <1>1, <1>6 DEF Resume
<1>8. Gapless(chunks') /\ Covered(chunks') = e
  BY <1>2, <1>3, <1>5, <1>7, AddGapless
<1>9. e \in Nat /\ e <= span.end
  <2>1. e \in (i + 1)..span.end /\ e \in Nat
    BY <1>3, <1>6, ProseEnds
  <2> QED
    BY <1>6, <1>7, <2>1
<1>10. q \in Nat /\ q <= e
  BY <1>3, <1>4, <1>6, ProseGoesOn, ProseJoins
<1> HIDE DEF e
<1>11. CASE e >= span.end \/ q >= span.end
  <2>1. e >= span.end
    BY <1>6, <1>9, <1>10, <1>11
  <2>2. Limit(Last(frames)) <= Covered(chunks')
    <3>1. Limit(top) <= Covered(chunks')
      BY <1>6, <1>8, <1>9, <2>1
    <3> QED
      BY <1>3, <3>1
  <2>3. frames' = Front(frames)
    BY <1>1, <1>11
  <2> QED
    BY <1>1, <1>3, <1>4, <1>8, <2>2, <2>3, PopJoined
<1>12. CASE ~(e >= span.end \/ q >= span.end)
  <2>1. q < span.end
    BY <1>6, <1>10, <1>12
  <2>2. Loop(At(top, q))
    BY <1>1, <1>2, <1>3, <2>1, CutBehind DEF e
  <2>3. At(top, q).kind = "prose" /\ At(top, q).i = q
    BY <1>1, <1>3, <1>10, AtLoop
  <2> HIDE DEF q
  <2>4. frames' = Changed(frames, At(Last(frames), q))
    BY <1>1, <1>3, <1>12
  <2>5. frames' # <<>> /\ Last(frames') = At(top, q)
    <3>1. Loop(At(Last(frames), q))
      BY <1>3, <2>2
    <3>2. /\ Changed(frames, At(Last(frames), q)) # <<>>
          /\ Last(Changed(frames, At(Last(frames), q))) = At(Last(frames), q)
      BY <1>1, <1>3, <1>10, <3>1, MoveNested
    <3> QED
      BY <1>3, <2>4, <3>2
  <2>6. Resume(At(top, q)) = q
    BY <2>3 DEF Resume
  <2> QED
    BY <1>8, <1>10, <2>5, <2>6 DEF Joined
<1> QED
  BY <1>11, <1>12

(* When the loops have ended, the chunks cover the text. *)
LEMMA FinishCovers == ASSUME IInv, JoinedInv, Finish PROVE JoinedInv' /\ NothingLost'
<1>1. /\ pc = "split" /\ pc' = "done" /\ Steady /\ frames = <<>> /\ frames' = frames
      /\ DOMAIN chunks' = DOMAIN chunks /\ Len(chunks') = Len(chunks) /\ chunks' \in Seq(Chunks)
      /\ \A k \in DOMAIN chunks : chunks'[k] = Shifted(chunks[k])
  BY FinishIs
<1>2. JoinedInv'
  BY <1>1 DEF JoinedInv
<1>3. TypeOK /\ Made(chunks, 0) /\ text \in Seq(Bytes) /\ text # <<>> /\ off \in Nat
  BY <1>1 DEF IInv, Running, TypeOK
<1>4. (ValidUTF8(text)' <=> ValidUTF8(text)) /\ (GapFree' <=> GapFree)
  BY <1>1, JoinedSame DEF Steady
<1>5. ASSUME ValidUTF8(text), GapFree
      PROVE  /\ chunks' # <<>> /\ chunks'[1].start = off
             /\ chunks'[Len(chunks)].end = off + Len(text)
             /\ \A k \in 2..Len(chunks) : chunks'[k].start <= chunks'[k - 1].end
  <2>1. Gapless(chunks) /\ Len(text) <= Covered(chunks)
    BY <1>1, <1>5 DEF JoinedInv, Joined
  <2>2. Len(text) \in Nat /\ Len(text) > 0
    BY <1>3
  <2>3. chunks # <<>>
    BY <2>1, <2>2 DEF Covered
  <2>4. chunks \in Seq(Chunks) /\ DOMAIN chunks = 1..Len(chunks) /\ Len(chunks) \in Nat /\ Len(chunks) >= 1
    BY <1>3, <2>3 DEF Made
  <2>5. 1 \in DOMAIN chunks /\ Len(chunks) \in DOMAIN chunks
    BY <2>4
  <2>6. ASSUME NEW k \in DOMAIN chunks
        PROVE  /\ chunks'[k].start = chunks[k].start + off /\ chunks'[k].end = chunks[k].end + off
               /\ chunks[k].start \in Nat /\ chunks[k].end \in Nat /\ chunks[k].end <= Len(text)
    <3>1. CutFrom(chunks[k], 0)
      BY <1>3 DEF Made
    <3>2. Shifted(chunks[k]).start = chunks[k].start + off /\ Shifted(chunks[k]).end = chunks[k].end + off
      BY <1>3, <3>1, ShiftedFrom
    <3>3. chunks[k].start \in Nat /\ chunks[k].end \in Nat /\ chunks[k].end <= Len(text)
      BY <1>3, MadeFacts
    <3> QED
      BY <1>1, <3>2, <3>3
  <2>7. chunks' # <<>>
    <3>1. Len(<<>>) = 0 /\ Len(chunks') >= 1
      BY <1>1, <2>4
    <3> QED
      BY <3>1
  <2>8. chunks'[1].start = off
    <3>1. chunks[1].start = 0
      BY <2>1, <2>3 DEF Gapless
    <3>2. chunks'[1].start = chunks[1].start + off
      BY <2>5, <2>6
    <3> QED
      BY <1>3, <3>1, <3>2
  <2>9. chunks'[Len(chunks)].end = off + Len(text)
    <3>1. Covered(chunks) = chunks[Len(chunks)].end
      BY <2>3 DEF Covered
    <3>2. /\ chunks'[Len(chunks)].end = chunks[Len(chunks)].end + off
          /\ chunks[Len(chunks)].end \in Nat /\ chunks[Len(chunks)].end <= Len(text)
      BY <2>5, <2>6
    <3> QED
      BY <1>3, <2>1, <2>2, <3>1, <3>2
  <2>10. ASSUME NEW k \in 2..Len(chunks) PROVE chunks'[k].start <= chunks'[k - 1].end
    <3>1. k \in DOMAIN chunks /\ k - 1 \in DOMAIN chunks
      BY <2>4
    <3>2. chunks[k].start <= chunks[k - 1].end
      BY <2>1 DEF Gapless
    <3>3. chunks'[k].start = chunks[k].start + off /\ chunks'[k - 1].end = chunks[k - 1].end + off
      BY <2>6, <3>1
    <3>4. chunks[k].start \in Nat /\ chunks[k - 1].end \in Nat
      BY <2>6, <3>1
    <3> QED
      BY <1>3, <3>2, <3>3, <3>4
  <2> QED
    BY <2>7, <2>8, <2>9, <2>10
<1>6. NothingLost'
  <2>1. off' = off /\ text' = text
    BY <1>1 DEF Steady
  <2> QED
    BY <1>1, <1>4, <1>5, <2>1 DEF NothingLost
<1> QED
  BY <1>2, <1>6

(* Every step keeps the chunks joined. *)
LEMMA JoinsAlways == IInv /\ JoinedInv /\ NothingLost /\ [Next]_vars => JoinedInv' /\ NothingLost'
<1> SUFFICES ASSUME IInv, JoinedInv, NothingLost, [Next]_vars PROVE JoinedInv' /\ NothingLost'
  OBVIOUS
<1>1. ASSUME Start PROVE JoinedInv' /\ NothingLost'
  <2>1. JoinedInv'
    BY <1>1, StartJoins
  <2>2. text' = text /\ (pc' = "done" => text = <<>>)
    BY <1>1 DEF Start
  <2> QED
    BY <2>1, <2>2 DEF NothingLost
<1>2. ASSUME PackChunk PROVE JoinedInv' /\ NothingLost'
  <2>1. pc' = "split"
    BY <1>2 DEF PackChunk, Packing
  <2> QED
    BY <1>2, <2>1, PackJoins DEF NothingLost
<1>3. ASSUME SplitOversize PROVE JoinedInv' /\ NothingLost'
  <2>1. pc' = "split"
    BY <1>3 DEF SplitOversize, Packing
  <2> QED
    BY <1>3, <2>1, SplitJoins DEF NothingLost
<1>4. ASSUME LeaveLoop PROVE JoinedInv' /\ NothingLost'
  <2>1. pc' = "split"
    BY <1>4 DEF LeaveLoop, Packing
  <2> QED
    BY <1>4, <2>1, LeaveJoins DEF NothingLost
<1>5. ASSUME CutProse PROVE JoinedInv' /\ NothingLost'
  <2>1. pc' = "split"
    BY <1>5 DEF CutProse
  <2> QED
    BY <1>5, <2>1, CutJoins DEF NothingLost
<1>6. ASSUME Finish PROVE JoinedInv' /\ NothingLost'
  BY <1>6, FinishCovers
<1>7. ASSUME UNCHANGED vars PROVE JoinedInv' /\ NothingLost'
  <2>1. /\ source' = source /\ cfg' = cfg /\ text' = text /\ off' = off
        /\ frames' = frames /\ chunks' = chunks /\ pc' = pc
    BY <1>7 DEF vars
  <2>2. /\ ValidUTF8(text)' <=> ValidUTF8(text)
        /\ GapFree' <=> GapFree
        /\ \A frs, chs : Joined(frs, chs)' <=> Joined(frs, chs)
    BY <2>1, JoinedSame
  <2>3. JoinedInv'
    <3>1. Joined(frames, chunks) => Joined(frames, chunks)'
      BY <2>1, <2>2
    <3> QED
      BY <2>1, <2>2, <3>1 DEF JoinedInv
  <2>4. NothingLost'
    BY <2>1, <2>2 DEF NothingLost
  <2> QED
    BY <2>3, <2>4
<1> QED
  BY <1>1, <1>2, <1>3, <1>4, <1>5, <1>6, <1>7 DEF Next, Step, Terminated

(* Nothing of valid UTF-8 text in contiguous units is lost between two chunks: Split covers
   it from its first byte to its last. *)
THEOREM TextIsCovered == Spec => []NothingLost
<1>1. Init => JoinedInv /\ NothingLost
  BY DEF Init, JoinedInv, NothingLost
<1>2. IInv /\ (JoinedInv /\ NothingLost) /\ [Next]_vars => (JoinedInv /\ NothingLost)'
  BY JoinsAlways
<1> QED
  BY <1>1, <1>2, InitIInv, IInvKept, PTL DEF Spec

-------------------------------------------------------------------------------
(* Each chunk has new text. *)

(* The next unit always fits behind the overlap. *)
Roomy == \A k \in DOMAIN Units : Tokens(Units, k) + overlapTok <= maxTok

(* Each chunk ends behind the one before it. *)
Growing(chs) == \A k \in 2..Len(chs) : chs[k].end > chs[k - 1].end

(* Only the loop over the units runs, and what it packs next ends behind the chunks so far. *)
Fresh(frs, chs) ==
  /\ Growing(chs) /\ Len(frs) <= 1
  /\ frs # <<>> /\ Last(frs).i <= Len(Units) =>
       \A k \in DOMAIN chs : chs[k].end < Units[growChunk(Units, Last(frs).i)].end

FreshInv ==
  Roomy => /\ pc = "split" => Fresh(frames, chunks)
           /\ pc = "done" => Growing(chunks)

(* With room behind the overlap, the next chunk takes in a unit that this one does not have. *)
LEMMA NextGrows ==
  ASSUME text \in Seq(Bytes), cfg \in Configs, NEW us \in Seq(Spans), Ordered(us),
         \A k \in DOMAIN us : Tokens(us, k) + overlapTok <= maxTok,
         NEW i \in 1..Len(us), NEW j \in i..Len(us), j = growChunk(us, i), j < Len(us)
  PROVE  /\ overlapStart(us, i, j) \in 1..Len(us)
         /\ growChunk(us, overlapStart(us, i, j)) \in (j + 1)..Len(us)
<1> DEFINE o == overlapStart(us, i, j)
<1>1. o \in (i + 1)..(j + 1) /\ \A m \in o..j : SumTokens(us, m, j) <= overlapTok
  BY OverlapFits
<1> HIDE DEF o
<1>2. /\ Len(us) \in Nat /\ i \in Nat /\ j \in Nat /\ o \in Nat /\ o <= j + 1 /\ o \in 1..Len(us)
      /\ j + 1 \in 1..Len(us) /\ DOMAIN us = 1..Len(us)
  BY <1>1
<1>3. growChunk(us, o) \in o..Len(us)
  BY <1>2, GrowFits
<1>4. CASE o = j + 1
  <2>1. growChunk(us, o) \in (j + 1)..Len(us)
    BY <1>3, <1>4
  <2> QED
    BY <1>2, <2>1 DEF o
<1>5. CASE o # j + 1
  <2>1. o \in (i + 1)..growChunk(us, i) /\ o \in o..j
    BY <1>1, <1>2, <1>5
  <2>2. growChunk(us, i) <= growChunk(us, o)
    BY <2>1, GrowReaches
  <2>3. \A m \in (o + 1)..growChunk(us, o) : SumTokens(us, o, m) <= maxTok
    BY <1>2, GrowFits
  <2>4. SumTokens(us, o, j + 1) <= maxTok
    <3>1. SumTokens(us, o, j) <= overlapTok
      BY <1>1, <2>1
    <3>2. SumTokens(us, o, j + 1) = SumTokens(us, o, j) + Tokens(us, j + 1)
      <4>1. j + 1 \in Nat /\ j + 1 >= o /\ o >= 1 /\ (j + 1) - 1 = j
        BY <1>2
      <4>2. SumTokens(us, o, j + 1) = SumTokens(us, o, (j + 1) - 1) + Tokens(us, j + 1)
        BY <1>2, <4>1, SumSteps
      <4> QED
        BY <4>1, <4>2
    <3>3. Tokens(us, j + 1) + overlapTok <= maxTok
      BY <1>2
    <3>4. SumTokens(us, o, j) \in Nat /\ Tokens(us, j + 1) \in Nat /\ overlapTok \in Nat /\ maxTok \in Nat
      <4>1. j \in (o - 1)..Len(us)
        BY <1>2
      <4> QED
        BY <1>2, <4>1, SumType, TokensType, BudgetType
    <3> QED
      BY <3>1, <3>2, <3>3, <3>4
  <2>5. ASSUME NEW m \in (o + 1)..(j + 1) PROVE SumTokens(us, o, m) <= maxTok
    <3>1. m = j + 1 \/ m \in (o + 1)..growChunk(us, o)
      BY <1>2, <1>3, <2>2
    <3> QED
      BY <2>3, <2>4, <3>1
  <2>6. j + 1 \in o..Len(us)
    BY <1>2
  <2>7. j + 1 <= growChunk(us, o)
    BY <1>2, <2>5, <2>6, GrowFits
  <2>8. growChunk(us, o) \in (j + 1)..Len(us)
    BY <1>2, <1>3, <2>7
  <2> QED
    BY <1>2, <2>8 DEF o
<1> QED
  BY <1>4, <1>5

(* What is fresh stays so while the text and the configuration do. *)
LEMMA FreshSame ==
  ASSUME text' = text, cfg' = cfg
  PROVE  /\ Roomy' <=> Roomy
         /\ \A frs, chs : Fresh(frs, chs)' <=> Fresh(frs, chs)
<1>1. /\ maxTok' = maxTok /\ overlapTok' = overlapTok /\ Units' = Units
      /\ \A us, k : Tokens(us, k)' = Tokens(us, k)
      /\ \A us, k : growChunk(us, k)' = growChunk(us, k)
  BY Same
<1>2. Roomy' <=> Roomy
  BY <1>1 DEF Roomy
<1>3. \A frs, chs : Fresh(frs, chs)' <=> Fresh(frs, chs)
  BY <1>1 DEF Fresh
<1> QED
  BY <1>2, <1>3

(* When only the loop over the units runs, it is the innermost. *)
LEMMA OnlyUnits ==
  ASSUME IInv, FreshInv, Roomy, pc = "split", frames # <<>>
  PROVE  /\ Fresh(frames, chunks) /\ Len(frames) = 1 /\ top.kind = "units" /\ top.spans = Units
         /\ Front(frames) = <<>>
<1>1. Fresh(frames, chunks) /\ Nested(frames)
  <2>1. Fresh(frames, chunks)
    BY DEF FreshInv
  <2>2. Running(frames, chunks)
    BY DEF IInv
  <2> QED
    BY <2>1, <2>2 DEF Running
<1>2. Len(frames) \in Nat /\ Len(frames) >= 1
  <2>1. frames \in Seq(Frames)
    BY <1>1 DEF Nested
  <2> QED
    BY <2>1
<1>3. Len(frames) = 1
  <2>1. Len(frames) <= 1
    BY <1>1 DEF Fresh
  <2>2. \A n \in Nat : n >= 1 /\ n <= 1 => n = 1
    OBVIOUS
  <2> QED
    BY <1>2, <2>1, <2>2
<1>4. top.kind = "units" /\ top.spans = Units
  BY <1>1, <1>3 DEF top, Last, Nested
<1>5. Front(frames) = <<>>
  BY <1>1, <1>3, PopNested
<1> QED
  BY <1>1, <1>3, <1>4, <1>5

(* A chunk that ends behind the others keeps the ends growing. *)
LEMMA AddGrows ==
  ASSUME text \in Seq(Bytes), NEW chs, Made(chs, 0), Growing(chs),
         NEW c, CutFrom(c, 0), \A k \in DOMAIN chs : chs[k].end < c.end
  PROVE  Growing(Append(chs, c))
<1> DEFINE d == Append(chs, c)
           n == Len(chs)
<1>1. /\ Len(d) = n + 1 /\ n \in Nat /\ DOMAIN chs = 1..n /\ d[n + 1] = c
      /\ \A k \in DOMAIN chs : d[k] = chs[k]
  BY AddChunk
<1> HIDE DEF d
<1>2. c.end \in Nat /\ \A k \in DOMAIN chs : chs[k].end \in Nat
  BY MadeFacts DEF CutFrom, Chunks
<1>3. ASSUME NEW k \in 2..Len(d) PROVE d[k].end > d[k - 1].end
  <2>1. k - 1 \in DOMAIN chs
    BY <1>1
  <2>2. d[k - 1] = chs[k - 1]
    BY <1>1, <2>1
  <2>3. CASE k = n + 1
    <3>1. d[k] = c /\ chs[k - 1].end < c.end
      BY <1>1, <2>1, <2>3
    <3> QED
      BY <1>2, <2>1, <2>2, <3>1
  <2>4. CASE k # n + 1
    <3>1. k \in 2..n /\ k \in DOMAIN chs
      BY <1>1, <2>4
    <3> QED
      BY <1>1, <2>2, <3>1 DEF Growing
  <2> QED
    BY <2>3, <2>4
<1> QED
  BY <1>3 DEF Growing, d

(* With room behind the overlap, the chunk packed next ends behind this one. *)
LEMMA PackIsFresh == ASSUME IInv, FreshInv, PackChunk PROVE FreshInv'
<1> DEFINE us == top.spans
           i == top.i
           j == growChunk(us, i)
           o == overlapStart(us, i, j)
<1>1. /\ pc = "split" /\ pc' = "split" /\ Steady /\ frames # <<>> /\ top.kind # "prose"
      /\ i \in 1..Len(us) /\ Tokens(us, i) <= maxTok /\ j \in i..Len(us)
      /\ frames' = IF j = Len(us) THEN Front(frames) ELSE Changed(frames, At(top, o))
  BY PackIs
<1>2. PICK c : Packs(c, us, i, j) /\ c.by = "packed" /\ chunks' = Append(chunks, c)
  BY PackIs
<1>3. /\ text \in Seq(Bytes) /\ cfg \in Configs /\ TypeOK /\ text # <<>>
      /\ Nested(frames) /\ Made(chunks, 0) /\ Advancing(chunks) /\ Behind(top, chunks)
      /\ Loop(top) /\ top = Last(frames)
  BY <1>1, TopFacts
<1>4. SUFFICES ASSUME Roomy PROVE Fresh(frames', chunks')
  <2>1. (Roomy' <=> Roomy) /\ \A frs, chs : Fresh(frs, chs)' <=> Fresh(frs, chs)
    BY <1>1, FreshSame DEF Steady
  <2>2. Fresh(frames', chunks') => Fresh(frames, chunks)'
    BY <2>1
  <2> QED
    BY <1>1, <2>1, <2>2 DEF FreshInv
<1>5. Fresh(frames, chunks) /\ Len(frames) = 1 /\ us = Units /\ Front(frames) = <<>>
  BY <1>1, <1>4, OnlyUnits
<1>6. us \in Seq(Spans) /\ Ordered(us) /\ DOMAIN us = 1..Len(us) /\ Len(us) \in Nat /\ i \in Nat /\ j \in DOMAIN us /\ i <= Len(us)
  BY <1>1, <1>3, LoopFacts
<1>7. c.end = us[j].end /\ CutFrom(c, 0)
  BY <1>2 DEF Packs
<1>8. \A k \in DOMAIN chunks : chunks[k].end < c.end
  BY <1>1, <1>3, <1>5, <1>6, <1>7 DEF Fresh
<1>9. Growing(chunks')
  <2>1. Growing(chunks)
    BY <1>5 DEF Fresh
  <2> QED
    BY <1>2, <1>3, <1>7, <1>8, <2>1, AddGrows
<1>10. CASE j = Len(us)
  <2>1. frames' = <<>> /\ Len(<<>>) = 0
    BY <1>1, <1>5, <1>10
  <2> QED
    BY <1>9, <2>1 DEF Fresh
<1>11. CASE j # Len(us)
  <2>1. j < Len(us)
    BY <1>1, <1>6, <1>11
  <2>2. o \in 1..Len(us) /\ growChunk(us, o) \in (j + 1)..Len(us)
    <3>1. \A k \in DOMAIN us : Tokens(us, k) + overlapTok <= maxTok
      BY <1>4, <1>5 DEF Roomy
    <3> QED
      BY <1>1, <1>3, <1>6, <2>1, <3>1, NextGrows
  <2>3. o \in Nat /\ o \in 1..(Len(us) + 1) /\ o <= Len(us)
    BY <1>6, <2>2
  <2> HIDE DEF o
  <2>4. frames' = Changed(frames, At(Last(frames), o))
    BY <1>1, <1>3, <1>11
  <2>5. Loop(At(Last(frames), o)) /\ At(top, o).i = o
    BY <1>1, <1>3, <2>3, AtLoop
  <2>6. Last(frames') = At(top, o) /\ Len(frames') = 1
    <3>1. /\ Len(Changed(frames, At(Last(frames), o))) = Len(frames)
          /\ Last(Changed(frames, At(Last(frames), o))) = At(Last(frames), o)
      BY <1>1, <1>3, <2>3, <2>5, MoveNested
    <3> QED
      BY <1>3, <1>5, <2>4, <3>1
  <2>7. us[j].end < us[growChunk(us, o)].end /\ us[j].end \in Nat /\ us[growChunk(us, o)].end \in Nat
    <3> DEFINE g == growChunk(us, o)
    <3>1. g \in DOMAIN us /\ j < g
      BY <1>1, <1>6, <2>2
    <3> HIDE DEF g
    <3>2. us[j].end <= us[g].start /\ us[g].start < us[g].end /\ us[j].end \in Nat /\ us[g].start \in Nat /\ us[g].end \in Nat
      BY <1>3, <1>6, <3>1, OrderedFar
    <3>3. us[j].end < us[g].end
      BY <3>2
    <3> QED
      BY <3>2, <3>3 DEF g
  <2>8. ASSUME NEW k \in DOMAIN chunks' PROVE chunks'[k].end <= us[j].end /\ chunks'[k].end \in Nat
    <3>1. k \in DOMAIN chunks \/ k = Len(chunks) + 1
      BY <1>2, <1>3, <1>7, AddChunk
    <3>2. CASE k \in DOMAIN chunks
      <4>1. chunks'[k] = chunks[k]
        BY <1>2, <1>3, <1>7, <3>2, AddChunk
      <4>2. chunks[k].end \in Nat /\ chunks[k].end < us[j].end
        BY <1>3, <1>7, <1>8, <3>2, MadeFacts
      <4> QED
        BY <2>7, <4>1, <4>2
    <3>3. CASE k = Len(chunks) + 1
      <4>1. chunks'[k] = c
        BY <1>2, <1>3, <1>7, <3>3, AddChunk
      <4> QED
        BY <1>7, <2>7, <4>1
    <3> QED
      BY <3>1, <3>2, <3>3
  <2>9. \A k \in DOMAIN chunks' : chunks'[k].end < us[growChunk(us, o)].end
    <3>1. SUFFICES ASSUME NEW k \in DOMAIN chunks' PROVE chunks'[k].end < us[growChunk(us, o)].end
      OBVIOUS
    <3>2. chunks'[k].end <= us[j].end /\ chunks'[k].end \in Nat
      BY <2>8
    <3> QED
      BY <2>7, <3>2
  <2> QED
    BY <1>5, <1>9, <2>5, <2>6, <2>9 DEF Fresh
<1> QED
  BY <1>10, <1>11

(* Every step keeps the ends of the chunks growing, with room behind the overlap. *)
LEMMA FreshKept == IInv /\ FreshInv /\ [Next]_vars => FreshInv'
<1> SUFFICES ASSUME IInv, FreshInv, [Next]_vars PROVE FreshInv'
  OBVIOUS
<1> DEFINE Stays == text' = text /\ cfg' = cfg
<1>1. Stays => (Roomy' <=> Roomy) /\ \A frs, chs : Fresh(frs, chs)' <=> Fresh(frs, chs)
  BY FreshSame
<1>2. Len(<<>>) = 0 /\ 2..0 = {}
  OBVIOUS
<1>3. ASSUME Start PROVE FreshInv'
  <2>1. chunks' = <<>>
    BY <1>3 DEF Start, IInv
  <2>2. Growing(chunks)'
    BY <1>2, <2>1 DEF Growing
  <2>3. CASE text = <<>>
    <3>1. pc' = "done"
      BY <1>3, <2>3 DEF Start
    <3> QED
      BY <2>2, <3>1 DEF FreshInv
  <2>4. CASE text # <<>>
    <3>1. pc' = "split" /\ Len(frames') <= 1
      <4>1. frames' = <<Frame("units", Units, 1)>> /\ pc' = "split"
        BY <1>3, <2>4 DEF Start
      <4>2. \A x : Len(<<x>>) = 1
        OBVIOUS
      <4> QED
        BY <4>1, <4>2
    <3>2. DOMAIN chunks' = {}
      BY <2>1
    <3> QED
      BY <2>2, <3>1, <3>2 DEF FreshInv, Fresh
  <2> QED
    BY <2>3, <2>4
<1>4. ASSUME PackChunk PROVE FreshInv'
  BY <1>4, PackIsFresh
<1>5. ASSUME SplitOversize PROVE FreshInv'
  <2>1. /\ pc = "split" /\ frames # <<>> /\ top.kind # "prose" /\ top.i <= Len(top.spans)
        /\ Tokens(top.spans, top.i) > maxTok /\ Stays
    BY <1>5 DEF SplitOversize, Packing
  <2>2. ASSUME Roomy PROVE FALSE
    <3>1. top.spans = Units
      BY <2>1, <2>2, OnlyUnits
    <3>2. text \in Seq(Bytes) /\ cfg \in Configs /\ Loop(top)
      BY <2>1, TopFacts
    <3>3. /\ top.i \in 1..Len(top.spans) /\ top.spans \in Seq(Spans) /\ DOMAIN top.spans = 1..Len(top.spans)
      BY <2>1, <3>2, LoopFacts DEF Loop
    <3>4. Tokens(top.spans, top.i) + overlapTok <= maxTok
      BY <2>2, <3>1, <3>3 DEF Roomy
    <3>5. Tokens(top.spans, top.i) \in Nat /\ overlapTok \in Nat /\ maxTok \in Nat
      BY <3>2, <3>3, TokensType, BudgetType
    <3> QED
      BY <2>1, <3>4, <3>5
  <2> QED
    BY <1>1, <2>1, <2>2 DEF FreshInv
<1>6. ASSUME LeaveLoop PROVE FreshInv'
  <2>1. pc = "split" /\ frames # <<>> /\ Stays /\ chunks' = chunks /\ pc' = pc /\ frames' = Front(frames)
    BY <1>6 DEF LeaveLoop, Packing
  <2>2. ASSUME Roomy PROVE Fresh(frames, chunks)'
    <3>1. frames' = <<>> /\ Growing(chunks)
      BY <2>1, <2>2, OnlyUnits DEF Fresh
    <3>2. Fresh(frames', chunks')
      BY <1>2, <2>1, <3>1 DEF Fresh
    <3> QED
      BY <1>1, <2>1, <3>2
  <2> QED
    BY <1>1, <2>1, <2>2 DEF FreshInv
<1>7. ASSUME CutProse PROVE FreshInv'
  <2>1. pc = "split" /\ frames # <<>> /\ top.kind = "prose" /\ Stays
    BY <1>7 DEF CutProse
  <2>2. ~Roomy
    BY <2>1, OnlyUnits
  <2> QED
    BY <1>1, <2>1, <2>2 DEF FreshInv
<1>8. ASSUME Finish PROVE FreshInv'
  <2>1. /\ pc = "split" /\ pc' = "done" /\ Steady /\ Len(chunks') = Len(chunks) /\ chunks' \in Seq(Chunks)
        /\ \A k \in DOMAIN chunks : chunks'[k] = Shifted(chunks[k])
    BY <1>8, FinishIs
  <2>2. Made(chunks, 0) /\ text \in Seq(Bytes) /\ off \in Nat
    BY <2>1 DEF IInv, Running, TypeOK
  <2>3. ASSUME Roomy, NEW k \in 2..Len(chunks) PROVE chunks'[k].end > chunks'[k - 1].end
    <3>1. k \in DOMAIN chunks /\ k - 1 \in DOMAIN chunks
      <4>1. chunks \in Seq(Chunks)
        BY <2>2 DEF Made
      <4> QED
        BY <4>1
    <3>2. chunks[k].end > chunks[k - 1].end
      <4>1. Growing(chunks)
        BY <2>1, <2>3 DEF FreshInv, Fresh
      <4> QED
        BY <4>1 DEF Growing
    <3>3. chunks'[k].end = chunks[k].end + off /\ chunks'[k - 1].end = chunks[k - 1].end + off
      <4>1. CutFrom(chunks[k], 0) /\ CutFrom(chunks[k - 1], 0)
        BY <2>2, <3>1 DEF Made
      <4>2. Shifted(chunks[k]).end = chunks[k].end + off /\ Shifted(chunks[k - 1]).end = chunks[k - 1].end + off
        BY <2>2, <4>1, ShiftedFrom
      <4> QED
        BY <2>1, <3>1, <4>2
    <3>4. chunks[k].end \in Nat /\ chunks[k - 1].end \in Nat
      BY <2>2, <3>1, MadeFacts
    <3> QED
      BY <2>2, <3>2, <3>3, <3>4
  <2>4. Roomy => Growing(chunks)'
    BY <2>1, <2>3 DEF Growing
  <2> QED
    BY <1>1, <2>1, <2>4 DEF FreshInv, Steady
<1>9. ASSUME UNCHANGED vars PROVE FreshInv'
  <2>1. Stays /\ frames' = frames /\ chunks' = chunks /\ pc' = pc
    BY <1>9 DEF vars
  <2>2. (Fresh(frames, chunks) => Fresh(frames, chunks)') /\ (Growing(chunks) => Growing(chunks)')
    BY <1>1, <2>1 DEF Growing
  <2> QED
    BY <1>1, <2>1, <2>2 DEF FreshInv
<1> QED
  BY <1>3, <1>4, <1>5, <1>6, <1>7, <1>8, <1>9 DEF Next, Step, Terminated

(* Where the overlap leaves room for every unit, each chunk ends behind the one before it,
   for every segmentation, with gaps or without. *)
THEOREM EachChunkAdds == Spec => []NewTextInEachChunk
<1>1. Init => FreshInv
  BY DEF Init, FreshInv
<1>2. FreshInv => NewTextInEachChunk
  BY DEF FreshInv, NewTextInEachChunk, Growing, Roomy
<1> QED
  BY <1>1, <1>2, InitIInv, IInvKept, FreshKept, PTL DEF Spec

-------------------------------------------------------------------------------
(* Runes and tokens of adjacent spans. *)

(* What division by a positive number leaves. *)
LEMMA DivBounds ==
  ASSUME NEW x \in Nat, NEW d \in Nat, d > 0
  PROVE  /\ x \div d \in Nat
         /\ (x \div d) * d <= x
         /\ x < (x \div d) * d + d
OBVIOUS

(* A product grows with its factor. *)
LEMMA TimesGrows ==
  ASSUME NEW a \in Int, NEW b \in Int, NEW d \in Nat, a <= b
  PROVE  a * d <= b * d
<1>1. (b - a) * d >= 0
  OBVIOUS
<1>2. (b - a) * d = b * d - a * d
  OBVIOUS
<1> QED
  BY <1>1, <1>2

(* The estimate of r runes in tokens is the least number of tokens that holds them. *)
LEMMA CeilFits ==
  ASSUME NEW r \in Nat, NEW d \in Nat, d > 0
  PROVE  /\ (r + d - 1) \div d \in Nat
         /\ r <= ((r + d - 1) \div d) * d
         /\ \A n \in Nat : r <= n * d => (r + d - 1) \div d <= n
<1> DEFINE q == (r + d - 1) \div d
<1>1. r + d - 1 \in Nat
  OBVIOUS
<1>2. q \in Nat /\ q * d <= r + d - 1 /\ r + d - 1 < q * d + d
  BY <1>1, DivBounds
<1> HIDE DEF q
<1>3. q * d \in Nat
  BY <1>2
<1>4. r <= q * d
  BY <1>2, <1>3
<1>5. ASSUME NEW n \in Nat, r <= n * d, n < q PROVE FALSE
  <2>1. n + 1 <= q /\ n + 1 \in Int /\ n * d \in Nat
    BY <1>2, <1>5
  <2>2. (n + 1) * d <= q * d
    BY <1>2, <2>1, TimesGrows
  <2>3. (n + 1) * d = n * d + d
    BY <2>1
  <2> QED
    BY <1>2, <1>3, <1>5, <2>1, <2>2, <2>3
<1>6. \A n \in Nat : r <= n * d => q <= n
  BY <1>2, <1>5
<1> QED
  BY <1>2, <1>4, <1>6 DEF q

(* A token holds CharsPerToken runes. *)
LEMMA EstHolds ==
  ASSUME text \in Seq(Bytes), NEW s \in Nat, NEW e \in Nat
  PROVE  /\ est(s, e) \in Nat /\ Runes(s, e) \in Nat /\ CharsPerToken \in Nat /\ CharsPerToken > 0
         /\ Runes(s, e) <= est(s, e) * CharsPerToken
         /\ \A n \in Nat : Runes(s, e) <= n * CharsPerToken => est(s, e) <= n
<1>1. Runes(s, e) \in Nat
  BY RunesType
<1>2. CharsPerToken \in Nat /\ CharsPerToken > 0
  BY ChunkAssumption
<1> QED
  BY <1>1, <1>2, CeilFits DEF est

(* The tokens that contiguous spans are counted for hold all their text. *)
LEMMA SumHolds ==
  ASSUME text \in Seq(Bytes), NEW us, Ordered(us), Contiguous(us), NEW i \in 1..Len(us), NEW j \in i..Len(us)
  PROVE  Runes(us[i].start, us[j].end) <= SumTokens(us, i, j) * CharsPerToken
<1> DEFINE C == CharsPerToken
           bad == {m \in i..Len(us) : ~(Runes(us[i].start, us[m].end) <= SumTokens(us, i, m) * C)}
<1>1. us \in Seq(Spans) /\ DOMAIN us = 1..Len(us) /\ Len(us) \in Nat /\ i \in Nat /\ C \in Nat
  BY ChunkAssumption DEF Ordered
<1>2. SUFFICES ASSUME bad # {} PROVE FALSE
  <2>1. j \notin bad => Runes(us[i].start, us[j].end) <= SumTokens(us, i, j) * C
    OBVIOUS
  <2> QED
    BY <2>1
<1>3. bad \in SUBSET Nat
  BY <1>1
<1>4. PICK m \in bad : \A x \in bad : m <= x
  BY <1>2, <1>3, Least
<1>5. /\ m \in i..Len(us) /\ m \in Nat /\ m \in DOMAIN us /\ i \in DOMAIN us
      /\ ~(Runes(us[i].start, us[m].end) <= SumTokens(us, i, m) * C)
  BY <1>1, <1>4
<1>6. /\ us[i].start \in Nat /\ us[i].end \in Nat /\ us[m].start \in Nat /\ us[m].end \in Nat /\ us[m].start < us[m].end
  BY <1>5, OrderedFar
<1>7. Runes(us[m].start, us[m].end) <= Tokens(us, m) * C /\ Tokens(us, m) \in Nat /\ Runes(us[m].start, us[m].end) \in Nat
  BY <1>6, EstHolds DEF Tokens
<1>8. CASE m = i
  <2>1. SumTokens(us, i, i) = Tokens(us, i)
    BY <1>1, SumOne
  <2> QED
    BY <1>5, <1>7, <1>8, <2>1
<1>9. CASE m # i
  <2>1. m - 1 \in i..Len(us) /\ m - 1 \in Nat /\ m - 1 \in DOMAIN us /\ m > 1 /\ m - 1 < m /\ m >= i
    BY <1>1, <1>5, <1>9
  <2>2. m - 1 \notin bad
    BY <1>4, <2>1
  <2>3. Runes(us[i].start, us[m - 1].end) <= SumTokens(us, i, m - 1) * C
    BY <2>1, <2>2
  <2>4. us[m].start = us[m - 1].end
    BY <1>5, <2>1 DEF Contiguous
  <2>5. us[i].start <= us[m].start
    BY <1>5, EndsAscend
  <2>6. Runes(us[i].start, us[m].end) = Runes(us[i].start, us[m - 1].end) + Runes(us[m].start, us[m].end)
    <3>1. /\ us[m].start <= us[m].end /\ us[m].end \in 0..Len(text)
          /\ Clean(us[i].start) /\ Clean(us[m].start) /\ Clean(us[m].end)
      BY <1>5, <1>6 DEF Ordered
    <3>2. Runes(us[i].start, us[m].end) = Runes(us[i].start, us[m].start) + Runes(us[m].start, us[m].end)
      BY <1>6, <2>5, <3>1, RunesAdd
    <3> QED
      BY <2>4, <3>2
  <2>7. SumTokens(us, i, m) = SumTokens(us, i, m - 1) + Tokens(us, m)
    <3>1. i \in Nat /\ i >= 1 /\ m \in Nat /\ m >= i
      BY <1>1, <1>5, <2>1
    <3>2. \A x \in Nat : x >= i => SumTokens(us, i, x) = SumTokens(us, i, x - 1) + Tokens(us, x)
      BY <3>1, SumSteps
    <3> QED
      BY <3>1, <3>2
  <2>8. SumTokens(us, i, m - 1) \in Nat
    <3>1. m - 1 \in (i - 1)..Len(us)
      BY <1>1, <2>1
    <3> QED
      BY <1>1, <3>1, SumType
  <2>9. (SumTokens(us, i, m - 1) + Tokens(us, m)) * C = SumTokens(us, i, m - 1) * C + Tokens(us, m) * C
    BY <1>1, <1>7, <2>8
  <2>10. /\ SumTokens(us, i, m - 1) * C \in Nat /\ Tokens(us, m) * C \in Nat
         /\ Runes(us[i].start, us[m - 1].end) \in Nat
    <3>1. us[m - 1].end \in Nat
      BY <1>6, <2>4
    <3>2. Runes(us[i].start, us[m - 1].end) \in Nat
      BY <1>6, <3>1, RunesType
    <3>3. \A a, b \in Nat : a * b \in Nat
      OBVIOUS
    <3>4. SumTokens(us, i, m - 1) * C \in Nat /\ Tokens(us, m) * C \in Nat
      BY <1>1, <1>7, <2>8, <3>3
    <3> QED
      BY <3>2, <3>4
  <2>11. Runes(us[i].start, us[m].end) <= SumTokens(us, i, m - 1) * C + Tokens(us, m) * C
    BY <1>7, <2>3, <2>6, <2>10
  <2> QED
    BY <1>5, <2>7, <2>9, <2>11
<1> QED
  BY <1>8, <1>9

(* The text of contiguous spans is no more tokens than the spans are. *)
LEMMA SumCounts ==
  ASSUME text \in Seq(Bytes), NEW us, Ordered(us), Contiguous(us), NEW i \in 1..Len(us), NEW j \in i..Len(us)
  PROVE  est(us[i].start, us[j].end) <= SumTokens(us, i, j)
<1>1. us \in Seq(Spans) /\ DOMAIN us = 1..Len(us) /\ Len(us) \in Nat
  BY DEF Ordered
<1>2. i \in DOMAIN us /\ j \in DOMAIN us /\ j \in (i - 1)..Len(us)
  BY <1>1
<1>3. us[i].start \in Nat /\ us[j].end \in Nat
  BY <1>2, OrderedFar
<1>4. SumTokens(us, i, j) \in Nat
  BY <1>1, <1>2, SumType
<1>5. Runes(us[i].start, us[j].end) <= SumTokens(us, i, j) * CharsPerToken
  BY SumHolds
<1> QED
  BY <1>3, <1>4, <1>5, EstHolds

-------------------------------------------------------------------------------
(* What two packed chunks share. *)

(* What starts at s repeats no more than the overlap budget of what ends at e. *)
Meets(s, e) == s >= e \/ est(s, e) <= overlapTok

Seams(chs) ==
  \A k \in 2..Len(chs) : chs[k - 1].by = "packed" /\ chs[k].by = "packed" => Meets(chs[k].start, chs[k - 1].end)

(* The innermost loop resumes within the overlap budget of the last packed chunk. *)
SeamAhead(frs, chs) ==
  frs # <<>> /\ chs # <<>> /\ chs[Len(chs)].by = "packed" => Meets(Resume(Last(frs)), chs[Len(chs)].end)

SeamInv == pc = "split" /\ GapFree => Seams(chunks) /\ SeamAhead(frames, chunks)

(* The seams stay while the text and the configuration do. *)
LEMMA SeamsSame ==
  ASSUME text' = text, cfg' = cfg
  PROVE  /\ GapFree' <=> GapFree
         /\ \A chs : Seams(chs)' <=> Seams(chs)
         /\ \A frs, chs : SeamAhead(frs, chs)' <=> SeamAhead(frs, chs)
<1>1. overlapTok' = overlapTok /\ \A s, e : est(s, e)' = est(s, e)
  BY Same
<1>2. \A s, e : Meets(s, e)' <=> Meets(s, e)
  BY <1>1 DEF Meets
<1>3. \A chs : Seams(chs)' <=> Seams(chs)
  BY <1>2 DEF Seams
<1>4. \A frs, chs : SeamAhead(frs, chs)' <=> SeamAhead(frs, chs)
  BY <1>2 DEF SeamAhead
<1> QED
  BY <1>3, <1>4, JoinedSame

(* A step keeps the seams when they hold afterwards. *)
LEMMA SeamsAgain ==
  ASSUME Steady, GapFree => Seams(chunks') /\ SeamAhead(frames', chunks')
  PROVE  SeamInv'
<1>1. /\ GapFree' <=> GapFree
      /\ \A chs : Seams(chs)' <=> Seams(chs)
      /\ \A frs, chs : SeamAhead(frs, chs)' <=> SeamAhead(frs, chs)
  BY SeamsSame DEF Steady
<1>2. Seams(chunks') => Seams(chunks)'
  BY <1>1
<1>3. SeamAhead(frames', chunks') => SeamAhead(frames, chunks)'
  BY <1>1
<1> QED
  BY <1>1, <1>2, <1>3 DEF SeamInv

(* A chunk that starts where the loop resumed keeps the seams. *)
LEMMA AddSeam ==
  ASSUME text \in Seq(Bytes), NEW chs, Made(chs, 0), Seams(chs), NEW c, CutFrom(c, 0),
         chs # <<>> /\ chs[Len(chs)].by = "packed" => Meets(c.start, chs[Len(chs)].end)
  PROVE  Seams(Append(chs, c)) /\ Append(chs, c) # <<>> /\ Append(chs, c)[Len(Append(chs, c))] = c
<1> DEFINE d == Append(chs, c)
           n == Len(chs)
<1>1. /\ Len(d) = n + 1 /\ n \in Nat /\ DOMAIN chs = 1..n /\ d[n + 1] = c
      /\ \A k \in DOMAIN chs : d[k] = chs[k]
  BY AddChunk
<1> HIDE DEF d
<1>2. d # <<>> /\ d[Len(d)] = c
  <2>1. Len(<<>>) = 0
    OBVIOUS
  <2>2. d # <<>>
    BY <1>1, <2>1
  <2> QED
    BY <1>1, <2>2
<1>3. ASSUME NEW k \in 2..Len(d), d[k - 1].by = "packed", d[k].by = "packed" PROVE Meets(d[k].start, d[k - 1].end)
  <2>1. k - 1 \in DOMAIN chs /\ n >= 1
    BY <1>1
  <2>2. d[k - 1] = chs[k - 1]
    BY <1>1, <2>1
  <2>3. CASE k = n + 1
    <3>1. Len(<<>>) = 0
      OBVIOUS
    <3>2. chs # <<>> /\ k - 1 = n /\ d[k] = c
      BY <1>1, <2>1, <2>3, <3>1
    <3> QED
      BY <1>3, <2>2, <3>2
  <2>4. CASE k # n + 1
    <3>1. k \in 2..n /\ k \in DOMAIN chs
      BY <1>1, <2>4
    <3>2. d[k] = chs[k]
      BY <1>1, <3>1
    <3> QED
      BY <1>3, <2>2, <3>1, <3>2 DEF Seams
  <2> QED
    BY <2>3, <2>4
<1> QED
  BY <1>2, <1>3 DEF Seams, d

(* Behind a loop that ends, the one around it resumes behind all chunks. *)
LEMMA PopSeam ==
  ASSUME text \in Seq(Bytes), text # <<>>, cfg \in Configs, GapFree,
         NEW frs, Nested(frs), frs # <<>>, NEW chs, Made(chs, 0),
         \A k \in DOMAIN chs : chs[k].end <= Limit(Last(frs))
  PROVE  SeamAhead(Front(frs), chs)
<1> SUFFICES ASSUME Front(frs) # <<>>, chs # <<>>
             PROVE  Meets(Resume(Last(Front(frs))), chs[Len(chs)].end)
  BY DEF SeamAhead
<1>1. Loop(Last(frs)) /\ Loop(Last(Front(frs)))
  BY PopNested
<1>2. frs \in Seq(Frames) /\ Len(frs) \in Nat /\ Len(frs) >= 1 /\ DOMAIN frs = 1..Len(frs)
  BY DEF Nested
<1>3. Len(frs) # 1
  BY PopNested
<1>4. Last(Front(frs)) = frs[Len(frs) - 1] /\ Within(Last(Front(frs)), Last(frs))
  BY <1>3, PopNested
<1>5. Len(frs) - 1 \in DOMAIN frs
  BY <1>2, <1>3
<1>6. Contiguous(Last(Front(frs)).spans)
  BY <1>4, <1>5, LoopsContiguous
<1>7. Resume(Last(Front(frs))) = Limit(Last(frs))
  BY <1>1, <1>4, <1>6, OuterResumes
<1>8. Len(chs) \in DOMAIN chs
  BY DEF Made
<1>9. chs[Len(chs)].end <= Limit(Last(frs)) /\ chs[Len(chs)].end \in Nat /\ Limit(Last(frs)) \in Nat
  BY <1>1, <1>8, MadeFacts, LoopFacts
<1>10. Resume(Last(Front(frs))) >= chs[Len(chs)].end
  BY <1>7, <1>9
<1> QED
  BY <1>10 DEF Meets

(* The loop goes on within the overlap budget of the chunk it packed. *)
LEMMA PackSeams == ASSUME IInv, SeamInv, PackChunk PROVE SeamInv'
<1> DEFINE us == top.spans
           i == top.i
           j == growChunk(us, i)
           o == overlapStart(us, i, j)
<1>1. /\ pc = "split" /\ pc' = "split" /\ Steady /\ frames # <<>> /\ top.kind # "prose"
      /\ i \in 1..Len(us) /\ Tokens(us, i) <= maxTok /\ j \in i..Len(us)
      /\ frames' = IF j = Len(us) THEN Front(frames) ELSE Changed(frames, At(top, o))
  BY PackIs
<1>2. PICK c : Packs(c, us, i, j) /\ c.by = "packed" /\ chunks' = Append(chunks, c)
  BY PackIs
<1>3. /\ text \in Seq(Bytes) /\ cfg \in Configs /\ TypeOK /\ text # <<>>
      /\ Nested(frames) /\ Made(chunks, 0) /\ Advancing(chunks) /\ Behind(top, chunks)
      /\ Loop(top) /\ top = Last(frames)
  BY <1>1, TopFacts
<1>4. SUFFICES ASSUME GapFree PROVE Seams(chunks') /\ SeamAhead(frames', chunks')
  BY <1>1, SeamsAgain
<1>5. Seams(chunks) /\ SeamAhead(frames, chunks)
  BY <1>1, <1>4 DEF SeamInv
<1>6. us \in Seq(Spans) /\ Ordered(us) /\ DOMAIN us = 1..Len(us) /\ Len(us) \in Nat /\ i \in Nat /\ ~(i > Len(us))
  BY <1>1, <1>3, LoopFacts
<1>7. c.start = us[i].start /\ c.end = us[j].end /\ CutFrom(c, 0)
  BY <1>2 DEF Packs
<1>8. Resume(top) = us[i].start
  BY <1>1, <1>6 DEF Resume
<1>9. Seams(chunks') /\ chunks' # <<>> /\ chunks'[Len(chunks')] = c
  <2>1. chunks # <<>> /\ chunks[Len(chunks)].by = "packed" => Meets(c.start, chunks[Len(chunks)].end)
    BY <1>1, <1>3, <1>5, <1>7, <1>8 DEF SeamAhead
  <2> QED
    BY <1>2, <1>3, <1>5, <1>7, <2>1, AddSeam
<1>10. CASE j = Len(us)
  <2>1. \A k \in DOMAIN chunks' : chunks'[k].end <= Limit(Last(frames))
    <3>1. i <= Len(us)
      BY <1>6
    <3> QED
      BY <1>1, <1>2, <1>3, <3>1, PackBehind
  <2>2. Made(chunks', 0)
    BY <1>2, <1>3, <1>7, AddChunk
  <2>3. frames' = Front(frames)
    BY <1>1, <1>10
  <2> QED
    BY <1>1, <1>3, <1>4, <1>9, <2>1, <2>2, <2>3, PopSeam
<1>11. CASE j # Len(us)
  <2>1. j + 1 \in DOMAIN us /\ j \in DOMAIN us /\ j < j + 1 /\ j \in Nat
    BY <1>1, <1>6, <1>11
  <2>2. o \in (i + 1)..(j + 1) /\ \A m \in o..j : SumTokens(us, m, j) <= overlapTok
    BY <1>1, <1>3, <1>6, OverlapFits
  <2>3. o \in Nat /\ o \in 1..Len(us) /\ o \in DOMAIN us /\ o <= j + 1 /\ ~(o > Len(us))
    BY <1>1, <1>6, <2>1, <2>2
  <2> HIDE DEF o
  <2>4. frames' = Changed(frames, At(Last(frames), o))
    BY <1>1, <1>3, <1>11
  <2>5. Loop(At(Last(frames), o)) /\ At(top, o).kind # "prose" /\ At(top, o).spans = us /\ At(top, o).i = o
    <3>1. o \in 1..(Len(us) + 1)
      BY <1>6, <2>3
    <3> QED
      BY <1>1, <1>3, <2>3, <3>1, AtLoop
  <2>6. frames' # <<>> /\ Last(frames') = At(top, o)
    <3>1. /\ Changed(frames, At(Last(frames), o)) # <<>>
          /\ Last(Changed(frames, At(Last(frames), o))) = At(Last(frames), o)
      BY <1>1, <1>3, <2>3, <2>5, MoveNested
    <3> QED
      BY <1>3, <2>4, <3>1
  <2>7. Resume(At(top, o)) = us[o].start
    BY <2>3, <2>5 DEF Resume
  <2>8. Meets(us[o].start, us[j].end)
    <3>1. CASE o = j + 1
      <4>1. us[j].end <= us[o].start /\ us[j].end \in Nat /\ us[o].start \in Nat
        BY <1>3, <1>6, <2>1, <3>1, OrderedFar
      <4>2. us[o].start >= us[j].end
        BY <4>1
      <4> QED
        BY <4>2 DEF Meets
    <3>2. CASE o # j + 1
      <4>1. o \in o..j /\ j \in o..Len(us)
        BY <1>1, <1>6, <2>1, <2>3, <3>2
      <4>2. SumTokens(us, o, j) <= overlapTok
        BY <2>2, <4>1
      <4>3. Contiguous(us)
        <5>1. Len(frames) \in DOMAIN frames
          BY <1>1, <1>3 DEF Nested
        <5>2. Last(frames) = frames[Len(frames)]
          BY DEF Last
        <5> QED
          BY <1>3, <1>4, <5>1, <5>2, LoopsContiguous
      <4>4. est(us[o].start, us[j].end) <= SumTokens(us, o, j)
        BY <1>3, <1>6, <2>3, <4>1, <4>3, SumCounts
      <4>5. est(us[o].start, us[j].end) \in Nat /\ SumTokens(us, o, j) \in Nat /\ overlapTok \in Nat
        <5>1. us[o].start \in Nat /\ us[j].end \in Nat
          BY <1>3, <1>6, <2>1, <2>3, OrderedFar
        <5>2. j \in (o - 1)..Len(us)
          BY <1>6, <2>3, <4>1
        <5> QED
          BY <1>3, <1>6, <2>3, <5>1, <5>2, EstType, SumType, BudgetType
      <4>6. est(us[o].start, us[j].end) <= overlapTok
        BY <4>2, <4>4, <4>5
      <4> QED
        BY <4>6 DEF Meets
    <3> QED
      BY <3>1, <3>2
  <2> QED
    BY <1>7, <1>9, <2>6, <2>7, <2>8 DEF SeamAhead
<1> QED
  BY <1>10, <1>11

(* The splitter of an oversize span starts behind all chunks. *)
LEMMA SplitSeams == ASSUME IInv, SeamInv, SplitOversize PROVE SeamInv'
<1> DEFINE us == top.spans
           i == top.i
           sub == SplitterOf(top.kind, us[i])
           moved == Changed(frames, At(top, i + 1))
<1>1. /\ pc = "split" /\ frames # <<>> /\ top.kind # "prose" /\ i <= Len(us) /\ Tokens(us, i) > maxTok
      /\ Steady /\ pc' = "split" /\ chunks' = chunks /\ frames' = Append(moved, sub)
  BY DEF SplitOversize, Packing, Steady, Changed
<1>2. /\ text \in Seq(Bytes) /\ cfg \in Configs /\ TypeOK /\ text # <<>>
      /\ Nested(frames) /\ Made(chunks, 0) /\ Advancing(chunks) /\ Behind(top, chunks)
      /\ Loop(top) /\ top = Last(frames)
  BY <1>1, TopFacts
<1>3. SUFFICES ASSUME GapFree PROVE Seams(chunks') /\ SeamAhead(frames', chunks')
  BY <1>1, SeamsAgain
<1>4. Seams(chunks)
  BY <1>1, <1>3 DEF SeamInv
<1>5. Loop(sub) /\ Loop(At(top, i + 1)) /\ Resume(sub) = Resume(top)
  BY <1>1, <1>2, SplitBehind
<1>6. i + 1 \in Nat /\ ~(i > Len(us))
  BY <1>1, <1>2, LoopFacts
<1>7. moved \in Seq(Frames)
  <2>1. Loop(At(Last(frames), i + 1))
    BY <1>2, <1>5
  <2>2. Nested(Changed(frames, At(Last(frames), i + 1)))
    BY <1>1, <1>2, <1>6, <2>1, MoveNested
  <2> QED
    BY <1>2, <2>2 DEF Nested
<1> HIDE DEF moved, sub
<1>8. frames' # <<>> /\ Last(frames') = sub
  <2>1. sub \in Frames
    BY <1>5 DEF Loop
  <2> QED
    BY <1>1, <1>7, <2>1 DEF Last
<1>9. Reach(top) = us[i].start /\ Resume(top) = us[i].start
  BY <1>1, <1>6 DEF Reach, Resume
<1>10. ASSUME chunks # <<>> PROVE Meets(Resume(sub), chunks[Len(chunks)].end)
  <2>1. Len(chunks) \in DOMAIN chunks
    BY <1>2, <1>10 DEF Made
  <2>2. chunks[Len(chunks)].end <= Resume(sub)
    BY <1>2, <1>5, <1>9, <2>1 DEF Behind
  <2>3. chunks[Len(chunks)].end \in Nat /\ Resume(sub) \in Nat
    BY <1>2, <1>5, <2>1, MadeFacts, ReachFacts
  <2>4. Resume(sub) >= chunks[Len(chunks)].end
    BY <2>2, <2>3
  <2> QED
    BY <2>4 DEF Meets
<1> QED
  BY <1>1, <1>4, <1>8, <1>10 DEF SeamAhead

(* Behind a loop that is left, the one around it resumes behind all chunks. *)
LEMMA LeaveSeams == ASSUME IInv, SeamInv, LeaveLoop PROVE SeamInv'
<1>1. /\ pc = "split" /\ frames # <<>> /\ Steady /\ pc' = "split" /\ chunks' = chunks /\ frames' = Front(frames)
  BY DEF LeaveLoop, Packing, Steady
<1>2. /\ text \in Seq(Bytes) /\ cfg \in Configs /\ TypeOK /\ text # <<>>
      /\ Nested(frames) /\ Made(chunks, 0) /\ Behind(top, chunks) /\ top = Last(frames)
  BY <1>1, TopFacts
<1>3. SUFFICES ASSUME GapFree PROVE Seams(chunks') /\ SeamAhead(frames', chunks')
  BY <1>1, SeamsAgain
<1>4. Seams(chunks)
  BY <1>1, <1>3 DEF SeamInv
<1>5. \A k \in DOMAIN chunks : chunks[k].end <= Limit(Last(frames))
  BY <1>2 DEF Behind
<1> QED
  BY <1>1, <1>2, <1>3, <1>4, <1>5, PopSeam

(* A chunk of prose has no seam to a packed one. *)
LEMMA CutSeams == ASSUME IInv, SeamInv, CutProse PROVE SeamInv'
<1>1. pc = "split" /\ pc' = "split" /\ Steady /\ frames # <<>>
  BY CutIs
<1>2. PICK c : CutFrom(c, 0) /\ c.by = "prose" /\ chunks' = Append(chunks, c)
  BY CutIs
<1>3. text \in Seq(Bytes) /\ Made(chunks, 0)
  BY <1>1, TopFacts
<1>4. SUFFICES ASSUME GapFree PROVE Seams(chunks') /\ SeamAhead(frames', chunks')
  BY <1>1, SeamsAgain
<1>5. Seams(chunks)
  BY <1>1, <1>4 DEF SeamInv
<1> DEFINE n == Len(chunks)
<1>6. /\ Len(chunks') = n + 1 /\ n \in Nat /\ chunks'[n + 1] = c
      /\ \A k \in DOMAIN chunks : chunks'[k] = chunks[k]
      /\ DOMAIN chunks = 1..n
  BY <1>2, <1>3, AddChunk
<1>7. ASSUME NEW k \in 2..Len(chunks'), chunks'[k - 1].by = "packed", chunks'[k].by = "packed"
      PROVE  Meets(chunks'[k].start, chunks'[k - 1].end)
  <2>1. k # n + 1
    BY <1>2, <1>6, <1>7
  <2>2. k \in 2..n /\ k \in 1..n /\ k - 1 \in 1..n
    BY <1>6, <2>1
  <2>3. chunks'[k] = chunks[k] /\ chunks'[k - 1] = chunks[k - 1]
    BY <1>6, <2>2
  <2> QED
    BY <1>5, <1>7, <2>2, <2>3 DEF Seams
<1>8. chunks'[Len(chunks')].by # "packed"
  BY <1>2, <1>6
<1> QED
  BY <1>7, <1>8 DEF Seams, SeamAhead

(* Every step keeps the seams. *)
LEMMA SeamsKept == IInv /\ SeamInv /\ [Next]_vars => SeamInv'
<1> SUFFICES ASSUME IInv, SeamInv, [Next]_vars PROVE SeamInv'
  OBVIOUS
<1>1. ASSUME Start PROVE SeamInv'
  <2>1. chunks' = <<>> /\ Steady
    BY <1>1 DEF Start, IInv, Steady
  <2>2. Len(<<>>) = 0 /\ 2..0 = {}
    OBVIOUS
  <2>3. Seams(chunks') /\ SeamAhead(frames', chunks')
    BY <2>1, <2>2 DEF Seams, SeamAhead
  <2> QED
    BY <2>1, <2>3, SeamsAgain
<1>2. ASSUME Finish PROVE SeamInv'
  BY <1>2 DEF Finish, SeamInv
<1>3. ASSUME UNCHANGED vars PROVE SeamInv'
  <2>1. text' = text /\ cfg' = cfg /\ frames' = frames /\ chunks' = chunks /\ pc' = pc
    BY <1>3 DEF vars
  <2>2. /\ GapFree' <=> GapFree
        /\ \A chs : Seams(chs)' <=> Seams(chs)
        /\ \A frs, chs : SeamAhead(frs, chs)' <=> SeamAhead(frs, chs)
    BY <2>1, SeamsSame
  <2>3. (Seams(chunks) => Seams(chunks)') /\ (SeamAhead(frames, chunks) => SeamAhead(frames, chunks)')
    BY <2>1, <2>2
  <2> QED
    BY <2>1, <2>2, <2>3 DEF SeamInv
<1> QED
  BY <1>1, <1>2, <1>3, PackSeams, SplitSeams, LeaveSeams, CutSeams DEF Next, Step, Terminated

(* Two consecutive packed chunks of contiguous units share no more than the overlap budget. *)
THEOREM OverlapIsBounded == Spec => []OverlapWithinBudget
<1>1. Init => SeamInv
  BY DEF Init, SeamInv
<1>2. SeamInv => OverlapWithinBudget
  BY DEF SeamInv, OverlapWithinBudget, Seams, Meets
<1> QED
  BY <1>1, <1>2, InitIInv, IInvKept, SeamsKept, PTL DEF Spec

-------------------------------------------------------------------------------
(* Budgets, where runes have one width. *)

(* A factor cancels. *)
LEMMA TimesCancels ==
  ASSUME NEW a \in Nat, NEW b \in Nat, NEW d \in Nat, d > 0, a * d <= b * d
  PROVE  a <= b
<1>1. ASSUME b < a PROVE FALSE
  <2>1. (b + 1) * d <= a * d
    <3>1. b + 1 <= a /\ b + 1 \in Int
      BY <1>1
    <3> QED
      BY <3>1, TimesGrows
  <2>2. (b + 1) * d = b * d + d /\ b * d \in Nat /\ a * d \in Nat
    OBVIOUS
  <2> QED
    BY <2>1, <2>2
<1> QED
  BY <1>1

(* Between two offsets that cut no rune, a text whose runes have w bytes has a rune for
   every w bytes: the last of these runes starts w bytes before the end. *)
LEMMA WideRunes ==
  ASSUME text \in Seq(Bytes), ValidUTF8(text), NEW w \in 1..4,
         \A k \in DOMAIN text : RuneStart(text[k]) => WidthOf(text[k]) = w,
         NEW s, NEW e, Piece(s, e)
  PROVE  w * Runes(s, e) = e - s
<1> DEFINE bad == {x \in s..Len(text) : Clean(x) /\ w * Runes(s, x) # x - s}
<1>1. s \in Nat /\ e \in s..Len(text) /\ Clean(s) /\ Clean(e) /\ DOMAIN text = 1..Len(text) /\ Len(text) \in Nat
  BY DEF Piece
<1>2. SUFFICES ASSUME bad # {} PROVE FALSE
  BY <1>1
<1>3. bad \in SUBSET Nat
  BY <1>1
<1>4. PICK x \in bad : \A y \in bad : x <= y
  BY <1>2, <1>3, Least
<1>5. x \in s..Len(text) /\ x \in Nat /\ Clean(x) /\ w * Runes(s, x) # x - s
  BY <1>3, <1>4
<1>6. x # s
  <2>1. Starts(s, s) = {} /\ s \in 0..Len(text) /\ s <= s
    BY <1>1 DEF Starts
  <2>2. Runes(s, s) = 0
    BY <1>1, <2>1, RunesAre, FS_EmptySet
  <2> QED
    BY <1>1, <1>5, <2>2
<1>7. PICK z \in Starts(s, x) : \A y \in Starts(s, x) : y <= z
  <2>1. s \in Starts(s, x) /\ Starts(s, x) \in SUBSET Nat /\ \A y \in Starts(s, x) : y <= x
    BY <1>1, <1>5, <1>6 DEF Starts
  <2> QED
    BY <1>5, <2>1, MaxIsGreatest
<1>8. z \in Nat /\ s <= z /\ z < x /\ Clean(z) /\ z \in 0..(Len(text) - 1) /\ z + 1 \in DOMAIN text
  BY <1>1, <1>5, <1>7 DEF Starts
<1>9. RuneSize(text, z) = w
  BY <1>8, ValidStarts
<1>10. x = z + w
  <2>1. z + w \in (z + 1)..Len(text) /\ Clean(z + w) /\ z + w <= x
    <3>1. x \in (z + 1)..Len(text)
      BY <1>1, <1>5, <1>8
    <3> QED
      BY <1>5, <1>8, <1>9, <3>1, NextClean
  <2>2. z + w < x => z + w \in Starts(s, x)
    BY <1>1, <1>5, <1>8, <2>1 DEF Starts
  <2>3. ~(z + w <= z)
    BY <1>8
  <2> QED
    BY <1>5, <1>7, <1>8, <2>1, <2>2, <2>3
<1>11. w * Runes(s, z) = z - s /\ Runes(s, z) \in Nat
  <2>1. z \in s..Len(text) /\ ~(x <= z)
    BY <1>1, <1>5, <1>8
  <2>2. z \notin bad
    BY <1>4, <2>1
  <2> QED
    BY <1>1, <1>8, <2>1, <2>2, RunesType
<1>12. Runes(z, x) = 1
  <2>1. Starts(z, x) = {z}
    <3>1. ASSUME NEW y \in Starts(z, x) PROVE y = z
      <4>1. y \in z..(x - 1) /\ Clean(y)
        BY DEF Starts
      <4>2. y \in Starts(s, x) /\ y \in Int
        BY <1>1, <1>5, <1>8, <4>1 DEF Starts
      <4> QED
        BY <1>7, <1>8, <4>1, <4>2
    <3>2. z \in Starts(z, x)
      BY <1>5, <1>8 DEF Starts
    <3> QED
      BY <3>1, <3>2
  <2>2. x \in 0..Len(text) /\ z <= x
    BY <1>1, <1>5, <1>8
  <2> QED
    BY <1>5, <1>8, <2>1, <2>2, RunesAre, FS_Singleton
<1>13. Runes(s, x) = Runes(s, z) + 1
  <2>1. x \in 0..Len(text) /\ z <= x
    BY <1>1, <1>5, <1>8
  <2>2. Runes(s, x) = Runes(s, z) + Runes(z, x)
    BY <1>1, <1>5, <1>8, <2>1, RunesAdd
  <2> QED
    BY <1>12, <2>2
<1>14. w * (Runes(s, z) + 1) = w * Runes(s, z) + w
  BY <1>11
<1> HIDE DEF bad
<1> QED
  BY <1>1, <1>5, <1>8, <1>10, <1>11, <1>13, <1>14

(* In a text whose runes have one width, w bytes, every piece has a rune for w bytes. *)
Wide(w) ==
  /\ w \in 1..4
  /\ \A s, e : Piece(s, e) => w * Runes(s, e) = e - s
  /\ \A s \in 0..(Len(text) - 1) : RuneSize(text, s) <= w

(* The runes of a text of one rune width have the width of its first one. *)
LEMMA HasWidth ==
  ASSUME text \in Seq(Bytes), ValidUTF8(text), OneWidth
  PROVE  \E w : Wide(w)
<1>1. DOMAIN text = 1..Len(text) /\ Len(text) \in Nat
  OBVIOUS
<1>2. PICK w \in 1..4 : \A k \in DOMAIN text : RuneStart(text[k]) => WidthOf(text[k]) = w
  <2>1. \A b : WidthOf(b) \in 1..4
    BY DEF WidthOf
  <2>2. CASE \E j \in DOMAIN text : RuneStart(text[j])
    BY <2>1, <2>2 DEF OneWidth
  <2>3. CASE ~\E j \in DOMAIN text : RuneStart(text[j])
    BY <2>3
  <2> QED
    BY <2>2, <2>3
<1>3. \A s, e : Piece(s, e) => w * Runes(s, e) = e - s
  BY <1>2, WideRunes
<1>4. ASSUME NEW s \in 0..(Len(text) - 1) PROVE RuneSize(text, s) <= w
  <2>1. s + 1 \in DOMAIN text
    BY <1>1
  <2>2. CASE text[s + 1] = "c"
    BY <1>2, <2>2, SizeIs
  <2>3. CASE text[s + 1] # "c"
    <3>1. WidthOf(text[s + 1]) = w
      BY <1>2, <2>1, <2>3 DEF RuneStart
    <3> QED
      BY <3>1 DEF RuneSize
  <2> QED
    BY <2>2, <2>3
<1> QED
  BY <1>3, <1>4 DEF Wide

(* The window of a span in a text of one rune width holds no more than the budget. *)
LEMMA TargetFits ==
  ASSUME text \in Seq(Bytes), cfg \in Configs, NEW w, Wide(w), NEW span \in Spans, Piece(span.start, span.end)
  PROVE  Target(span) <= w * (maxTok * CharsPerToken)
<1> DEFINE R == Runes(span.start, span.end)
           T == Total(span)
           M == maxTok
           C == CharsPerToken
           L == span.end - span.start
           K == M * C
           q == (M * L) \div T
<1>1. span.start \in Nat /\ span.end \in Nat /\ span.start < span.end
  BY DEF Spans, Piece
<1>2. M \in Nat /\ M > 0 /\ C \in Nat /\ C > 0 /\ T \in Nat /\ T > 0 /\ w \in Nat /\ w > 0
  BY <1>1, BudgetType, WindowType, ChunkAssumption DEF Wide
<1>3. L \in Nat /\ R \in Nat /\ L = w * R
  <2>1. w * Runes(span.start, span.end) = span.end - span.start
    BY DEF Wide
  <2>2. R \in Nat
    BY <1>1, RunesType
  <2>3. L \in Nat
    BY <1>1
  <2> QED
    BY <2>1, <2>2, <2>3
<1>4. R <= T * C
  <2>1. est(span.start, span.end) \in Nat /\ R <= est(span.start, span.end) * C
    BY <1>1, EstHolds
  <2>2. est(span.start, span.end) <= T
    <3>1. T = IF est(span.start, span.end) >= 1 THEN est(span.start, span.end) ELSE 1
      BY <2>1, MaxOfTwo DEF Total
    <3> QED
      BY <2>1, <3>1
  <2>3. est(span.start, span.end) * C <= T * C
    BY <1>2, <2>1, <2>2, TimesGrows
  <2>4. est(span.start, span.end) * C \in Nat /\ T * C \in Nat
    BY <1>2, <2>1
  <2> QED
    BY <1>3, <2>1, <2>3, <2>4
<1>5. Target(span) = IF q >= 1 THEN q ELSE 1
  <2>1. M * L \in Nat
    BY <1>2, <1>3
  <2>2. q \in Int
    BY <1>2, <2>1, DivBounds
  <2> QED
    BY <2>2, MaxOfTwo DEF Target
<1> HIDE DEF R, T, M, C, L
<1>6. M * L \in Nat /\ q \in Nat /\ q * T <= M * L
  <2>1. M * L \in Nat
    BY <1>2, <1>3
  <2> QED
    BY <1>2, <2>1, DivBounds
<1>7. M * L <= (w * K) * T
  <2>1. R * (w * M) <= (T * C) * (w * M)
    <3>1. T * C \in Int /\ w * M \in Nat /\ R \in Int
      BY <1>2, <1>3
    <3> QED
      BY <1>4, <3>1, TimesGrows
  <2>2. R * (w * M) = M * L
    BY <1>2, <1>3
  <2>3. (T * C) * (w * M) = (w * K) * T
    BY <1>2
  <2> QED
    BY <2>1, <2>2, <2>3
<1>8. K \in Nat /\ K >= 1 /\ w * K \in Nat /\ w * K >= 1
  BY <1>2
<1> HIDE DEF K, q
<1>9. q <= w * K
  <2>1. q * T <= (w * K) * T
    <3>1. q * T \in Nat /\ (w * K) * T \in Nat
      BY <1>2, <1>6, <1>8
    <3> QED
      BY <1>6, <1>7, <3>1
  <2> QED
    BY <1>2, <1>6, <1>8, <2>1, TimesCancels
<1>10. Target(span) <= w * K
  BY <1>5, <1>6, <1>8, <1>9
<1> QED
  BY <1>10 DEF K, M, C

(* A chunk of prose of one rune width holds no more than the budget. *)
LEMMA ProseFits ==
  ASSUME text \in Seq(Bytes), cfg \in Configs, NEW w, Wide(w), NEW span \in Spans, Piece(span.start, span.end),
         NEW pos \in span.start..(span.end - 1), Clean(pos)
  PROVE  Runes(pos, ProseEnd(span, pos)) <= maxTok * CharsPerToken
<1> DEFINE K == maxTok * CharsPerToken
           e == ProseEnd(span, pos)
           x == WindowEnd(span, pos)
<1>1. span.start \in Nat /\ span.end \in 1..Len(text) /\ span.start < span.end /\ Len(text) \in Nat
  BY DEF Piece
<1>2. pos \in Nat /\ pos < span.end /\ pos < Len(text) /\ span.end <= Len(text) /\ span.end \in Nat
  BY <1>1
<1>3. Target(span) \in Nat /\ Target(span) > 0 /\ Target(span) <= w * K
  BY <1>1, WindowType, TargetFits
<1>4. x \in (pos + 1)..span.end /\ e = snapEndToRuneBoundary(pos, x)
  BY WindowRange
<1>5. x <= pos + Target(span)
  <2>1. CASE pos + Target(span) >= span.end
    BY <1>2, <1>3, <2>1 DEF WindowEnd
  <2>2. CASE ~(pos + Target(span) >= span.end)
    <3>1. pos + Target(span) \in Nat /\ pos < pos + Target(span)
      BY <1>2, <1>3
    <3>2. findBoundary(pos, pos + Target(span)) \in Quarter(pos, pos + Target(span))..(pos + Target(span))
          /\ findBoundary(pos, pos + Target(span)) \in Nat
      BY <1>2, <3>1, BoundaryRange
    <3>3. Quarter(pos, pos + Target(span)) \in Int
      BY <1>2, <3>1, BoundaryCases
    <3>4. findBoundary(pos, pos + Target(span)) <= pos + Target(span)
      BY <3>1, <3>2, <3>3
    <3> QED
      BY <2>2, <3>4 DEF WindowEnd
  <2> QED
    BY <2>1, <2>2
<1> HIDE DEF x
<1>6. e <= x \/ e <= pos + RuneSize(text, pos)
  <2>1. x \in (pos + 1)..Len(text)
    BY <1>1, <1>2, <1>4
  <2>2. \/ e = Max(Cuts(pos, x))
        \/ e = pos + RuneSize(text, pos)
    BY <1>2, <1>4, <2>1, SnapEnd
  <2>3. Max(Cuts(pos, x)) \in Cuts(pos, x)
    BY <1>2, <2>1, SnapEnd
  <2>4. Max(Cuts(pos, x)) <= x
    <3>1. \A y \in pos..x : y <= x
      BY <1>2, <2>1
    <3> QED
      BY <2>3, <3>1 DEF Cuts
  <2>5. e \in Nat
    BY ProseEnds
  <2> QED
    BY <2>2, <2>4, <2>5
<1>7. e \in (pos + 1)..span.end /\ e \in Nat /\ Clean(e)
  BY ProseEnds
<1>8. K \in Nat /\ K >= 1 /\ w \in Nat /\ w >= 1
  BY BudgetType, ChunkAssumption DEF Wide
<1> HIDE DEF e, K
<1>9. Piece(pos, e)
  <2>1. e \in 1..Len(text) /\ pos < e
    BY <1>1, <1>2, <1>7
  <2> QED
    BY <1>2, <1>7, <2>1 DEF Piece
<1>10. w * Runes(pos, e) = e - pos /\ Runes(pos, e) \in Nat
  BY <1>2, <1>7, <1>9, RunesType DEF Wide
<1>11. RuneSize(text, pos) <= w /\ RuneSize(text, pos) \in Nat
  <2>1. pos \in 0..(Len(text) - 1)
    BY <1>1, <1>2
  <2> QED
    BY <2>1, SizeIs DEF Wide
<1>12. e - pos <= w * K
  <2>1. w \in 1..4
    BY DEF Wide
  <2>2. w <= w * K /\ w * K \in Nat
    BY <1>8, <2>1
  <2>3. x \in Nat
    BY <1>2, <1>4
  <2> QED
    BY <1>2, <1>3, <1>5, <1>6, <1>7, <1>8, <1>11, <2>2, <2>3
<1>13. Runes(pos, e) <= K
  <2>1. w = 1 \/ w = 2 \/ w = 3 \/ w = 4
    BY DEF Wide
  <2> QED
    BY <1>2, <1>7, <1>8, <1>10, <1>12, <2>1
<1> QED
  BY <1>13 DEF e, K

(* What is packed of contiguous spans holds no more than the budget. *)
LEMMA PackFits ==
  ASSUME text \in Seq(Bytes), cfg \in Configs, NEW us, Ordered(us), Contiguous(us),
         NEW i \in 1..Len(us), Tokens(us, i) <= maxTok
  PROVE  Runes(us[i].start, us[growChunk(us, i)].end) <= maxTok * CharsPerToken
<1> DEFINE j == growChunk(us, i)
           C == CharsPerToken
<1>1. us \in Seq(Spans) /\ DOMAIN us = 1..Len(us) /\ Len(us) \in Nat /\ i \in Nat
  BY DEF Ordered
<1>2. j \in i..Len(us) /\ \A m \in (i + 1)..j : SumTokens(us, i, m) <= maxTok
  BY <1>1, GrowFits
<1> HIDE DEF j
<1>3. j \in (i - 1)..Len(us) /\ i \in DOMAIN us /\ j \in DOMAIN us /\ (j # i => j \in (i + 1)..j)
  BY <1>1, <1>2
<1>4. SumTokens(us, i, j) \in Nat /\ SumTokens(us, i, j) <= maxTok
  <2>1. SumTokens(us, i, j) \in Nat
    BY <1>1, <1>3, SumType
  <2>2. j = i => SumTokens(us, i, j) = Tokens(us, i)
    BY <1>1, SumOne
  <2> QED
    BY <1>2, <1>3, <2>1, <2>2
<1>5. Runes(us[i].start, us[j].end) <= SumTokens(us, i, j) * C
  BY <1>2, SumHolds
<1>6. SumTokens(us, i, j) * C <= maxTok * C /\ C \in Nat /\ maxTok \in Nat
  <2>1. C \in Nat /\ maxTok \in Nat
    BY BudgetType, ChunkAssumption
  <2> QED
    BY <1>4, <2>1, TimesGrows
<1>7. us[i].start \in Nat /\ us[j].end \in Nat
  BY <1>3, OrderedFar
<1>8. Runes(us[i].start, us[j].end) \in Nat
  BY <1>7, RunesType
<1> HIDE DEF C
<1>9. SumTokens(us, i, j) * C \in Nat /\ maxTok * C \in Nat
  BY <1>4, <1>6
<1>10. Runes(us[i].start, us[j].end) <= maxTok * C
  BY <1>5, <1>6, <1>8, <1>9
<1> QED
  BY <1>10 DEF j, C

(* A chunk's text has the runes of its place in the text. *)
LEMMA TextRunes ==
  ASSUME NEW c, CutFrom(c, 0)
  PROVE  RuneCount(c.text) = Runes(c.start, c.end)
<1>1. c.start \in Nat /\ c.end \in Nat /\ c.text = SubSeq(text, c.start - 0 + 1, c.end - 0)
  BY DEF CutFrom, Chunks
<1>2. c.start - 0 + 1 = c.start + 1 /\ c.end - 0 = c.end
  BY <1>1
<1> QED
  BY <1>1, <1>2 DEF Runes

(* Of text of one rune width, every chunk holds no more than the budget. *)
Budgeted(chs) == \A k \in DOMAIN chs : RuneCount(chs[k].text) <= maxTok * CharsPerToken

BudgetInv == ValidUTF8(text) /\ GapFree /\ OneWidth => Budgeted(chunks)

(* The budget stays while the text and the configuration do. *)
LEMMA BudgetedSame ==
  ASSUME text' = text, cfg' = cfg
  PROVE  /\ ValidUTF8(text)' <=> ValidUTF8(text)
         /\ GapFree' <=> GapFree
         /\ OneWidth' <=> OneWidth
         /\ \A chs : Budgeted(chs)' <=> Budgeted(chs)
<1>1. maxTok' = maxTok
  BY Same
<1>2. OneWidth' <=> OneWidth
  BY DEF OneWidth
<1>3. \A chs : Budgeted(chs)' <=> Budgeted(chs)
  BY <1>1 DEF Budgeted
<1> QED
  BY <1>2, <1>3, JoinedSame

(* A step keeps the budget when the chunks are within it afterwards. *)
LEMMA BudgetsAgain ==
  ASSUME text' = text, cfg' = cfg, ValidUTF8(text) /\ GapFree /\ OneWidth => Budgeted(chunks')
  PROVE  BudgetInv'
<1>1. /\ ValidUTF8(text)' <=> ValidUTF8(text)
      /\ GapFree' <=> GapFree
      /\ OneWidth' <=> OneWidth
      /\ \A chs : Budgeted(chs)' <=> Budgeted(chs)
  BY BudgetedSame
<1>2. Budgeted(chunks') => Budgeted(chunks)'
  BY <1>1
<1> QED
  BY <1>1, <1>2 DEF BudgetInv

(* A chunk within the budget is added to others within it. *)
LEMMA AddBudgeted ==
  ASSUME text \in Seq(Bytes), NEW chs, Made(chs, 0), Budgeted(chs),
         NEW c, CutFrom(c, 0), Runes(c.start, c.end) <= maxTok * CharsPerToken
  PROVE  Budgeted(Append(chs, c))
<1>1. RuneCount(c.text) <= maxTok * CharsPerToken
  BY TextRunes
<1> DEFINE d == Append(chs, c)
<1>2. /\ DOMAIN d = 1..(Len(chs) + 1) /\ d[Len(chs) + 1] = c
      /\ \A k \in DOMAIN chs : d[k] = chs[k]
      /\ \A k \in 1..(Len(chs) + 1) : k \in DOMAIN chs \/ k = Len(chs) + 1
  BY AddChunk
<1> HIDE DEF d
<1>3. ASSUME NEW k \in DOMAIN d PROVE RuneCount(d[k].text) <= maxTok * CharsPerToken
  <2>1. CASE k \in DOMAIN chs
    BY <1>2, <2>1 DEF Budgeted
  <2>2. CASE k = Len(chs) + 1
    BY <1>1, <1>2, <2>2
  <2> QED
    BY <1>2, <2>1, <2>2
<1> QED
  BY <1>3 DEF Budgeted, d

(* A packed chunk is within the budget. *)
LEMMA PackBudgeted == ASSUME IInv, BudgetInv, PackChunk PROVE BudgetInv'
<1> DEFINE us == top.spans
           i == top.i
           j == growChunk(us, i)
<1>1. /\ pc = "split" /\ Steady /\ frames # <<>> /\ top.kind # "prose"
      /\ i \in 1..Len(us) /\ Tokens(us, i) <= maxTok
  BY PackIs
<1>2. PICK c : Packs(c, us, i, j) /\ chunks' = Append(chunks, c)
  BY PackIs
<1>3. /\ text \in Seq(Bytes) /\ cfg \in Configs /\ text # <<>>
      /\ Nested(frames) /\ Made(chunks, 0) /\ Loop(top) /\ top = Last(frames)
  BY <1>1, TopFacts
<1>4. SUFFICES ASSUME ValidUTF8(text), GapFree, OneWidth PROVE Budgeted(chunks')
  BY <1>1, BudgetsAgain DEF Steady
<1>5. Budgeted(chunks)
  BY <1>4 DEF BudgetInv
<1>6. Contiguous(us) /\ Ordered(us)
  <2>1. Len(frames) \in DOMAIN frames
    BY <1>1, <1>3 DEF Nested
  <2>2. Last(frames) = frames[Len(frames)]
    BY DEF Last
  <2> QED
    BY <1>3, <1>4, <2>1, <2>2, LoopsContiguous, LoopFacts
<1>7. Runes(us[i].start, us[j].end) <= maxTok * CharsPerToken
  BY <1>1, <1>3, <1>6, PackFits
<1>8. CutFrom(c, 0) /\ Runes(c.start, c.end) <= maxTok * CharsPerToken
  BY <1>2, <1>7 DEF Packs
<1> QED
  BY <1>2, <1>3, <1>5, <1>8, AddBudgeted

(* A chunk cut from prose is within the budget. *)
LEMMA CutBudgeted == ASSUME IInv, BudgetInv, CutProse PROVE BudgetInv'
<1> DEFINE span == top.spans[1]
           i == top.i
           e == ProseEnd(span, i)
<1>1. pc = "split" /\ Steady /\ frames # <<>> /\ top.kind = "prose"
  BY CutIs
<1>2. PICK c : CutFrom(c, 0) /\ c.start = i /\ c.end = e /\ chunks' = Append(chunks, c)
  BY CutIs
<1>3. text \in Seq(Bytes) /\ cfg \in Configs /\ Made(chunks, 0) /\ Loop(top)
  BY <1>1, TopFacts
<1>4. SUFFICES ASSUME ValidUTF8(text), GapFree, OneWidth PROVE Budgeted(chunks')
  BY <1>1, BudgetsAgain DEF Steady
<1>5. Budgeted(chunks)
  BY <1>4 DEF BudgetInv
<1>6. span \in Spans /\ Piece(span.start, span.end) /\ i \in span.start..(span.end - 1) /\ Clean(i)
  BY <1>1, <1>3, ProseSpan
<1>7. PICK w : Wide(w)
  BY <1>3, <1>4, HasWidth
<1>8. Runes(i, e) <= maxTok * CharsPerToken
  BY <1>3, <1>6, <1>7, ProseFits
<1> QED
  BY <1>2, <1>3, <1>5, <1>8, AddBudgeted

(* Every step keeps the chunks within the budget. *)
LEMMA BudgetKept == IInv /\ BudgetInv /\ [Next]_vars => BudgetInv'
<1> SUFFICES ASSUME IInv, BudgetInv, [Next]_vars PROVE BudgetInv'
  OBVIOUS
<1>1. ASSUME text' = text, cfg' = cfg, chunks' = chunks PROVE BudgetInv'
  BY <1>1, BudgetsAgain DEF BudgetInv
<1>2. ASSUME Start PROVE BudgetInv'
  BY <1>1, <1>2 DEF Start
<1>3. ASSUME SplitOversize PROVE BudgetInv'
  BY <1>1, <1>3 DEF SplitOversize
<1>4. ASSUME LeaveLoop PROVE BudgetInv'
  BY <1>1, <1>4 DEF LeaveLoop
<1>5. ASSUME UNCHANGED vars PROVE BudgetInv'
  BY <1>1, <1>5 DEF vars
<1>6. ASSUME Finish PROVE BudgetInv'
  <2>1. /\ Steady /\ DOMAIN chunks' = DOMAIN chunks /\ pc = "split"
        /\ \A k \in DOMAIN chunks : chunks'[k] = Shifted(chunks[k])
    BY <1>6, FinishIs
  <2>2. Made(chunks, 0) /\ text \in Seq(Bytes) /\ off \in Nat
    BY <2>1 DEF IInv, Running, TypeOK
  <2>3. \A k \in DOMAIN chunks : chunks'[k].text = chunks[k].text
    BY <2>1, <2>2, ShiftedFrom DEF Made
  <2>4. Budgeted(chunks) => Budgeted(chunks')
    BY <2>1, <2>3 DEF Budgeted
  <2> QED
    BY <2>1, <2>4, BudgetsAgain DEF BudgetInv, Steady
<1> QED
  BY <1>2, <1>3, <1>4, <1>5, <1>6, PackBudgeted, CutBudgeted DEF Next, Step, Terminated

(* Every chunk holds at most MaxTokens of text, where the units leave no gap and all runes
   have one width: the two conditions under which the budget of Split is exact. *)
THEOREM BudgetHolds == Spec => []FitsBudgetOneWidth
<1>1. Init => BudgetInv
  BY DEF Init, BudgetInv, Budgeted
<1>2. BudgetInv => FitsBudgetOneWidth
  BY DEF BudgetInv, FitsBudgetOneWidth, ChunkFitsBudget, Budgeted
<1> QED
  BY <1>1, <1>2, InitIInv, IInvKept, BudgetKept, PTL DEF Spec
==============================================================================
