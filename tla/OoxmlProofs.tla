----------------------------- MODULE OoxmlProofs -----------------------------
(* Proofs about Ooxml for every archive, every budget and every way a decompressor cuts
   what it gives. *)
EXTENDS Ooxml, FiniteSetTheorems, NaturalsInduction, WellFoundedInduction, TLAPS

-------------------------------------------------------------------------------
(* The budget. *)

(* What was taken and what may still be taken make up the budget: the reader of a part
   holds the rest, or the decoder between two parts. *)
Account ==
  /\ budget \in Nat /\ taken \in Nat
  /\ Streaming \/ Buffering => allowance \in Nat /\ taken + allowance = budget
  /\ pc \in {"open", "order", "slides"} => remaining \in Nat /\ taken + remaining = budget
  /\ pc = "done" => taken <= budget + 1
  /\ pc # "done" => outcome = "none"

Places == {"open", "order", "slides", "document", "slide", "notes", "presentation",
           "presentationRels", "rels", "done"}

IInv == pc \in Places /\ Account /\ WithinBudget

(* The invariant holds at the start. *)
LEMMA InitIInv == Init => IInv
  BY OoxmlAssumption DEF Init, IInv, Places, Account, WithinBudget, Streaming, Buffering, Finished

(* Every step of Extract keeps the account. *)
LEMMA StepPreserves == ASSUME IInv, ExtractStep PROVE IInv'
<1> USE DEF IInv, Places, Account, WithinBudget, Streaming, Buffering, Finished, Return
<1>1. CASE OpenArchive
  BY <1>1 DEF OpenArchive, Begin
<1>2. CASE PresentationRead
  BY <1>2 DEF PresentationRead, PartEnds, Charge, Begin
<1>3. CASE PresentationRelsRead
  BY <1>3 DEF PresentationRelsRead, PartEnds, Charge
<1>4. CASE OrderSlides
  BY <1>4 DEF OrderSlides
<1>5. CASE NextSlide
  BY <1>5 DEF NextSlide, Begin
<1>6. CASE SlideRead
  <2>1. /\ pc = "slide" /\ remaining' = allowance
        /\ budget' = budget /\ taken' = taken
    BY <1>6 DEF SlideRead, PartEnds, Charge
  <2>2. /\ pc' = "slides" \/ (pc' = "rels" /\ allowance' = allowance)
        /\ outcome' = outcome
    BY <1>6 DEF SlideRead, Begin, SlideDone
  <2>3. CASE pc' = "slides"
    BY <2>1, <2>2, <2>3
  <2>4. CASE pc' = "rels" /\ allowance' = allowance
    BY <2>1, <2>2, <2>4
  <2> QED
    BY <2>2, <2>3, <2>4
<1>7. CASE RelsRead
  BY <1>7 DEF RelsRead, PartEnds, Charge, Begin, SlideDone
<1>8. CASE NotesRead
  BY <1>8 DEF NotesRead, PartEnds, Charge, SlideDone
<1>9. CASE DocumentRead
  BY <1>9 DEF DocumentRead, PartEnds
<1>10. CASE DeckRead
  BY <1>10 DEF DeckRead
<1>11. CASE ReadPart
  BY <1>11 DEF ReadPart, Proceeds
<1>12. CASE PartFails
  BY <1>12 DEF PartFails, Proceeds
<1>13. CASE DecodeCanceled
  BY <1>13 DEF DecodeCanceled
<1> QED
  BY <1>1, <1>2, <1>3, <1>4, <1>5, <1>6, <1>7, <1>8, <1>9, <1>10, <1>11, <1>12, <1>13 DEF ExtractStep

(* It holds throughout. *)
LEMMA Invariance == Spec => []IInv
<1>1. ASSUME IInv, Cancel \/ UNCHANGED vars PROVE IInv'
  BY <1>1 DEF Cancel, vars, partVars, IInv, Account, WithinBudget, Streaming, Buffering, Finished
<1>2. IInv /\ [Next]_vars => IInv'
  BY <1>1, StepPreserves DEF Next, Terminated
<1> QED
  BY <1>2, InitIInv, PTL DEF Spec

(* However many parts an archive has and whatever they hold, all of them together take
   at most one byte more than the budget, and none more than it when text comes back. *)
THEOREM BudgetNeverExceeded == Spec => []WithinBudget
<1>1. IInv => WithinBudget
  BY DEF IInv
<1> QED
  BY <1>1, Invariance, PTL

-------------------------------------------------------------------------------
(* Sets of places. *)

(* A non-empty set of numbers has a least one. *)
LEMMA Least ==
  ASSUME NEW S \in SUBSET Nat, S # {}
  PROVE  \E x \in S : \A y \in S : x <= y
<1>1. PICK x \in S : \A y \in S : <<y, x>> \notin OpToRel(<, Nat)
  BY WFMin, NatLessThanWellFounded
<1>2. ASSUME NEW y \in S PROVE x <= y
  <2>1. x \in Nat /\ y \in Nat /\ <<y, x>> \notin {ss \in Nat \X Nat : ss[1] < ss[2]}
    BY <1>1 DEF OpToRel
  <2>2. ~(y < x)
    BY <2>1
  <2> QED
    BY <2>1, <2>2
<1> QED
  BY <1>2

(* How many of E are at or before e. *)
Rank(E, e) == Cardinality({x \in E : x <= e})

(* The ranks of a finite set of places are 1, 2, ... without a gap, so each of them
   names one member, and larger members have larger ranks. *)
LEMMA Ranks ==
  ASSUME NEW n \in Nat, NEW E \in SUBSET (1..n)
  PROVE  /\ IsFiniteSet(E) /\ Cardinality(E) \in Nat
         /\ \A e \in E : Rank(E, e) \in 1..Cardinality(E)
         /\ \A e, f \in E : e < f => Rank(E, e) < Rank(E, f)
         /\ \A k \in 1..Cardinality(E) : \E e \in E : Rank(E, e) = k
         /\ n \in E => Rank(E, n) = Cardinality(E)
<1> DEFINE UpTo(e) == {x \in E : x <= e}
<1>0. \A x \in E : x \in Nat /\ 1 <= x /\ x <= n
  OBVIOUS
<1>1. IsFiniteSet(E) /\ Cardinality(E) \in Nat
  <2>1. 1 \in Int /\ n \in Int
    OBVIOUS
  <2> QED
    BY <2>1, FS_Interval, FS_Subset, FS_CardinalityType
<1>2. ASSUME NEW e \in E
      PROVE  /\ IsFiniteSet(UpTo(e)) /\ Cardinality(UpTo(e)) \in Nat
             /\ Cardinality(UpTo(e)) <= Cardinality(E) /\ Cardinality(UpTo(e)) # 0
  <2>1. UpTo(e) \in SUBSET E /\ e \in UpTo(e)
    OBVIOUS
  <2>2. IsFiniteSet(UpTo(e)) /\ Cardinality(UpTo(e)) <= Cardinality(E)
    BY <1>1, <2>1, FS_Subset
  <2> HIDE DEF UpTo
  <2> QED
    BY <2>1, <2>2, FS_CardinalityType, FS_EmptySet
<1>3. \A e \in E : Rank(E, e) \in 1..Cardinality(E)
  BY <1>1, <1>2 DEF Rank
<1>4. ASSUME NEW e \in E, NEW f \in E, e < f PROVE Rank(E, e) < Rank(E, f)
  <2>1. UpTo(e) \in SUBSET UpTo(f) /\ f \in UpTo(f) /\ f \notin UpTo(e)
    <3>1. \A x \in E : x <= e => x <= f
      BY <1>0, <1>4
    <3>2. f <= f /\ ~(f <= e)
      BY <1>0, <1>4
    <3> QED
      BY <3>1, <3>2
  <2>2. Cardinality(UpTo(e)) <= Cardinality(UpTo(f)) /\ Cardinality(UpTo(f)) # Cardinality(UpTo(e))
    <3> HIDE DEF UpTo
    <3> QED
      BY <1>2, <2>1, FS_Subset
  <2> QED
    BY <1>2, <2>2 DEF Rank
<1> DEFINE rank == [e \in E |-> Rank(E, e)]
<1>5. rank \in Injection(E, 1..Cardinality(E))
  <2>1. ASSUME NEW e \in E, NEW f \in E, Rank(E, e) = Rank(E, f) PROVE e = f
    <3>1. ~(e < f) /\ ~(f < e)
      BY <1>1, <1>3, <1>4, <2>1
    <3> QED
      BY <3>1
  <2> QED
    BY <1>3, <2>1 DEF Injection, IsInjective
<1>6. rank \in Surjection(E, 1..Cardinality(E))
  <2>1. 1 \in Int /\ Cardinality(E) \in Int
    BY <1>1
  <2>2. /\ IsFiniteSet(1..Cardinality(E))
        /\ Cardinality(1..Cardinality(E)) =
             IF 1 > Cardinality(E) THEN 0 ELSE Cardinality(E) - 1 + 1
    BY <2>1, FS_Interval
  <2>3. Cardinality(1..Cardinality(E)) = Cardinality(E)
    BY <1>1, <2>2
  <2> HIDE DEF rank
  <2> QED
    BY <1>5, <2>2, <2>3, FS_Injection
<1>7. \A k \in 1..Cardinality(E) : \E e \in E : Rank(E, e) = k
  BY <1>6 DEF Surjection
<1>8. n \in E => Rank(E, n) = Cardinality(E)
  <2>1. {x \in E : x <= n} = E
    BY <1>0
  <2> QED
    BY <2>1 DEF Rank
<1> QED
  BY <1>1, <1>3, <1>4, <1>7, <1>8

(* The n-th member of a set of places. *)
Nth(E, n) == CHOOSE k \in E : Rank(E, k) = n

(* The members of a set of places, counted. *)
LEMMA NthFacts ==
  ASSUME NEW n \in Nat, NEW E \in SUBSET (1..n)
  PROVE  /\ \A i \in 1..Cardinality(E) : Nth(E, i) \in E /\ Rank(E, Nth(E, i)) = i
         /\ \A e \in E : Nth(E, Rank(E, e)) = e
         /\ \A i, j \in 1..Cardinality(E) : i < j => Nth(E, i) < Nth(E, j)
<1>0. \A e \in E : e \in Nat
  OBVIOUS
<1>1. \A i \in 1..Cardinality(E) : Nth(E, i) \in E /\ Rank(E, Nth(E, i)) = i
  BY Ranks DEF Nth
<1>2. ASSUME NEW e \in E, NEW f \in E, Rank(E, e) = Rank(E, f) PROVE e = f
  <2>1. /\ Cardinality(E) \in Nat
        /\ Rank(E, e) \in 1..Cardinality(E) /\ Rank(E, f) \in 1..Cardinality(E)
        /\ e < f => Rank(E, e) < Rank(E, f)
        /\ f < e => Rank(E, f) < Rank(E, e)
    BY Ranks
  <2>2. ~(e < f) /\ ~(f < e)
    BY <1>2, <2>1
  <2> QED
    BY <1>0, <2>2
<1>3. ASSUME NEW e \in E PROVE Nth(E, Rank(E, e)) = e
  <2>1. Nth(E, Rank(E, e)) \in E /\ Rank(E, Nth(E, Rank(E, e))) = Rank(E, e)
    BY DEF Nth
  <2> QED
    BY <1>2, <2>1
<1>4. ASSUME NEW i \in 1..Cardinality(E), NEW j \in 1..Cardinality(E), i < j
      PROVE  Nth(E, i) < Nth(E, j)
  <2>1. Nth(E, i) \in E /\ Nth(E, j) \in E /\ Rank(E, Nth(E, i)) = i /\ Rank(E, Nth(E, j)) = j
    BY <1>1
  <2>2. Nth(E, j) < Nth(E, i) => j < i
    BY <2>1, Ranks
  <2>3. i \in Int /\ j \in Int /\ ~(j < i) /\ i # j
    BY <1>4, Ranks
  <2>4. Nth(E, j) # Nth(E, i) /\ ~(Nth(E, j) < Nth(E, i))
    BY <2>1, <2>2, <2>3
  <2>5. Nth(E, i) \in Nat /\ Nth(E, j) \in Nat
    BY <1>0, <2>1
  <2> QED
    BY <2>4, <2>5
<1> QED
  BY <1>1, <1>3, <1>4

(* At, by the members counted. *)
LEMMA AtNth == ASSUME NEW s, NEW E PROVE At(s, E) = [n \in 1..Cardinality(E) |-> s[Nth(E, n)]]
  BY DEF At, Nth, Rank

(* A non-empty set of places has a largest and a smallest, and Max and Min are they. *)
LEMMA Extremes ==
  ASSUME NEW n \in Nat, NEW S \in SUBSET (1..n), S # {}
  PROVE  /\ Max(S) \in S /\ \A y \in S : y <= Max(S)
         /\ Min(S) \in S /\ \A y \in S : Min(S) <= y
<1>0. \A x \in S : x \in Nat /\ x <= n /\ n - x \in Nat
  OBVIOUS
<1>1. \E x \in S : \A y \in S : x >= y
  <2> DEFINE T == {n - x : x \in S}
  <2>1. T \in SUBSET Nat /\ T # {}
    BY <1>0
  <2>2. PICK t \in T : \A y \in T : t <= y
    <3> HIDE DEF T
    <3> QED
      BY <2>1, Least
  <2>3. PICK x \in S : t = n - x
    OBVIOUS
  <2>4. ASSUME NEW y \in S PROVE x >= y
    <3>1. n - x <= n - y
      BY <2>2, <2>3
    <3> QED
      BY <1>0, <3>1
  <2> QED
    BY <2>4
<1>2. Max(S) \in S /\ \A y \in S : Max(S) >= y
  BY <1>1 DEF Max
<1>3. \E x \in S : \A y \in S : x =< y
  BY <1>0, Least
<1>4. Min(S) \in S /\ \A y \in S : Min(S) =< y
  BY <1>3 DEF Min
<1> QED
  BY <1>0, <1>2, <1>4

-------------------------------------------------------------------------------
(* The order of the slides. *)

(* The files of an archive, counted. *)
LEMMA FilesFacts ==
  ASSUME archive \in Archives
  PROVE  /\ files \in Seq(Entries) /\ Len(files) \in Nat /\ DOMAIN files = 1..Len(files)
         /\ archive.kind \in {"pptx", "docx"}
         /\ \A i \in DOMAIN files : Entry(i) \in Entries
<1>1. archive \in [kind : {"pptx", "docx"}, zip : BOOLEAN, files : Seq(Entries)]
  BY OoxmlAssumption
<1>2. files \in Seq(Entries) /\ archive.kind \in {"pptx", "docx"}
  BY <1>1 DEF files
<1> QED
  BY <1>2 DEF Entry

(* An entry that is looked up by name has that name. *)
LEMMA NamedFacts ==
  ASSUME archive \in Archives, NEW s, Named(s) # {}
  PROVE  /\ byName(s) \in DOMAIN files /\ Entry(byName(s)).name = s /\ byName(s) \in Named(s)
         /\ Min(Named(s)) \in DOMAIN files /\ Entry(Min(Named(s))).name = s
<1>1. Named(s) \in SUBSET (1..Len(files)) /\ Len(files) \in Nat
  BY FilesFacts DEF Named
<1>2. Max(Named(s)) \in Named(s) /\ Min(Named(s)) \in Named(s)
  BY <1>1, Extremes
<1> QED
  BY <1>2 DEF byName, Named, Entry

(* The names with an entry among those the presentation mentions. *)
Found(names) == {k \in DOMAIN names : names[k] \in SlideParts /\ Named(names[k]) # {}}

(* The slides found are entries with the names that were looked up. *)
LEMMA PresentFacts ==
  ASSUME archive \in Archives, NEW m \in Nat, NEW names, DOMAIN names = 1..m
  PROVE  /\ Found(names) \in SUBSET (1..m) /\ Cardinality(Found(names)) \in Nat
         /\ DOMAIN Present(names) = 1..Cardinality(Found(names))
         /\ Present(names) \in Seq(DOMAIN files)
         /\ \A n \in 1..Cardinality(Found(names)) :
              /\ Entry(Present(names)[n]).name = names[Nth(Found(names), n)]
              /\ Present(names)[n] = byName(names[Nth(Found(names), n)])
<1> DEFINE P == Found(names)
           p == Cardinality(P)
<1>1. P \in SUBSET (1..m) /\ p \in Nat
  <2>1. P \in SUBSET (1..m)
    BY DEF Found
  <2> QED
    BY <2>1, Ranks
<1>2. At(names, P) = [n \in 1..p |-> names[Nth(P, n)]]
  BY AtNth
<1>3. Present(names) = [n \in 1..p |-> byName(names[Nth(P, n)])]
  BY <1>2 DEF Present, Found
<1>4. ASSUME NEW n \in 1..p
      PROVE  /\ Present(names)[n] \in DOMAIN files
             /\ Entry(Present(names)[n]).name = names[Nth(P, n)]
             /\ Present(names)[n] = byName(names[Nth(P, n)])
  <2>1. Nth(P, n) \in P
    BY <1>1, NthFacts
  <2>2. Named(names[Nth(P, n)]) # {}
    BY <2>1 DEF Found
  <2> QED
    BY <1>3, <2>2, NamedFacts
<1> HIDE DEF P, p
<1>5. Present(names) \in Seq(DOMAIN files)
  BY <1>1, <1>3, <1>4
<1> QED
  BY <1>1, <1>3, <1>4, <1>5 DEF P, p

(* The slide parts with a number. *)
Numbered == {i \in DOMAIN files : files[i].name \in SlideParts /\ number[files[i].name] # NoNumber}

(* The numbered slides, all of them, ascending. *)
LEMMA NumberedFacts ==
  ASSUME archive \in Archives, NEW order \in sortedSlides
  PROVE  /\ order \in Seq(Numbered) /\ order \in Seq(DOMAIN files)
         /\ \A i \in Numbered : \E k \in 1..Len(order) : order[k] = i
         /\ \A j, k \in 1..Len(order) :
              j < k => number[Entry(order[j]).name] <= number[Entry(order[k]).name]
<1> DEFINE c == Cardinality(Numbered)
<1>1. Numbered \in SUBSET (1..Len(files)) /\ Numbered \in SUBSET (DOMAIN files)
  BY FilesFacts DEF Numbered
<1>2. c \in Nat /\ IsFiniteSet(Numbered)
  BY <1>1, FilesFacts, Ranks
<1>3. /\ order \in [1..c -> Numbered] /\ \A i, j \in 1..c : i # j => order[i] # order[j]
      /\ \A j, k \in DOMAIN order : j < k => number[files[order[j]].name] <= number[files[order[k]].name]
  BY DEF sortedSlides, SetToSeqs, Numbered
<1>4. order \in Surjection(1..c, Numbered)
  <2>1. order \in Injection(1..c, Numbered)
    BY <1>3 DEF Injection, IsInjective
  <2>2. /\ IsFiniteSet(1..c)
        /\ Cardinality(1..c) = IF 1 > c THEN 0 ELSE c - 1 + 1
    BY <1>2, FS_Interval
  <2>3. Cardinality(1..c) = c
    BY <1>2, <2>2
  <2> HIDE DEF c
  <2> QED
    BY <1>2, <2>1, <2>2, <2>3, FS_Injection DEF c
<1> HIDE DEF c
<1>5. \A i \in Numbered : \E k \in 1..c : order[k] = i
  BY <1>4 DEF Surjection
<1>6. order \in Seq(Numbered) /\ Len(order) = c /\ DOMAIN order = 1..c
  BY <1>2, <1>3
<1>7. order \in Seq(DOMAIN files)
  BY <1>1, <1>2, <1>3
<1> QED
  BY <1>3, <1>5, <1>6, <1>7 DEF Entry
(* The places at which a name comes for the first time. *)
Firsts(order) ==
  {k \in DOMAIN order : \A j \in 1..(k - 1) : files[order[j]].name # files[order[k]].name}

(* Of each name the first place is kept, and no other. *)
LEMMA FirstsFacts ==
  ASSUME NEW order \in Seq(DOMAIN files)
  PROVE  /\ Firsts(order) \in SUBSET (1..Len(order)) /\ Cardinality(Firsts(order)) \in Nat
         /\ OncePerName(order) = [n \in 1..Cardinality(Firsts(order)) |-> order[Nth(Firsts(order), n)]]
         /\ OncePerName(order) \in Seq(DOMAIN files)
         /\ \A x \in 1..Len(order) : \E f \in Firsts(order) :
              f <= x /\ Entry(order[f]).name = Entry(order[x]).name
         /\ \A f \in Firsts(order) : \A j \in 1..Len(order) :
              j < f => Entry(order[j]).name # Entry(order[f]).name
<1> DEFINE F == Firsts(order)
<1>0. Len(order) \in Nat /\ DOMAIN order = 1..Len(order) /\ \A x \in 1..Len(order) : order[x] \in DOMAIN files
  OBVIOUS
<1>1. F \in SUBSET (1..Len(order))
  BY DEF Firsts
<1>2. Cardinality(F) \in Nat
  BY <1>0, <1>1, Ranks
<1>3. OncePerName(order) = [n \in 1..Cardinality(F) |-> order[Nth(F, n)]]
  BY AtNth DEF OncePerName, Firsts
<1>4. \A n \in 1..Cardinality(F) : order[Nth(F, n)] \in DOMAIN files
  <2> HIDE DEF F
  <2>1. \A n \in 1..Cardinality(F) : Nth(F, n) \in F
    BY <1>0, <1>1, NthFacts
  <2> QED
    BY <1>0, <1>1, <2>1
<1>5. OncePerName(order) \in Seq(DOMAIN files)
  <2> HIDE DEF F
  <2> QED
    BY <1>2, <1>3, <1>4
<1>6. ASSUME NEW f \in F, NEW j \in 1..Len(order), j < f
      PROVE  Entry(order[j]).name # Entry(order[f]).name
  <2>1. f \in 1..Len(order)
    BY <1>1
  <2>2. j \in 1..(f - 1)
    BY <1>0, <1>6, <2>1
  <2> QED
    BY <2>2 DEF Firsts, Entry
<1>7. ASSUME NEW x \in 1..Len(order)
      PROVE  \E f \in F : f <= x /\ Entry(order[f]).name = Entry(order[x]).name
  <2> DEFINE T == {y \in 1..Len(order) : Entry(order[y]).name = Entry(order[x]).name}
  <2>1. T \in SUBSET Nat /\ x \in T
    BY <1>0
  <2>2. PICK f \in T : \A y \in T : f <= y
    BY <2>1, Least
  <2>3. f \in 1..Len(order) /\ f <= x /\ Entry(order[f]).name = Entry(order[x]).name
    BY <2>1, <2>2
  <2>4. ASSUME NEW j \in 1..(f - 1) PROVE Entry(order[j]).name # Entry(order[f]).name
    <3>1. j \in 1..Len(order) /\ ~(f <= j)
      BY <1>0, <2>3
    <3> QED
      BY <2>2, <2>3, <3>1
  <2>5. f \in F
    BY <1>0, <2>3, <2>4 DEF Firsts, Entry
  <2> QED
    BY <2>3, <2>5
<1> QED
  BY <1>1, <1>2, <1>3, <1>5, <1>6, <1>7

(* Where the presentation mentions a name. *)
Mention(s) == {m \in DOMAIN Mentioned : Mentioned[m] = s}

(* One entry belongs before another in the deck. *)
Before(i, j) ==
  LET a == Entry(i).name
      b == Entry(j).name
  IN  /\ a # b
      /\ IF Mention(b) # {} THEN Mention(a) # {} /\ Min(Mention(a)) < Min(Mention(b))
         ELSE Mention(a) # {} \/ number[a] <= number[b]

(* The slides found come in the order in which they are mentioned. *)
LEMMA MentionOrder ==
  ASSUME archive \in Archives, NEW m \in Nat, DOMAIN Mentioned = 1..m,
         NEW x \in 1..Cardinality(Found(Mentioned))
  PROVE  LET s == Mentioned[Nth(Found(Mentioned), x)]
         IN  /\ Mention(s) # {} /\ s \in SlideParts /\ Named(s) # {}
             /\ Min(Mention(s)) \in Found(Mentioned) /\ Mentioned[Min(Mention(s))] = s
             /\ Rank(Found(Mentioned), Min(Mention(s))) \in 1..x
             /\ Min(Mention(s)) <= Nth(Found(Mentioned), x)
             /\ Min(Mention(s)) \in Nat
<1> DEFINE P == Found(Mentioned)
           k == Nth(P, x)
           s == Mentioned[k]
           l == Min(Mention(s))
<1>1. P \in SUBSET (1..m) /\ Cardinality(P) \in Nat
  BY PresentFacts
<1>2. k \in P /\ Rank(P, k) = x
  BY <1>1, NthFacts
<1>3. s \in SlideParts /\ Named(s) # {} /\ k \in Mention(s) /\ k \in 1..m
  BY <1>1, <1>2 DEF Found, Mention
<1>4. Mention(s) \in SUBSET (1..m)
  BY DEF Mention
<1>5. l \in Mention(s) /\ l <= k
  <2> HIDE DEF s, k, P
  <2> QED
    BY <1>3, <1>4, Extremes
<1>6. Mentioned[l] = s /\ l \in 1..m
  BY <1>4, <1>5 DEF Mention
<1>7. l \in P
  BY <1>3, <1>6 DEF Found
<1>8. Rank(P, l) \in 1..Cardinality(P) /\ (l < k => Rank(P, l) < Rank(P, k))
  <2> HIDE DEF P, k, l, s
  <2> QED
    BY <1>1, <1>2, <1>7, Ranks
<1>9. Rank(P, l) \in 1..x
  <2> HIDE DEF P, l, s
  <2>1. l \in Nat /\ k \in Nat
    BY <1>3, <1>6
  <2>2. l < k \/ l = k
    BY <1>5, <2>1
  <2> HIDE DEF k
  <2> QED
    BY <1>1, <1>2, <1>8, <2>2
<1> QED
  BY <1>3, <1>5, <1>6, <1>7, <1>9

(* A slide is read from one of the entries it may be read from. *)
Chosen(i) == i \in SlideEntries(Entry(i).name)

(* What Extract walks through: every slide once, those mentioned first and in that order,
   the others by number. *)
LEMMA SlidesOrdered ==
  ASSUME archive \in Archives, NEW m \in Nat, DOMAIN Mentioned = 1..m,
         ordered = Mentioned, NEW numbered \in sortedSlides, NEW order, order = resolveOrder(numbered)
  PROVE  /\ order \in Seq(DOMAIN files)
         /\ \A i \in 1..Len(order) : Entry(order[i]).name \in SlideParts
         /\ \A i, j \in 1..Len(order) : i < j => Before(order[i], order[j])
         /\ \A s : Wanted(s) <=> \E i \in 1..Len(order) : Entry(order[i]).name = s
         /\ \A i \in 1..Len(order) : Chosen(order[i])
<1> DEFINE P == Found(Mentioned)
           p == Cardinality(P)
           q == Len(numbered)
           L == Present(Mentioned) \o numbered
           F == Firsts(L)
           c == Cardinality(F)
<1>1. /\ P \in SUBSET (1..m) /\ p \in Nat /\ Present(Mentioned) \in Seq(DOMAIN files)
      /\ DOMAIN Present(Mentioned) = 1..p
      /\ \A n \in 1..p : /\ Entry(Present(Mentioned)[n]).name = Mentioned[Nth(P, n)]
                         /\ Present(Mentioned)[n] = byName(Mentioned[Nth(P, n)])
  BY PresentFacts
<1>2. /\ numbered \in Seq(DOMAIN files) /\ q \in Nat
      /\ \A i \in Numbered : \E k \in 1..q : numbered[k] = i
      /\ \A j, k \in 1..q : j < k => number[Entry(numbered[j]).name] <= number[Entry(numbered[k]).name]
      /\ \A k \in 1..q : numbered[k] \in Numbered
  <2>1. /\ numbered \in Seq(Numbered) /\ numbered \in Seq(DOMAIN files)
        /\ \A i \in Numbered : \E k \in 1..Len(numbered) : numbered[k] = i
        /\ \A j, k \in 1..Len(numbered) :
             j < k => number[Entry(numbered[j]).name] <= number[Entry(numbered[k]).name]
    BY NumberedFacts
  <2>2. q \in Nat /\ \A k \in 1..q : numbered[k] \in Numbered
    BY <2>1
  <2> QED
    BY <2>1, <2>2
<1>3. /\ L \in Seq(DOMAIN files) /\ Len(L) = p + q
      /\ \A x \in 1..p : L[x] = Present(Mentioned)[x]
      /\ \A x \in 1..(p + q) : x > p => x - p \in 1..q /\ L[x] = numbered[x - p]
      /\ \A k \in 1..q : p + k \in 1..(p + q) /\ L[p + k] = numbered[k]
      /\ \A x \in 1..p : x \in 1..(p + q)
  <2> DEFINE pres == Present(Mentioned)
  <2>1. Len(pres) = p
    BY <1>1
  <2> HIDE DEF pres, p
  <2>2. pres \in Seq(DOMAIN files) /\ numbered \in Seq(DOMAIN files)
    BY <1>1, <1>2 DEF pres
  <2>3. /\ pres \o numbered \in Seq(DOMAIN files) /\ Len(pres \o numbered) = p + q
        /\ \A x \in 1..(p + q) : (pres \o numbered)[x] = IF x <= p THEN pres[x] ELSE numbered[x - p]
    BY <2>1, <2>2
  <2>4. p \in Nat
    BY <1>1 DEF p
  <2>5. /\ \A x \in 1..p : x \in 1..(p + q) /\ x <= p
        /\ \A x \in 1..(p + q) : x > p => x - p \in 1..q /\ ~(x <= p)
        /\ \A k \in 1..q : p + k \in 1..(p + q) /\ ~(p + k <= p) /\ p + k - p = k
    BY <1>2, <2>4
  <2> HIDE DEF q
  <2>6. /\ \A x \in 1..p : (pres \o numbered)[x] = pres[x]
        /\ \A x \in 1..(p + q) : x > p => (pres \o numbered)[x] = numbered[x - p]
        /\ \A k \in 1..q : (pres \o numbered)[p + k] = numbered[k]
    <3>1. /\ \A x \in 1..p : (pres \o numbered)[x] = pres[x]
          /\ \A x \in 1..(p + q) : x > p => (pres \o numbered)[x] = numbered[x - p]
      BY <2>3, <2>5
    <3>2. ASSUME NEW k \in 1..q PROVE (pres \o numbered)[p + k] = numbered[k]
      <4>1. PICK x : x = p + k
        OBVIOUS
      <4>2. x \in 1..(p + q) /\ ~(x <= p) /\ x - p = k
        <5>1. p \in Nat /\ q \in Nat
          BY <1>2, <2>4 DEF q
        <5>2. k \in Nat
          BY <5>1
        <5> HIDE DEF p, q
        <5>3. x \in Nat /\ x - p = k /\ (x <= p => k <= 0)
          BY <4>1, <5>1, <5>2
        <5> QED
          BY <4>1, <5>1, <5>2, <5>3
      <4>3. (pres \o numbered)[x] = numbered[k]
        BY <2>3, <4>2
      <4> QED
        BY <4>1, <4>3
    <3> QED
      BY <3>1, <3>2
  <2>7. L = pres \o numbered
    BY DEF pres
  <2> HIDE DEF L
  <2> QED
    BY <2>3, <2>5, <2>6, <2>7 DEF pres
<1> HIDE DEF L, p, q
<1>4. /\ F \in SUBSET (1..(p + q)) /\ c \in Nat
      /\ order = [n \in 1..c |-> L[Nth(F, n)]] /\ order \in Seq(DOMAIN files)
      /\ \A x \in 1..(p + q) : \E f \in F : f <= x /\ Entry(L[f]).name = Entry(L[x]).name
      /\ \A f \in F : \A j \in 1..(p + q) : j < f => Entry(L[j]).name # Entry(L[f]).name
  <2>1. order = OncePerName(L)
    BY DEF resolveOrder, L
  <2>2. /\ F \in SUBSET (1..Len(L)) /\ c \in Nat
        /\ OncePerName(L) = [n \in 1..c |-> L[Nth(F, n)]] /\ OncePerName(L) \in Seq(DOMAIN files)
        /\ \A x \in 1..Len(L) : \E f \in F : f <= x /\ Entry(L[f]).name = Entry(L[x]).name
        /\ \A f \in F : \A j \in 1..Len(L) : j < f => Entry(L[j]).name # Entry(L[f]).name
    BY <1>3, FirstsFacts
  <2> HIDE DEF F, c
  <2> QED
    BY <1>3, <2>1, <2>2
<1>5. /\ \A i \in 1..c : Nth(F, i) \in F /\ Nth(F, i) \in 1..(p + q) /\ Nth(F, i) \in Nat
      /\ \A i, j \in 1..c : i < j => Nth(F, i) < Nth(F, j)
      /\ \A f \in F : Rank(F, f) \in 1..c /\ Nth(F, Rank(F, f)) = f
      /\ Len(order) = c
  <2>1. p + q \in Nat
    BY <1>1, <1>2 DEF p
  <2>2. Len(order) = c
    <3> HIDE DEF F, c
    <3> QED
      BY <1>4
  <2>3. \A x \in 1..(p + q) : x \in Nat
    BY <2>1
  <2> HIDE DEF F
  <2>4. /\ \A i \in 1..c : Nth(F, i) \in F
        /\ \A i, j \in 1..c : i < j => Nth(F, i) < Nth(F, j)
        /\ \A f \in F : Rank(F, f) \in 1..c /\ Nth(F, Rank(F, f)) = f
    BY <1>4, <2>1, NthFacts, Ranks
  <2> QED
    BY <1>4, <2>2, <2>3, <2>4
<1> HIDE DEF F
<1> DEFINE nm(x) == Entry(L[x]).name
<1>6. ASSUME NEW x \in 1..(p + q)
      PROVE  /\ x <= p => nm(x) = Mentioned[Nth(P, x)] /\ nm(x) \in SlideParts /\ Mention(nm(x)) # {}
             /\ x > p => x - p \in 1..q /\ L[x] \in Numbered /\ nm(x) \in SlideParts /\ number[nm(x)] # NoNumber
             /\ Wanted(nm(x))
  <2>1. CASE x <= p
    <3>1. x \in 1..p
      BY <1>1, <1>2, <2>1 DEF p
    <3>2. nm(x) = Mentioned[Nth(P, x)]
      BY <1>1, <1>3, <3>1 DEF p
    <3>3. nm(x) \in SlideParts /\ Named(nm(x)) # {} /\ Mention(nm(x)) # {}
      BY <3>1, <3>2, MentionOrder DEF p
    <3>4. nm(x) \in ToSet(Mentioned)
      BY <3>3 DEF Mention, ToSet
    <3>5. ~(x > p)
      BY <1>1, <2>1 DEF p
    <3> QED
      BY <3>2, <3>3, <3>4, <3>5 DEF Wanted
  <2>2. CASE ~(x <= p)
    <3>1. x > p
      BY <1>1, <1>2, <2>2 DEF p
    <3>2. x - p \in 1..q /\ L[x] = numbered[x - p]
      BY <1>3, <3>1
    <3>3. L[x] \in Numbered
      BY <1>2, <3>2
    <3>4. L[x] \in DOMAIN files /\ nm(x) \in SlideParts /\ number[nm(x)] # NoNumber /\ L[x] \in Named(nm(x))
      BY <3>3 DEF Numbered, Entry, Named
    <3> QED
      BY <2>2, <3>2, <3>3, <3>4 DEF Wanted
  <2> QED
    BY <2>1, <2>2
<1>7. ASSUME NEW i \in 1..c PROVE Entry(order[i]).name \in SlideParts
  <2>1. order[i] = L[Nth(F, i)] /\ Nth(F, i) \in 1..(p + q)
    BY <1>4, <1>5
  <2>2. nm(Nth(F, i)) \in SlideParts
    BY <1>1, <1>2, <1>6, <2>1 DEF Wanted
  <2> QED
    BY <2>1, <2>2
<1>8. ASSUME NEW s PROVE Wanted(s) <=> \E i \in 1..c : Entry(order[i]).name = s
  <2>1. ASSUME NEW i \in 1..c, Entry(order[i]).name = s PROVE Wanted(s)
    <3>1. nm(Nth(F, i)) = s /\ Nth(F, i) \in 1..(p + q)
      BY <1>4, <1>5, <2>1
    <3> QED
      BY <1>6, <3>1
  <2>2. ASSUME Wanted(s) PROVE \E x \in 1..(p + q) : nm(x) = s
    <3>1. CASE s \in ToSet(Mentioned)
      <4>1. PICK k \in 1..m : Mentioned[k] = s
        BY <3>1 DEF ToSet
      <4>2. k \in P
        BY <2>2, <4>1 DEF Wanted, Found
      <4>3. Rank(P, k) \in 1..p /\ Nth(P, Rank(P, k)) = k
        <5> HIDE DEF P
        <5> QED
          BY <1>1, <4>2, Ranks, NthFacts DEF p
      <4>4. nm(Rank(P, k)) = s
        BY <1>1, <1>3, <4>1, <4>3 DEF p
      <4> QED
        BY <1>3, <4>3, <4>4
    <3>2. CASE number[s] # NoNumber
      <4>1. PICK i \in DOMAIN files : files[i].name = s
        BY <2>2 DEF Wanted, Named
      <4>2. i \in Numbered
        BY <2>2, <3>2, <4>1 DEF Numbered, Wanted
      <4>3. PICK k \in 1..q : numbered[k] = i
        BY <1>2, <4>2
      <4>4. nm(p + k) = s
        BY <1>3, <4>1, <4>3 DEF Entry
      <4> QED
        BY <1>3, <4>3, <4>4
    <3> QED
      BY <2>2, <3>1, <3>2 DEF Wanted
  <2>3. ASSUME NEW x \in 1..(p + q), nm(x) = s PROVE \E i \in 1..c : Entry(order[i]).name = s
    <3>1. PICK f \in F : nm(f) = s
      BY <1>4, <2>3
    <3>2. Rank(F, f) \in 1..c /\ Nth(F, Rank(F, f)) = f
      BY <1>5, <3>1
    <3>3. order[Rank(F, f)] = L[f]
      BY <1>4, <3>2
    <3> QED
      BY <3>1, <3>2, <3>3
  <2> QED
    BY <2>1, <2>2, <2>3
<1>9. ASSUME NEW i \in 1..c, NEW j \in 1..c, i < j PROVE Before(order[i], order[j])
  <2> DEFINE x == Nth(F, i)
             y == Nth(F, j)
             a == nm(x)
             b == nm(y)
  <2>1. x \in F /\ y \in F /\ x \in 1..(p + q) /\ y \in 1..(p + q) /\ x < y /\ x \in Nat /\ y \in Nat
    BY <1>5, <1>9
  <2>2. order[i] = L[x] /\ order[j] = L[y]
    BY <1>4
  <2>3. a # b
    BY <1>4, <2>1
  <2> HIDE DEF x, y
  <2>4. p \in Nat /\ q \in Nat
    BY <1>1, <1>2 DEF p
  <2>5. ASSUME Mention(b) # {} PROVE y <= p
    <3>1. PICK k \in 1..m : Mentioned[k] = b
      BY <2>5 DEF Mention
    <3>2. b \in SlideParts /\ Named(b) # {}
      BY <1>6, <2>1 DEF Wanted
    <3>3. k \in P
      BY <3>1, <3>2 DEF Found
    <3>4. Rank(P, k) \in 1..p /\ Nth(P, Rank(P, k)) = k
      <4> HIDE DEF P
      <4> QED
        BY <1>1, <3>3, Ranks, NthFacts DEF p
    <3>5. nm(Rank(P, k)) = b /\ Rank(P, k) \in 1..(p + q)
      BY <1>1, <1>3, <3>1, <3>4 DEF p
    <3>6. ~(Rank(P, k) < y)
      BY <1>4, <2>1, <3>5
    <3>7. Rank(P, k) \in Nat /\ Rank(P, k) <= p
      BY <2>4, <3>4
    <3> QED
      BY <2>1, <2>4, <3>6, <3>7
  <2>6. CASE Mention(b) # {}
    <3>1. x \in 1..p /\ y \in 1..p
      BY <2>1, <2>4, <2>5, <2>6
    <3>2. a = Mentioned[Nth(P, x)] /\ b = Mentioned[Nth(P, y)]
      BY <1>1, <1>3, <3>1 DEF p
    <3>3. /\ Mention(a) # {} /\ Min(Mention(a)) <= Nth(P, x) /\ Min(Mention(a)) \in Nat
          /\ Min(Mention(b)) \in P /\ Mentioned[Min(Mention(b))] = b /\ Min(Mention(b)) \in Nat
          /\ Rank(P, Min(Mention(b))) \in 1..y
      BY <3>1, <3>2, MentionOrder DEF p
    <3>4. /\ Rank(P, Min(Mention(b))) \in 1..p /\ Nth(P, Rank(P, Min(Mention(b)))) = Min(Mention(b))
          /\ Nth(P, x) < Nth(P, y) /\ Nth(P, x) \in P
      <4> HIDE DEF P, a, b
      <4> QED
        BY <1>1, <2>1, <3>1, <3>3, Ranks, NthFacts DEF p
    <3> DEFINE r == Rank(P, Min(Mention(b)))
    <3>5. nm(r) = b /\ r \in 1..(p + q)
      BY <1>1, <1>3, <3>3, <3>4 DEF p
    <3>6. ~(r < y)
      BY <1>4, <2>1, <3>5
    <3>7. r = y
      <4> HIDE DEF r
      <4>1. r \in 1..y
        BY <3>3 DEF r
      <4> QED
        BY <2>1, <3>6, <4>1
    <3>8. Min(Mention(b)) = Nth(P, y)
      BY <3>4, <3>7
    <3>9. Nth(P, x) \in Nat
      BY <1>1, <3>4
    <3>10. Min(Mention(a)) < Min(Mention(b))
      <4> HIDE DEF a, b, P
      <4> QED
        BY <3>3, <3>4, <3>8, <3>9
    <3> QED
      BY <2>2, <2>3, <2>6, <3>3, <3>10 DEF Before
  <2>7. CASE Mention(b) = {} /\ x <= p
    <3>1. Mention(a) # {}
      BY <1>6, <2>1, <2>7
    <3> QED
      BY <2>2, <2>3, <2>7, <3>1 DEF Before
  <2>8. CASE Mention(b) = {} /\ x > p
    <3>1. y > p /\ x - p < y - p
      BY <2>1, <2>4, <2>8
    <3>2. x - p \in 1..q /\ y - p \in 1..q /\ L[x] = numbered[x - p] /\ L[y] = numbered[y - p]
      BY <1>3, <2>1, <2>8, <3>1
    <3>3. number[a] <= number[b]
      <4> DEFINE xp == x - p
                 yp == y - p
      <4>1. xp \in 1..q /\ yp \in 1..q /\ xp < yp /\ L[x] = numbered[xp] /\ L[y] = numbered[yp]
        BY <3>1, <3>2
      <4> HIDE DEF xp, yp
      <4> QED
        BY <1>2, <4>1
    <3> QED
      BY <2>2, <2>3, <2>8, <3>3 DEF Before
  <2>9. x <= p \/ x > p
    BY <2>1, <2>4
  <2> QED
    BY <2>6, <2>7, <2>8, <2>9
<1>10. ASSUME NEW i \in 1..c PROVE Chosen(order[i])
  <2> DEFINE x == Nth(F, i)
             s == nm(x)
  <2>1. x \in F /\ x \in 1..(p + q) /\ x \in Nat /\ order[i] = L[x] /\ Wanted(s)
    BY <1>4, <1>5, <1>6
  <2> HIDE DEF x
  <2>2. p \in Nat /\ q \in Nat
    BY <1>1, <1>2 DEF p
  <2>3. CASE s \in ToSet(Mentioned)
    <3>1. PICK k \in 1..m : Mentioned[k] = s
      BY <2>3 DEF ToSet
    <3>2. k \in P
      BY <2>1, <3>1 DEF Found, Wanted
    <3>3. Rank(P, k) \in 1..p /\ Nth(P, Rank(P, k)) = k
      <4> HIDE DEF P
      <4> QED
        BY <1>1, <3>2, Ranks, NthFacts DEF p
    <3>4. nm(Rank(P, k)) = s /\ Rank(P, k) \in 1..(p + q)
      BY <1>1, <1>3, <3>1, <3>3 DEF p
    <3>5. ~(Rank(P, k) < x)
      BY <1>4, <2>1, <3>4
    <3>6. x \in 1..p
      <4>1. Rank(P, k) \in Nat /\ Rank(P, k) <= p
        BY <2>2, <3>3
      <4> QED
        BY <2>1, <2>2, <3>5, <4>1
    <3>7. L[x] = byName(Mentioned[Nth(P, x)]) /\ s = Mentioned[Nth(P, x)]
      BY <1>1, <1>3, <3>6 DEF p
    <3> QED
      BY <2>1, <2>3, <3>7 DEF Chosen, SlideEntries
  <2>4. CASE s \notin ToSet(Mentioned)
    <3>1. L[x] \in DOMAIN files
      BY <1>3, <2>1
    <3> QED
      BY <2>1, <2>4, <3>1 DEF Chosen, SlideEntries, Named, Entry
  <2> QED
    BY <2>3, <2>4
<1> QED
  BY <1>4, <1>5, <1>7, <1>8, <1>9, <1>10
-------------------------------------------------------------------------------
(* The walk through a deck. *)

(* The slides t[j] that were written and the entries r that are still ahead are the deck,
   in its order. *)
Arranged(t, r) ==
  /\ \A j, k \in 1..Len(t) :
       j < k /\ t[j].part = "slide" /\ t[k].part = "slide" => Before(t[j].entry, t[k].entry)
  /\ \A j \in 1..Len(t), i \in 1..Len(r) : t[j].part = "slide" => Before(t[j].entry, r[i])
  /\ \A i, j \in 1..Len(r) : i < j => Before(r[i], r[j])
  /\ \A s : Wanted(s) <=> \/ \E k \in 1..Len(t) : t[k].part = "slide" /\ Entry(t[k].entry).name = s
                          \/ \E i \in 1..Len(r) : Entry(r[i]).name = s

(* The notes at place k are those of the slide in front of them. *)
OwnNotes(t, k) ==
  /\ t[k].part = "notes" /\ k - 1 \in 1..Len(t) /\ t[k - 1].part = "slide"
  /\ Notes(Entry(t[k - 1].entry).name) = {Entry(t[k].entry).name}
  /\ t[k].entry = byName(Entry(t[k].entry).name)

(* The slide at place k has no notes, or its notes are behind it. *)
Noted(t, k) ==
  \/ Notes(Entry(t[k].entry).name) = {}
  \/ k + 1 \in 1..Len(t) /\ t[k + 1].part # "slide"

(* Only of the slide at the place open the notes may still be missing. *)
NotesFollow(t, open) ==
  \A k \in 1..Len(t) :
    IF t[k].part = "slide" THEN Noted(t, k) \/ k = open ELSE OwnNotes(t, k)

(* What may be written. *)
Writing == [part : {"slide", "notes", "document"}, entry : DOMAIN files]

(* The slides are in order and not all are done. *)
Walking == pc \in {"slides", "slide", "rels", "notes"}

(* There is a presentation to give an order. *)
Listed == Named("presentation") # {} /\ Named("presentationRels") # {}

(* Where a step of Extract stands, and what it holds there. *)
Walk ==
  /\ archive \in Archives
  /\ slides \in Seq(DOMAIN files) /\ \A i \in 1..Len(slides) : Entry(slides[i]).name \in SlideParts
  /\ text \in Seq(Writing)
  /\ Streaming \/ Buffering => at \in DOMAIN files /\ unread \in 0..Entry(at).size
  /\ pc \in {"open", "document", "presentation", "presentationRels", "order"} => text = <<>>
  /\ Walking \/ pc \in {"presentation", "presentationRels", "order"} => archive.kind = "pptx"
  /\ pc = "open" => ordered = <<>>
  /\ pc = "document" =>
       archive.kind = "docx" /\ Named("document") # {} /\ at = Min(Named("document"))
  /\ pc = "presentation" => Listed /\ at = byName("presentation")
  /\ pc = "presentationRels" => Listed /\ at = byName("presentationRels")
  /\ pc = "order" => ordered = Mentioned
  /\ pc \in {"slide", "rels", "notes"} => slides # <<>>
  /\ pc = "slide" => at = slides[1]
  /\ pc \in {"rels", "notes"} =>
       /\ text # <<>> /\ text[Len(text)] = [part |-> "slide", entry |-> slides[1]]
       /\ Named(relsOf[Entry(slides[1]).name]) # {}
  /\ pc = "rels" => at = byName(relsOf[Entry(slides[1]).name])
  /\ pc = "notes" => Notes(Entry(slides[1]).name) = {Entry(at).name} /\ at = byName(Entry(at).name)
                     /\ Named(Entry(at).name) # {}
  /\ Finished /\ archive.kind = "pptx" => slides = <<>>
  /\ pc # "done" => outcome = "none"

(* The slides ahead: a slide is written before it is taken off the list. *)
Ahead == IF pc \in {"rels", "notes"} THEN Tail(slides) ELSE slides

(* The place of the slide whose notes are looked for. *)
Open == IF pc \in {"rels", "notes"} THEN Len(text) ELSE 0

(* What is written and what is ahead is the deck. *)
Deck ==
  Walking \/ (Finished /\ archive.kind = "pptx") => Arranged(text, Ahead) /\ NotesFollow(text, Open)

(* What is said of an archive does not change while it is read. *)
LEMMA SameArchive ==
  ASSUME archive' = archive
  PROVE  /\ files' = files /\ Mentioned' = Mentioned /\ Writing' = Writing /\ Listed' = Listed
         /\ OrderCost' = OrderCost
         /\ \A i : Entry(i)' = Entry(i)
         /\ \A s : Named(s)' = Named(s) /\ byName(s)' = byName(s) /\ Notes(s)' = Notes(s)
         /\ \A s : Wanted(s)' = Wanted(s) /\ SizeOf(s)' = SizeOf(s)
         /\ \A i, j : Before(i, j)' = Before(i, j)
         /\ \A t, r : Arranged(t, r)' = Arranged(t, r)
         /\ \A t, b : NotesFollow(t, b)' = NotesFollow(t, b)
         /\ \A t : Cost(t)' = Cost(t)
<1>1. files' = files
  BY DEF files
<1>2. \A i : Entry(i)' = Entry(i)
  BY <1>1 DEF Entry
<1>3. \A s : Named(s)' = Named(s)
  BY <1>1 DEF Named
<1>4. \A s : byName(s)' = byName(s)
  BY <1>3 DEF byName
<1>5. Mentioned' = Mentioned
  BY <1>2, <1>3, <1>4 DEF Mentioned
<1>6. \A s : Notes(s)' = Notes(s)
  BY <1>2, <1>3, <1>4 DEF Notes
<1>7. \A s : Wanted(s)' = Wanted(s)
  BY <1>3, <1>5 DEF Wanted
<1>8. \A s : Mention(s)' = Mention(s)
  BY <1>5 DEF Mention
<1>9. \A i, j : Before(i, j)' = Before(i, j)
  BY <1>2, <1>8 DEF Before
<1>10. \A t, r : Arranged(t, r)' = Arranged(t, r)
  BY <1>2, <1>7, <1>9 DEF Arranged
<1>11. \A t, k : OwnNotes(t, k)' = OwnNotes(t, k) /\ Noted(t, k)' = Noted(t, k)
  BY <1>2, <1>4, <1>6 DEF OwnNotes, Noted
<1>12. \A t, b : NotesFollow(t, b)' = NotesFollow(t, b)
  BY <1>11 DEF NotesFollow
<1>13. \A s : SizeOf(s)' = SizeOf(s)
  BY <1>2, <1>3, <1>4 DEF SizeOf
<1>14. \A t : Cost(t)' = Cost(t)
  BY <1>2, <1>13 DEF Cost
<1>15. OrderCost' = OrderCost /\ Listed' = Listed
  BY <1>3, <1>13 DEF OrderCost, Listed
<1> QED
  BY <1>1, <1>2, <1>3, <1>4, <1>5, <1>6, <1>7, <1>9, <1>10, <1>12, <1>13, <1>14, <1>15 DEF Writing

(* The presentation mentions a sequence of names. *)
LEMMA MentionedDomain ==
  ASSUME archive \in Archives
  PROVE  \E m \in Nat : DOMAIN Mentioned = 1..m
<1> DEFINE pres == Entry(byName("presentation"))
           rels == Entry(byName("presentationRels"))
           ks == {k \in DOMAIN pres.ids : pres.ids[k] \in ToSet(rels.ids)}
<1>1. CASE Mentioned = <<>>
  <2>1. DOMAIN Mentioned = 1..0 /\ 0 \in Nat
    BY <1>1
  <2> QED
    BY <2>1
<1>2. CASE Mentioned # <<>>
  <2>1. Listed /\ Mentioned = presentationOrder(pres, rels)
    BY <1>2 DEF Mentioned, Listed
  <2>2. pres \in Entries
    BY <2>1, NamedFacts, FilesFacts DEF Listed
  <2>3. pres.ids \in Seq(STRING)
    BY <2>2 DEF Entries
  <2>4. Len(pres.ids) \in Nat /\ ks \in SUBSET (1..Len(pres.ids))
    BY <2>3
  <2>5. Cardinality(ks) \in Nat
    BY <2>4, Ranks
  <2>6. DOMAIN At(pres.ids, ks) = 1..Cardinality(ks)
    BY AtNth
  <2>7. Mentioned = [k \in DOMAIN At(pres.ids, ks) |->
                       rels.refs[Max({n \in DOMAIN rels.ids : rels.ids[n] = At(pres.ids, ks)[k]})]]
    BY <1>2, <2>1 DEF presentationOrder
  <2> QED
    BY <2>5, <2>6, <2>7
<1> QED
  BY <1>1, <1>2
(* A sequence with one more element. *)
LEMMA AppendFacts ==
  ASSUME NEW X, NEW t \in Seq(X), NEW w \in X
  PROVE  /\ Append(t, w) \in Seq(X) /\ Len(t) \in Nat /\ Len(Append(t, w)) = Len(t) + 1
         /\ \A k \in 1..(Len(t) + 1) : k \in Nat /\ (k \in 1..Len(t) \/ k = Len(t) + 1)
         /\ \A k \in 1..Len(t) : k \in 1..(Len(t) + 1) /\ k < Len(t) + 1 /\ Append(t, w)[k] = t[k]
         /\ Append(t, w)[Len(t) + 1] = w /\ Len(t) + 1 \in 1..(Len(t) + 1) /\ Append(t, w) # <<>>
<1>1. Append(t, w) \in Seq(X) /\ Len(t) \in Nat /\ Len(Append(t, w)) = Len(t) + 1
  OBVIOUS
<1>2. \A k \in 1..(Len(t) + 1) : k \in Nat /\ (k \in 1..Len(t) \/ k = Len(t) + 1)
  BY <1>1
<1>3. \A k \in 1..Len(t) : k \in 1..(Len(t) + 1) /\ k < Len(t) + 1
  BY <1>1
<1>4. /\ \A k \in 1..Len(t) : Append(t, w)[k] = t[k]
      /\ Append(t, w)[Len(t) + 1] = w /\ Append(t, w) # <<>>
  OBVIOUS
<1>5. Len(t) + 1 \in 1..(Len(t) + 1)
  BY <1>1
<1> QED
  BY <1>1, <1>2, <1>3, <1>4, <1>5

(* A sequence without its first element. *)
LEMMA TailFacts ==
  ASSUME NEW X, NEW s \in Seq(X), s # <<>>
  PROVE  /\ Head(s) = s[1] /\ s[1] \in X /\ Tail(s) \in Seq(X)
         /\ Len(s) \in Nat /\ 1 \in 1..Len(s) /\ Len(Tail(s)) \in Nat
         /\ \A i \in 1..Len(Tail(s)) :
              i \in Nat /\ i + 1 \in 1..Len(s) /\ 1 < i + 1 /\ Tail(s)[i] = s[i + 1]
         /\ \A i \in 1..Len(s) : i = 1 \/ (i - 1 \in 1..Len(Tail(s)) /\ Tail(s)[i - 1] = s[i])
<1>1. /\ Head(s) = s[1] /\ Tail(s) \in Seq(X) /\ Len(s) \in Nat /\ Len(s) # 0
      /\ Len(Tail(s)) = Len(s) - 1
  OBVIOUS
<1>2. 1 \in 1..Len(s) /\ s[1] \in X /\ Len(Tail(s)) \in Nat
  BY <1>1
<1>3. ASSUME NEW i \in 1..Len(Tail(s))
      PROVE  i \in Nat /\ i + 1 \in 1..Len(s) /\ 1 < i + 1 /\ Tail(s)[i] = s[i + 1]
  BY <1>1
<1>4. ASSUME NEW i \in 1..Len(s), i # 1 PROVE i - 1 \in 1..Len(Tail(s)) /\ Tail(s)[i - 1] = s[i]
  <2>1. i - 1 \in 1..Len(Tail(s)) /\ i - 1 + 1 = i
    BY <1>1, <1>4
  <2> QED
    BY <1>3, <2>1
<1> QED
  BY <1>1, <1>2, <1>3, <1>4

(* The next slide written stays in its place. *)
LEMMA TakeSlide ==
  ASSUME NEW X, NEW t \in Seq(X), NEW Y, NEW r \in Seq(Y), r # <<>>, Arranged(t, r),
         NEW w \in X, w.part = "slide", w.entry = r[1]
  PROVE  Arranged(Append(t, w), Tail(r))
<1> DEFINE u == Append(t, w)
           v == Tail(r)
           n == Len(t)
<1>1. /\ n \in Nat /\ Len(u) = n + 1 /\ u[n + 1] = w /\ n + 1 \in 1..(n + 1)
      /\ \A k \in 1..(n + 1) : k \in Nat /\ (k \in 1..n \/ k = n + 1)
      /\ \A k \in 1..n : k \in 1..(n + 1) /\ k < n + 1 /\ u[k] = t[k]
  BY AppendFacts
<1>2. /\ Len(r) \in Nat /\ 1 \in 1..Len(r) /\ Len(v) \in Nat
      /\ \A i \in 1..Len(v) : i \in Nat /\ i + 1 \in 1..Len(r) /\ 1 < i + 1 /\ v[i] = r[i + 1]
      /\ \A i \in 1..Len(r) : i = 1 \/ (i - 1 \in 1..Len(v) /\ v[i - 1] = r[i])
  BY TailFacts
<1> HIDE DEF u, v, n
<1>3. ASSUME NEW j \in 1..Len(u), NEW k \in 1..Len(u), j < k, u[j].part = "slide", u[k].part = "slide"
      PROVE  Before(u[j].entry, u[k].entry)
  <2>1. j \in 1..n /\ u[j] = t[j]
    BY <1>1, <1>3
  <2>2. CASE k \in 1..n
    BY <1>1, <1>3, <2>1, <2>2 DEF Arranged, n
  <2>3. CASE k = n + 1
    <3>1. Before(t[j].entry, r[1])
      BY <1>2, <1>3, <2>1 DEF Arranged, n
    <3> QED
      BY <1>1, <2>1, <2>3, <3>1
  <2> QED
    BY <1>1, <2>2, <2>3
<1>4. ASSUME NEW j \in 1..Len(u), NEW i \in 1..Len(v), u[j].part = "slide"
      PROVE  Before(u[j].entry, v[i])
  <2>1. i + 1 \in 1..Len(r) /\ 1 < i + 1 /\ v[i] = r[i + 1]
    BY <1>2
  <2>2. CASE j \in 1..n
    BY <1>1, <1>4, <2>1, <2>2 DEF Arranged, n
  <2>3. CASE j = n + 1
    BY <1>1, <1>2, <2>1, <2>3 DEF Arranged
  <2> QED
    BY <1>1, <2>2, <2>3
<1>5. ASSUME NEW i \in 1..Len(v), NEW j \in 1..Len(v), i < j PROVE Before(v[i], v[j])
  <2>1. i + 1 \in 1..Len(r) /\ j + 1 \in 1..Len(r) /\ i + 1 < j + 1
    BY <1>2, <1>5
  <2> QED
    BY <1>2, <2>1 DEF Arranged
<1>6. ASSUME NEW s
      PROVE  Wanted(s) <=> \/ \E k \in 1..Len(u) : u[k].part = "slide" /\ Entry(u[k].entry).name = s
                           \/ \E i \in 1..Len(v) : Entry(v[i]).name = s
  <2>1. ASSUME NEW k \in 1..n, t[k].part = "slide", Entry(t[k].entry).name = s
        PROVE  \E x \in 1..Len(u) : u[x].part = "slide" /\ Entry(u[x].entry).name = s
    BY <1>1, <2>1
  <2>2. ASSUME NEW i \in 1..Len(r), Entry(r[i]).name = s
        PROVE  \/ \E x \in 1..Len(u) : u[x].part = "slide" /\ Entry(u[x].entry).name = s
               \/ \E x \in 1..Len(v) : Entry(v[x]).name = s
    <3>1. CASE i = 1
      BY <1>1, <2>2, <3>1
    <3>2. CASE i # 1
      BY <1>2, <2>2, <3>2
    <3> QED
      BY <3>1, <3>2
  <2>3. ASSUME NEW k \in 1..Len(u), u[k].part = "slide", Entry(u[k].entry).name = s PROVE Wanted(s)
    <3>1. CASE k \in 1..n
      BY <1>1, <2>3, <3>1 DEF Arranged, n
    <3>2. CASE k = n + 1
      BY <1>1, <1>2, <2>3, <3>2 DEF Arranged
    <3> QED
      BY <1>1, <3>1, <3>2
  <2>4. ASSUME NEW i \in 1..Len(v), Entry(v[i]).name = s PROVE Wanted(s)
    BY <1>2, <2>4 DEF Arranged
  <2>5. Wanted(s) => \/ \E k \in 1..n : t[k].part = "slide" /\ Entry(t[k].entry).name = s
                     \/ \E i \in 1..Len(r) : Entry(r[i]).name = s
    BY DEF Arranged, n
  <2> QED
    BY <2>1, <2>2, <2>3, <2>4, <2>5
<1>7. Arranged(u, v)
  BY <1>3, <1>4, <1>5, <1>6 DEF Arranged
<1> QED
  BY <1>7 DEF u, v

(* Notes that are written do not disturb the slides. *)
LEMMA TakeNotes ==
  ASSUME NEW X, NEW t \in Seq(X), NEW r, Arranged(t, r), NEW w \in X, w.part # "slide"
  PROVE  Arranged(Append(t, w), r)
<1> DEFINE u == Append(t, w)
           n == Len(t)
<1>1. /\ n \in Nat /\ Len(u) = n + 1 /\ u[n + 1] = w
      /\ \A k \in 1..(n + 1) : k \in 1..n \/ k = n + 1
      /\ \A k \in 1..n : k \in 1..(n + 1) /\ u[k] = t[k]
  BY AppendFacts
<1> HIDE DEF u, n
<1>2. \A k \in 1..Len(u) : u[k].part = "slide" => k \in 1..n /\ u[k] = t[k]
  BY <1>1
<1>3. \A j, k \in 1..Len(u) :
        j < k /\ u[j].part = "slide" /\ u[k].part = "slide" => Before(u[j].entry, u[k].entry)
  BY <1>2 DEF Arranged, n
<1>4. \A j \in 1..Len(u), i \in 1..Len(r) : u[j].part = "slide" => Before(u[j].entry, r[i])
  BY <1>2 DEF Arranged, n
<1>5. \A s : (\E k \in 1..Len(u) : u[k].part = "slide" /\ Entry(u[k].entry).name = s)
               <=> \E k \in 1..n : t[k].part = "slide" /\ Entry(t[k].entry).name = s
  BY <1>1, <1>2
<1>6. Arranged(u, r)
  BY <1>3, <1>4, <1>5 DEF Arranged, n
<1> QED
  BY <1>6 DEF u

(* Behind a slide its notes are missing, unless it has none. *)
LEMMA SlideWithout ==
  ASSUME NEW X, NEW t \in Seq(X), NotesFollow(t, 0), NEW w \in X, w.part = "slide"
  PROVE  /\ NotesFollow(Append(t, w), Len(t) + 1)
         /\ Notes(Entry(w.entry).name) = {} => NotesFollow(Append(t, w), 0)
<1> DEFINE u == Append(t, w)
           n == Len(t)
<1>1. /\ n \in Nat /\ Len(u) = n + 1 /\ u[n + 1] = w
      /\ \A k \in 1..(n + 1) : k \in Nat /\ (k \in 1..n \/ k = n + 1)
      /\ \A k \in 1..n : k \in 1..(n + 1) /\ u[k] = t[k]
  BY AppendFacts
<1> HIDE DEF u, n
<1>2. ASSUME NEW k \in 1..n
      PROVE  IF u[k].part = "slide" THEN Noted(u, k) ELSE OwnNotes(u, k)
  <2>1. IF t[k].part = "slide" THEN Noted(t, k) ELSE OwnNotes(t, k)
    BY DEF NotesFollow, n
  <2>2. u[k] = t[k]
    BY <1>1
  <2>3. CASE t[k].part = "slide"
    BY <1>1, <2>1, <2>2, <2>3 DEF Noted, n
  <2>4. CASE t[k].part # "slide"
    BY <1>1, <2>1, <2>2, <2>4 DEF OwnNotes, n
  <2> QED
    BY <2>2, <2>3, <2>4
<1>3. NotesFollow(u, n + 1)
  BY <1>1, <1>2 DEF NotesFollow
<1>4. ASSUME Notes(Entry(w.entry).name) = {} PROVE NotesFollow(u, 0)
  <2>1. Noted(u, n + 1)
    BY <1>1, <1>4 DEF Noted
  <2> QED
    BY <1>1, <1>2, <2>1 DEF NotesFollow
<1> QED
  BY <1>3, <1>4 DEF u, n

(* The notes of the last slide complete it. *)
LEMMA NotesBehind ==
  ASSUME NEW X, NEW t \in Seq(X), NotesFollow(t, Len(t)), t # <<>>, t[Len(t)].part = "slide",
         NEW w \in X, w.part = "notes", w.entry = byName(Entry(w.entry).name),
         Notes(Entry(t[Len(t)].entry).name) = {Entry(w.entry).name}
  PROVE  NotesFollow(Append(t, w), 0)
<1> DEFINE u == Append(t, w)
           n == Len(t)
<1>1. /\ n \in Nat /\ Len(u) = n + 1 /\ u[n + 1] = w /\ n + 1 \in 1..(n + 1)
      /\ \A k \in 1..(n + 1) : k \in Nat /\ (k \in 1..n \/ k = n + 1)
      /\ \A k \in 1..n : k \in 1..(n + 1) /\ u[k] = t[k]
  BY AppendFacts
<1>2. n \in 1..n
  <2>1. n # 0
    OBVIOUS
  <2> QED
    BY <1>1, <2>1
<1> HIDE DEF u
<1>3. ASSUME NEW k \in 1..n
      PROVE  IF u[k].part = "slide" THEN Noted(u, k) ELSE OwnNotes(u, k)
  <2>1. IF t[k].part = "slide" THEN Noted(t, k) \/ k = n ELSE OwnNotes(t, k)
    BY DEF NotesFollow
  <2>2. u[k] = t[k]
    BY <1>1
  <2>3. CASE t[k].part = "slide" /\ k # n
    BY <1>1, <2>1, <2>2, <2>3 DEF Noted
  <2>4. CASE t[k].part = "slide" /\ k = n
    <3>1. k + 1 \in 1..Len(u) /\ u[k + 1].part # "slide"
      BY <1>1, <2>4
    <3> QED
      BY <2>2, <2>4, <3>1 DEF Noted
  <2>5. CASE t[k].part # "slide"
    <3>1. OwnNotes(t, k)
      BY <2>1, <2>5
    <3>2. k - 1 \in 1..n /\ u[k - 1] = t[k - 1] /\ k - 1 \in 1..Len(u)
      BY <1>1, <3>1 DEF OwnNotes
    <3> QED
      BY <2>2, <2>5, <3>1, <3>2 DEF OwnNotes
  <2> QED
    BY <2>2, <2>3, <2>4, <2>5
<1>4. OwnNotes(u, n + 1)
  <2>1. n + 1 - 1 = n
    BY <1>1
  <2> HIDE DEF n
  <2>2. u[n] = t[n] /\ n \in 1..Len(u)
    BY <1>1, <1>2
  <2> QED
    BY <1>1, <2>1, <2>2 DEF OwnNotes, n
<1> HIDE DEF n
<1>5. NotesFollow(u, 0)
  <2>1. u[n + 1].part # "slide"
    BY <1>1
  <2> QED
    BY <1>1, <1>3, <1>4, <2>1 DEF NotesFollow
<1> QED
  BY <1>5 DEF u

(* A slide without notes is complete. *)
LEMMA NoneMissing ==
  ASSUME NEW X, NEW t \in Seq(X), NotesFollow(t, Len(t)), t # <<>>,
         Notes(Entry(t[Len(t)].entry).name) = {}
  PROVE  NotesFollow(t, 0)
  BY DEF NotesFollow, Noted
-------------------------------------------------------------------------------
(* The steps of the walk. *)

(* Everything Walk says of the places but the sequences, which is what most steps change. *)
LEMMA OpenWalk == ASSUME Walk, Deck, OpenArchive PROVE Walk' /\ Deck'
<1>1. archive' = archive /\ text' = text /\ slides' = slides /\ ordered' = ordered /\ pc = "open"
  BY DEF OpenArchive, deckVars
<1>2. CASE pc' = "done" /\ outcome' = "malformed"
  BY <1>1, <1>2, SameArchive DEF Walk, Deck, Walking, Streaming, Buffering, Finished
<1>3. CASE /\ Named("document") # {} /\ archive.kind = "docx"
           /\ Begin(Min(Named("document")), "document", remaining)
  <2>1. /\ at' \in DOMAIN files /\ unread' \in 0..Entry(at').size
        /\ at' = Min(Named("document")) /\ pc' = "document" /\ outcome' = outcome
    <3>1. Min(Named("document")) \in DOMAIN files
      BY <1>3, NamedFacts DEF Walk
    <3>2. Entry(Min(Named("document"))).size \in Nat
      BY <3>1, FilesFacts DEF Walk, Entries
    <3> QED
      BY <1>3, <3>1, <3>2 DEF Begin, Entry
  <2> QED
    BY <1>1, <1>3, <2>1, SameArchive DEF Walk, Deck, Walking, Streaming, Buffering, Finished
<1>4. CASE Listed /\ Begin(byName("presentation"), "presentation", remaining) /\ archive.kind # "docx"
  <2>1. /\ at' \in DOMAIN files /\ unread' \in 0..Entry(at').size
        /\ at' = byName("presentation") /\ pc' = "presentation" /\ outcome' = outcome
    <3>1. byName("presentation") \in DOMAIN files
      BY <1>4, NamedFacts DEF Walk, Listed
    <3>2. Entry(byName("presentation")).size \in Nat
      BY <3>1, FilesFacts DEF Walk, Entries
    <3> QED
      BY <1>4, <3>1, <3>2 DEF Begin, Entry
  <2>2. archive.kind = "pptx"
    BY <1>4, FilesFacts DEF Walk
  <2> QED
    BY <1>1, <1>4, <2>1, <2>2, SameArchive DEF Walk, Deck, Walking, Streaming, Buffering, Finished
<1>5. CASE ~Listed /\ pc' = "order" /\ outcome' = outcome /\ archive.kind # "docx"
  <2>1. archive.kind = "pptx"
    BY <1>5, FilesFacts DEF Walk
  <2>2. Mentioned = <<>>
    BY <1>5 DEF Mentioned, Listed
  <2> QED
    BY <1>1, <1>5, <2>1, <2>2, SameArchive DEF Walk, Deck, Walking, Streaming, Buffering, Finished
<1> QED
  BY <1>2, <1>3, <1>4, <1>5 DEF OpenArchive, Return, Listed

(* A part that is read on, fails or is given up. *)
LEMMA PartWalk ==
  ASSUME Walk, Deck, ReadPart \/ PartFails \/ DecodeCanceled
  PROVE  Walk' /\ Deck'
<1>1. /\ archive' = archive /\ text' = text /\ slides' = slides /\ ordered' = ordered /\ at' = at
      /\ \/ pc' = "done" /\ outcome' \in {"malformed", "canceled"}
         \/ pc' = pc /\ outcome' = outcome
      /\ Streaming \/ Buffering => unread' \in 0..unread
  BY DEF ReadPart, PartFails, DecodeCanceled, Return, partVars, Walk
<1>2. Streaming \/ Buffering => unread' \in 0..Entry(at).size
  <2>1. Streaming \/ Buffering => Entry(at).size \in Nat
    BY FilesFacts DEF Walk, Entries
  <2> QED
    BY <1>1, <2>1 DEF Walk
<1>3. CASE pc' = "done" /\ outcome' \in {"malformed", "canceled"}
  BY <1>1, <1>3, SameArchive DEF Walk, Deck, Walking, Streaming, Buffering, Finished
<1>4. CASE pc' = pc /\ outcome' = outcome
  <2>1. Walk'
    BY <1>1, <1>2, <1>4, SameArchive DEF Walk, Walking, Streaming, Buffering, Finished
  <2>2. Ahead' = Ahead /\ Open' = Open
    BY <1>1, <1>4 DEF Ahead, Open
  <2>3. Deck'
    BY <1>1, <1>4, <2>2, SameArchive DEF Deck, Walking, Finished
  <2> QED
    BY <2>1, <2>3
<1> QED
  BY <1>1, <1>3, <1>4

(* The presentation and its relationships. *)
LEMMA PresentationWalk ==
  ASSUME Walk, Deck, PresentationRead \/ PresentationRelsRead
  PROVE  Walk' /\ Deck'
<1>1. archive' = archive /\ text' = text /\ slides' = slides /\ outcome' = outcome
  BY DEF PresentationRead, PresentationRelsRead, PartEnds, Begin
<1>2. CASE PresentationRead
  <2>1. pc = "presentation" /\ pc' = "presentationRels" /\ at' = byName("presentationRels")
        /\ unread' = files[at'].size /\ ordered' = ordered
    BY <1>2 DEF PresentationRead, PartEnds, Begin
  <2>2. Listed /\ archive.kind = "pptx"
    BY <2>1 DEF Walk
  <2>3. at' \in DOMAIN files
    BY <2>1, <2>2, NamedFacts DEF Walk, Listed
  <2>4. Entry(at').size \in Nat
    BY <2>3, FilesFacts DEF Walk, Entries
  <2>5. unread' \in 0..Entry(at').size
    BY <2>1, <2>4 DEF Entry
  <2> QED
    BY <1>1, <2>1, <2>2, <2>3, <2>5, SameArchive DEF Walk, Deck, Walking, Streaming, Buffering, Finished
<1>3. CASE PresentationRelsRead
  <2>1. pc = "presentationRels" /\ pc' = "order"
        /\ ordered' = presentationOrder(Entry(byName("presentation")), Entry(at))
    BY <1>3 DEF PresentationRelsRead, PartEnds
  <2>2. Listed /\ at = byName("presentationRels") /\ archive.kind = "pptx"
    BY <2>1 DEF Walk
  <2>3. ordered' = Mentioned
    BY <2>1, <2>2 DEF Mentioned, Listed
  <2> QED
    BY <1>1, <2>1, <2>2, <2>3, SameArchive DEF Walk, Deck, Walking, Streaming, Buffering, Finished
<1> QED
  BY <1>2, <1>3

(* The slides are put in order. *)
LEMMA OrderWalk == ASSUME Walk, Deck, OrderSlides PROVE Walk' /\ Deck'
<1>1. archive' = archive /\ text' = text /\ ordered' = ordered /\ pc = "order"
  BY DEF OrderSlides
<1>2. PICK numbered \in sortedSlides :
        /\ slides' = resolveOrder(numbered)
        /\ IF resolveOrder(numbered) = <<>> THEN Return("malformed") ELSE pc' = "slides" /\ UNCHANGED outcome
  BY DEF OrderSlides
<1>3. /\ archive \in Archives /\ ordered = Mentioned /\ archive.kind = "pptx" /\ text = <<>>
      /\ outcome = "none"
  BY <1>1 DEF Walk
<1>4. /\ slides' \in Seq(DOMAIN files)
      /\ \A i \in 1..Len(slides') : Entry(slides'[i]).name \in SlideParts
      /\ \A i, j \in 1..Len(slides') : i < j => Before(slides'[i], slides'[j])
      /\ \A s : Wanted(s) <=> \E i \in 1..Len(slides') : Entry(slides'[i]).name = s
  <2>1. PICK m \in Nat : DOMAIN Mentioned = 1..m
    BY <1>3, MentionedDomain
  <2>2. PICK order : order = resolveOrder(numbered)
    OBVIOUS
  <2>3. /\ order \in Seq(DOMAIN files)
        /\ \A i \in 1..Len(order) : Entry(order[i]).name \in SlideParts
        /\ \A i, j \in 1..Len(order) : i < j => Before(order[i], order[j])
        /\ \A s : Wanted(s) <=> \E i \in 1..Len(order) : Entry(order[i]).name = s
    <3>1. archive \in Archives /\ ordered = Mentioned /\ numbered \in sortedSlides
      BY <1>2, <1>3
    <3> QED
      BY <3>1, <2>1, <2>2, SlidesOrdered
  <2>4. slides' = order
    BY <1>2, <2>2
  <2> QED
    BY <2>3, <2>4
<1>5. Arranged(<<>>, slides') /\ NotesFollow(<<>>, 0)
  <2>1. Len(<<>>) = 0 /\ 1..0 = {}
    OBVIOUS
  <2> QED
    BY <1>4, <2>1 DEF Arranged, NotesFollow
<1>6. CASE pc' = "done" /\ outcome' = "malformed"
  BY <1>1, <1>3, <1>4, <1>6, SameArchive DEF Walk, Deck, Walking, Streaming, Buffering, Finished
<1>7. CASE pc' = "slides" /\ outcome' = outcome
  <2>1. Walk'
    BY <1>1, <1>3, <1>4, <1>7, SameArchive DEF Walk, Walking, Streaming, Buffering, Finished
  <2>2. Ahead' = slides'
    BY <1>7 DEF Ahead
  <2>3. Open' = 0
    BY <1>7 DEF Open
  <2> QED
    BY <1>1, <1>3, <1>5, <1>7, <2>1, <2>2, <2>3, SameArchive DEF Deck
<1> QED
  BY <1>2, <1>6, <1>7 DEF Return

(* The next slide is opened, or the deck is through. *)
LEMMA NextWalk == ASSUME Walk, Deck, NextSlide \/ DeckRead PROVE Walk' /\ Deck'
<1>1. archive' = archive /\ text' = text /\ slides' = slides /\ ordered' = ordered /\ pc = "slides"
  BY DEF NextSlide, DeckRead, deckVars
<1>2. archive.kind = "pptx" /\ Arranged(text, slides) /\ NotesFollow(text, 0)
  BY <1>1 DEF Walk, Deck, Walking, Ahead, Open
<1>3. CASE pc' = "done" /\ outcome' = "canceled"
  BY <1>1, <1>3, SameArchive DEF Walk, Deck, Walking, Streaming, Buffering, Finished
<1>4. CASE pc' = "done" /\ outcome' \in {"ok", "nocontent"} /\ slides = <<>>
  <2>1. Walk'
    BY <1>1, <1>4, SameArchive DEF Walk, Walking, Streaming, Buffering, Finished
  <2>2. Ahead' = slides' /\ Open' = 0
    BY <1>4 DEF Ahead, Open
  <2> QED
    BY <1>1, <1>2, <1>4, <2>1, <2>2, SameArchive DEF Deck
<1>5. CASE Begin(Head(slides), "slide", remaining) /\ slides # <<>>
  <2>1. pc' = "slide" /\ outcome' = outcome /\ at' = slides[1] /\ unread' = files[at'].size
    BY <1>5, TailFacts DEF Begin, Walk
  <2>2. at' \in DOMAIN files
    BY <1>5, <2>1, TailFacts DEF Walk
  <2>3. Entry(at').size \in Nat
    BY <2>2, FilesFacts DEF Walk, Entries
  <2>4. unread' \in 0..Entry(at').size
    BY <2>1, <2>3 DEF Entry
  <2>5. Walk'
    BY <1>1, <1>2, <1>5, <2>1, <2>2, <2>4, SameArchive DEF Walk, Walking, Streaming, Buffering, Finished
  <2>6. Ahead' = slides' /\ Open' = 0
    BY <2>1 DEF Ahead, Open
  <2> QED
    BY <1>1, <1>2, <2>1, <2>5, <2>6, SameArchive DEF Deck
<1> QED
  BY <1>3, <1>4, <1>5 DEF NextSlide, DeckRead, Return
(* The slide was read: it is written, and its notes are looked for. *)
LEMMA SlideWalk == ASSUME Walk, Deck, SlideRead PROVE Walk' /\ Deck'
<1> DEFINE w == [part |-> "slide", entry |-> at]
           name == Entry(at).name
           rels == relsOf[name]
<1>1. /\ archive' = archive /\ ordered' = ordered /\ outcome' = outcome /\ pc = "slide"
      /\ text' = Append(text, w)
      /\ IF Named(rels) = {} THEN SlideDone
         ELSE Begin(byName(rels), "rels", allowance) /\ UNCHANGED deckVars
  BY DEF SlideRead, PartEnds, Write, SlideDone, Begin, deckVars
<1>2. /\ archive \in Archives /\ archive.kind = "pptx" /\ slides # <<>> /\ at = slides[1]
      /\ at \in DOMAIN files /\ slides \in Seq(DOMAIN files) /\ text \in Seq(Writing)
      /\ outcome = "none" /\ \A i \in 1..Len(slides) : Entry(slides[i]).name \in SlideParts
  BY <1>1 DEF Walk, Walking, Streaming, Buffering
<1>3. Arranged(text, slides) /\ NotesFollow(text, 0)
  BY <1>1 DEF Deck, Walking, Ahead, Open
<1>4. w \in Writing /\ w.part = "slide" /\ w.entry = at
  BY <1>2 DEF Writing
<1> HIDE DEF w
<1>5. /\ text' \in Seq(Writing) /\ text' # <<>> /\ Len(text') = Len(text) + 1 /\ text'[Len(text')] = w
      /\ Len(text) \in Nat
  BY <1>1, <1>2, <1>4, AppendFacts
<1>6. Arranged(text', Tail(slides))
  BY <1>1, <1>2, <1>3, <1>4, TakeSlide
<1>7. NotesFollow(text', Len(text')) /\ (Notes(name) = {} => NotesFollow(text', 0))
  BY <1>1, <1>2, <1>3, <1>4, <1>5, SlideWithout
<1>8. /\ Tail(slides) \in Seq(DOMAIN files)
      /\ \A i \in 1..Len(Tail(slides)) : Entry(Tail(slides)[i]).name \in SlideParts
  BY <1>2, TailFacts
<1>9. CASE Named(rels) = {}
  <2>1. pc' = "slides" /\ slides' = Tail(slides)
    BY <1>1, <1>9 DEF SlideDone
  <2>2. Notes(name) = {}
    BY <1>9 DEF Notes
  <2>3. Walk'
    BY <1>1, <1>2, <1>5, <1>8, <2>1, SameArchive DEF Walk, Walking, Streaming, Buffering, Finished
  <2>4. Ahead' = Tail(slides) /\ Open' = 0
    BY <2>1 DEF Ahead, Open
  <2> QED
    BY <1>1, <1>6, <1>7, <2>2, <2>3, <2>4, SameArchive DEF Deck
<1>10. CASE Named(rels) # {}
  <2>1. pc' = "rels" /\ slides' = slides /\ at' = byName(rels) /\ unread' = files[at'].size
    BY <1>1, <1>10 DEF Begin, deckVars
  <2>2. at' \in DOMAIN files
    BY <1>2, <1>10, <2>1, NamedFacts
  <2>3. Entry(at').size \in Nat
    BY <1>2, <2>2, FilesFacts DEF Entries
  <2>4. unread' \in 0..Entry(at').size
    BY <2>1, <2>3 DEF Entry
  <2>5. text'[Len(text')] = [part |-> "slide", entry |-> slides'[1]] /\ rels = relsOf[Entry(slides'[1]).name]
    BY <1>2, <1>5, <2>1 DEF w
  <2>6. Walk'
    BY <1>1, <1>2, <1>5, <1>10, <2>1, <2>2, <2>4, <2>5, SameArchive
       DEF Walk, Walking, Streaming, Buffering, Finished
  <2>7. Ahead' = Tail(slides) /\ Open' = Len(text')
    BY <2>1 DEF Ahead, Open
  <2> QED
    BY <1>1, <1>6, <1>7, <2>6, <2>7, SameArchive DEF Deck
<1> QED
  BY <1>9, <1>10

(* The notes a slide's relationships name. *)
LEMMA NotesNamed ==
  ASSUME NEW s, Named(relsOf[s]) # {}
  PROVE  LET refs == Entry(byName(relsOf[s])).refs
         IN  /\ refs = <<>> => Notes(s) = {}
             /\ refs # <<>> => Notes(s) = {Head(refs)}
  BY DEF Notes

(* The relationships of a slide were read: its notes are opened, are missing, or it has none. *)
LEMMA RelsWalk == ASSUME Walk, Deck, RelsRead PROVE Walk' /\ Deck'
<1> DEFINE refs == Entry(at).refs
           name == Entry(slides[1]).name
<1>1. /\ archive' = archive /\ ordered' = ordered /\ pc = "rels" /\ text' = text
      /\ \/ pc' = "done" /\ outcome' = "malformed" /\ UNCHANGED deckVars /\ UNCHANGED partVars
         \/ refs = <<>> /\ SlideDone
         \/ refs # <<>> /\ Named(Head(refs)) # {} /\ Begin(byName(Head(refs)), "notes", allowance)
            /\ UNCHANGED deckVars
  BY DEF RelsRead, PartEnds, SlideDone, deckVars, Return
<1>2. /\ archive \in Archives /\ archive.kind = "pptx" /\ slides # <<>>
      /\ text # <<>> /\ text[Len(text)] = [part |-> "slide", entry |-> slides[1]]
      /\ Named(relsOf[name]) # {} /\ at = byName(relsOf[name]) /\ outcome = "none"
      /\ at \in DOMAIN files /\ slides \in Seq(DOMAIN files) /\ text \in Seq(Writing)
      /\ \A i \in 1..Len(slides) : Entry(slides[i]).name \in SlideParts
  BY <1>1 DEF Walk, Walking, Streaming, Buffering
<1>3. Arranged(text, Tail(slides)) /\ NotesFollow(text, Len(text))
  BY <1>1 DEF Deck, Walking, Ahead, Open
<1>4. /\ Tail(slides) \in Seq(DOMAIN files)
      /\ \A i \in 1..Len(Tail(slides)) : Entry(Tail(slides)[i]).name \in SlideParts
  BY <1>2, TailFacts
<1>5. CASE pc' = "done" /\ outcome' = "malformed" /\ UNCHANGED deckVars /\ UNCHANGED partVars
  BY <1>1, <1>5, SameArchive DEF Walk, Deck, Walking, Streaming, Buffering, Finished, deckVars
<1>6. CASE refs = <<>> /\ SlideDone
  <2>1. pc' = "slides" /\ slides' = Tail(slides) /\ outcome' = outcome
    BY <1>6 DEF SlideDone
  <2>2. Notes(name) = {}
    BY <1>2, <1>6, NotesNamed
  <2>3. Entry(text[Len(text)].entry).name = name
    BY <1>2
  <2>4. NotesFollow(text, 0)
    BY <1>2, <1>3, <2>2, <2>3, NoneMissing
  <2>5. Walk'
    BY <1>1, <1>2, <1>4, <2>1, SameArchive DEF Walk, Walking, Streaming, Buffering, Finished
  <2>6. Ahead' = Tail(slides) /\ Open' = 0
    BY <2>1 DEF Ahead, Open
  <2> QED
    BY <1>1, <1>3, <2>4, <2>5, <2>6, SameArchive DEF Deck
<1>7. CASE /\ refs # <<>> /\ Named(Head(refs)) # {} /\ Begin(byName(Head(refs)), "notes", allowance)
           /\ UNCHANGED deckVars
  <2>1. /\ pc' = "notes" /\ slides' = slides /\ at' = byName(Head(refs)) /\ unread' = files[at'].size
        /\ outcome' = outcome
    BY <1>7 DEF Begin, deckVars
  <2>2. at' \in DOMAIN files /\ Entry(at').name = Head(refs)
    BY <1>2, <1>7, <2>1, NamedFacts
  <2>3. Entry(at').size \in Nat
    BY <1>2, <2>2, FilesFacts DEF Entries
  <2>4. unread' \in 0..Entry(at').size
    BY <2>1, <2>3 DEF Entry
  <2>5. Notes(name) = {Entry(at').name} /\ at' = byName(Entry(at').name) /\ Named(Entry(at').name) # {}
    BY <1>2, <1>7, <2>1, <2>2, NotesNamed
  <2>6. Walk'
    <3>1. /\ (Notes(Entry(slides[1]).name) = {Entry(at).name})' /\ (at = byName(Entry(at).name))'
          /\ (Named(Entry(at).name) # {})'
      BY <1>1, <2>1, <2>5, SameArchive
    <3>2. (at \in DOMAIN files /\ unread \in 0..Entry(at).size)'
      BY <1>1, <2>2, <2>4, SameArchive
    <3>3. (Named(relsOf[Entry(slides[1]).name]) # {})'
      BY <1>1, <1>2, <2>1, SameArchive
    <3>4. (\A i \in 1..Len(slides) : Entry(slides[i]).name \in SlideParts)'
      BY <1>1, <1>2, <2>1, SameArchive
    <3> QED
      BY <1>1, <1>2, <2>1, <3>1, <3>2, <3>3, <3>4, SameArchive
         DEF Walk, Walking, Streaming, Buffering, Finished
  <2>7. Ahead' = Tail(slides) /\ Open' = Len(text')
    BY <2>1 DEF Ahead, Open
  <2> QED
    BY <1>1, <1>3, <2>6, <2>7, SameArchive DEF Deck
<1> QED
  BY <1>1, <1>5, <1>6, <1>7

(* The notes of a slide were read. *)
LEMMA NotesWalk == ASSUME Walk, Deck, NotesRead PROVE Walk' /\ Deck'
<1> DEFINE w == [part |-> "notes", entry |-> at]
           name == Entry(slides[1]).name
<1>1. /\ archive' = archive /\ ordered' = ordered /\ outcome' = outcome /\ pc = "notes"
      /\ text' = Append(text, w) /\ pc' = "slides" /\ slides' = Tail(slides)
  BY DEF NotesRead, PartEnds, Write, SlideDone
<1>2. /\ archive \in Archives /\ archive.kind = "pptx" /\ slides # <<>>
      /\ text # <<>> /\ text[Len(text)] = [part |-> "slide", entry |-> slides[1]]
      /\ Notes(name) = {Entry(at).name} /\ at = byName(Entry(at).name) /\ outcome = "none"
      /\ at \in DOMAIN files /\ slides \in Seq(DOMAIN files) /\ text \in Seq(Writing)
      /\ \A i \in 1..Len(slides) : Entry(slides[i]).name \in SlideParts
  BY <1>1 DEF Walk, Walking, Streaming, Buffering
<1>3. Arranged(text, Tail(slides)) /\ NotesFollow(text, Len(text))
  BY <1>1 DEF Deck, Walking, Ahead, Open
<1>4. w \in Writing /\ w.part = "notes" /\ w.part # "slide" /\ w.entry = at
  BY <1>2 DEF Writing
<1> HIDE DEF w
<1>5. text' \in Seq(Writing)
  BY <1>1, <1>2, <1>4, AppendFacts
<1>6. Arranged(text', Tail(slides))
  BY <1>1, <1>2, <1>3, <1>4, TakeNotes
<1>7. text[Len(text)].part = "slide" /\ Entry(text[Len(text)].entry).name = name
  BY <1>2
<1>8. NotesFollow(text', 0)
  BY <1>1, <1>2, <1>3, <1>4, <1>7, NotesBehind
<1>9. /\ Tail(slides) \in Seq(DOMAIN files)
      /\ \A i \in 1..Len(Tail(slides)) : Entry(Tail(slides)[i]).name \in SlideParts
  BY <1>2, TailFacts
<1>10. Walk'
  BY <1>1, <1>2, <1>5, <1>9, SameArchive DEF Walk, Walking, Streaming, Buffering, Finished
<1>11. Ahead' = Tail(slides) /\ Open' = 0
  BY <1>1 DEF Ahead, Open
<1> QED
  BY <1>1, <1>6, <1>8, <1>10, <1>11, SameArchive DEF Deck

(* The one part of a document was read. *)
LEMMA DocumentWalk == ASSUME Walk, Deck, DocumentRead PROVE Walk' /\ Deck'
<1>1. /\ archive' = archive /\ ordered' = ordered /\ slides' = slides /\ pc = "document" /\ pc' = "done"
      /\ text' = Append(text, [part |-> "document", entry |-> at])
      /\ outcome' \in {"ok", "nocontent"}
  BY DEF DocumentRead, PartEnds, Write, Return
<1>2. archive.kind = "docx" /\ at \in DOMAIN files /\ text \in Seq(Writing)
  BY <1>1 DEF Walk, Walking, Streaming, Buffering
<1>3. [part |-> "document", entry |-> at] \in Writing
  BY <1>2 DEF Writing
<1>4. text' \in Seq(Writing)
  BY <1>1, <1>2, <1>3, AppendFacts
<1> QED
  BY <1>1, <1>2, <1>4, SameArchive DEF Walk, Deck, Walking, Streaming, Buffering, Finished

(* A cancellation and a stutter change nothing of the walk. *)
LEMMA QuietWalk == ASSUME Walk, Deck, Cancel \/ UNCHANGED vars PROVE Walk' /\ Deck'
<1>1. /\ archive' = archive /\ ordered' = ordered /\ slides' = slides /\ pc' = pc /\ text' = text
      /\ outcome' = outcome /\ at' = at /\ unread' = unread
  BY DEF Cancel, vars, partVars
<1>2. Walk'
  BY <1>1, SameArchive DEF Walk, Walking, Streaming, Buffering, Finished
<1>3. Ahead' = Ahead /\ Open' = Open
  BY <1>1 DEF Ahead, Open
<1> QED
  BY <1>1, <1>2, <1>3, SameArchive DEF Deck, Walking, Finished

(* The walk and the deck are kept. *)
LEMMA WalkStep == ASSUME Walk, Deck, [Next]_vars PROVE Walk' /\ Deck'
<1>1. Terminated => UNCHANGED vars
  BY DEF Terminated
<1> QED
  BY <1>1, OpenWalk, PartWalk, PresentationWalk, OrderWalk, NextWalk, SlideWalk, RelsWalk, NotesWalk,
     DocumentWalk, QuietWalk DEF Next, ExtractStep

(* They hold at the start. *)
LEMMA InitWalk == Init => Walk /\ Deck
  BY DEF Init, Walk, Deck, Walking, Streaming, Buffering, Finished

(* They hold throughout. *)
LEMMA WalkInvariance == Spec => [](Walk /\ Deck)
<1>1. Walk /\ Deck /\ [Next]_vars => (Walk /\ Deck)'
  BY WalkStep
<1> QED
  BY <1>1, InitWalk, PTL DEF Spec

(* PPTX extraction keeps every slide of a deck once, in its order and with its own notes,
   however the archive lists, names and numbers them (resolveOrder, notesFor). *)
THEOREM DecksInOrder == Spec => []DeckInOrder
<1>1. ASSUME Walk, Deck PROVE DeckInOrder
  <2> SUFFICES ASSUME Finished, archive.kind = "pptx" PROVE DeckInOrder
    BY DEF DeckInOrder
  <2> DEFINE name(k) == Entry(text[k].entry).name
             shown == {k \in DOMAIN text : text[k].part = "slide"}
             mention(k) == {m \in DOMAIN Mentioned : Mentioned[m] = name(k)}
  <2>0. text \in Seq(Writing) /\ Len(text) \in Nat /\ DOMAIN text = 1..Len(text) /\ slides = <<>>
    BY <1>1 DEF Walk
  <2>1. pc = "done"
    BY <1>1 DEF Walk, Finished
  <2>2. Arranged(text, <<>>) /\ NotesFollow(text, 0)
    BY <1>1, <2>0, <2>1 DEF Deck, Ahead, Open
  <2>3. Len(<<>>) = 0 /\ 1..0 = {}
    OBVIOUS
  <2>4. \A s : Wanted(s) <=> \E k \in shown : name(k) = s
    BY <2>0, <2>2, <2>3 DEF Arranged
  <2>5. {name(k) : k \in shown} = {s \in SlideParts : Wanted(s)}
    <3>1. \A s : Wanted(s) <=> s \in {name(k) : k \in shown}
      BY <2>4
    <3> QED
      BY <3>1 DEF Wanted
  <2>6. ASSUME NEW j \in shown, NEW k \in shown, j < k
        PROVE  /\ name(j) # name(k)
               /\ IF mention(k) # {} THEN mention(j) # {} /\ Min(mention(j)) < Min(mention(k))
                  ELSE mention(j) # {} \/ number[name(j)] <= number[name(k)]
    <3>1. Before(text[j].entry, text[k].entry)
      BY <2>0, <2>2, <2>6 DEF Arranged
    <3> QED
      BY <3>1 DEF Before, Mention
  <2>7. ASSUME NEW k \in shown
        PROVE  {name(n) : n \in {k + 1} \intersect (DOMAIN text \ shown)} = Notes(name(k))
    <3>1. Noted(text, k) \/ k = 0
      BY <2>0, <2>2 DEF NotesFollow
    <3>2. k # 0 /\ k \in Nat
      BY <2>0
    <3>3. CASE k + 1 \in 1..Len(text) /\ text[k + 1].part # "slide"
      <4>1. {k + 1} \intersect (DOMAIN text \ shown) = {k + 1}
        BY <2>0, <3>3
      <4>2. OwnNotes(text, k + 1)
        BY <2>2, <3>3 DEF NotesFollow
      <4>3. k + 1 - 1 = k
        BY <3>2
      <4>4. Notes(name(k)) = {name(k + 1)}
        BY <4>2, <4>3 DEF OwnNotes
      <4> QED
        BY <4>1, <4>4
    <3>4. CASE Notes(name(k)) = {} /\ ~(k + 1 \in 1..Len(text) /\ text[k + 1].part # "slide")
      <4>1. {k + 1} \intersect (DOMAIN text \ shown) = {}
        BY <2>0, <3>4
      <4> QED
        BY <3>4, <4>1
    <3> QED
      BY <3>1, <3>2, <3>3, <3>4 DEF Noted
  <2>8. ASSUME NEW k \in DOMAIN text \ shown PROVE k - 1 \in shown
    BY <2>0, <2>2 DEF NotesFollow, OwnNotes
  <2> QED
    BY <2>5, <2>6, <2>7, <2>8 DEF DeckInOrder
<1> QED
  BY <1>1, WalkInvariance, PTL
-------------------------------------------------------------------------------
(* What is decompressed. *)

(* The sums of what the written parts t took, behind the order of the slides. *)
Sums(f, t) ==
  f = [k \in 0..Len(t) |-> IF k = 0 THEN OrderCost ELSE f[k - 1] + Cost(t[k])]

(* With the written parts t, v was taken. *)
Spends(v, t) == \E f : Sums(f, t) /\ f[Len(t)] = v

(* Sizes are numbers. *)
LEMMA SizesAreNat ==
  ASSUME archive \in Archives
  PROVE  /\ \A i \in DOMAIN files : Entry(i).size \in Nat
         /\ \A s : SizeOf(s) \in Nat
         /\ OrderCost \in Nat
         /\ \A t \in Writing : Cost(t) \in Nat
<1>1. \A i \in DOMAIN files : Entry(i).size \in Nat
  BY FilesFacts DEF Entries
<1>2. \A s : SizeOf(s) \in Nat
  BY <1>1, NamedFacts DEF SizeOf
<1>3. OrderCost \in Nat
  BY <1>2 DEF OrderCost
<1>4. ASSUME NEW t \in Writing PROVE Cost(t) \in Nat
  <2>1. Entry(t.entry).size \in Nat /\ SizeOf(relsOf[Entry(t.entry).name]) \in Nat
    BY <1>1, <1>2 DEF Writing
  <2> QED
    BY <2>1 DEF Cost
<1> QED
  BY <1>1, <1>2, <1>3, <1>4

(* Before anything is written only the order has cost something. *)
LEMMA SpendsFirst == /\ Spends(OrderCost, <<>>)
                     /\ \A v : Spends(v, <<>>) => v = OrderCost
<1> DEFINE f == [k \in 0..0 |-> OrderCost]
<1>1. Len(<<>>) = 0 /\ 0 \in 0..0 /\ \A k \in 0..0 : k = 0
  OBVIOUS
<1>2. f[0] = OrderCost
  BY <1>1
<1>3. f = [k \in 0..0 |-> IF k = 0 THEN OrderCost ELSE f[k - 1] + Cost(<<>>[k])]
  BY <1>1
<1>4. Spends(OrderCost, <<>>)
  <2> HIDE DEF f
  <2> QED
    BY <1>1, <1>2, <1>3 DEF Spends, Sums
<1>5. ASSUME NEW v, Spends(v, <<>>) PROVE v = OrderCost
  <2>1. PICK g : Sums(g, <<>>) /\ g[0] = v
    BY <1>1, <1>5 DEF Spends
  <2> QED
    BY <1>1, <2>1 DEF Sums
<1> QED
  BY <1>4, <1>5

(* A written part adds what it took. *)
LEMMA SpendsMore ==
  ASSUME NEW X, NEW t \in Seq(X), NEW w \in X, NEW v, Spends(v, t)
  PROVE  Spends(v + Cost(w), Append(t, w))
<1> DEFINE u == Append(t, w)
           n == Len(t)
<1>1. PICK f : Sums(f, t) /\ f[n] = v
  BY DEF Spends
<1> DEFINE g == [k \in 0..(n + 1) |-> IF k = n + 1 THEN v + Cost(w) ELSE f[k]]
<1>2. /\ n \in Nat /\ Len(u) = n + 1 /\ u[n + 1] = w
      /\ \A k \in 1..n : u[k] = t[k]
  BY AppendFacts
<1>3. /\ \A k \in 0..(n + 1) : k = 0 \/ k \in 1..n \/ k = n + 1
      /\ \A k \in 1..n : k \in 0..n /\ k # 0 /\ k # n + 1 /\ k - 1 \in 0..(n + 1) /\ k - 1 # n + 1
      /\ 0 \in 0..n /\ 0 # n + 1 /\ n + 1 - 1 = n /\ n \in 0..(n + 1) /\ n # n + 1
      /\ n + 1 \in 0..(n + 1) /\ 0 \in 0..(n + 1) /\ n + 1 # 0
  BY <1>2
<1>4. /\ f[0] = OrderCost
      /\ \A k \in 1..n : f[k] = f[k - 1] + Cost(t[k])
  <2>1. f = [k \in 0..n |-> IF k = 0 THEN OrderCost ELSE f[k - 1] + Cost(t[k])]
    BY <1>1 DEF Sums
  <2> HIDE DEF n
  <2>2. f[0] = OrderCost
    BY <1>3, <2>1
  <2>3. ASSUME NEW k \in 1..n PROVE f[k] = f[k - 1] + Cost(t[k])
    BY <1>3, <2>1
  <2> QED
    BY <2>2, <2>3
<1>5. ASSUME NEW k \in 0..(n + 1)
      PROVE  g[k] = IF k = 0 THEN OrderCost ELSE g[k - 1] + Cost(u[k])
  <2> HIDE DEF n, u
  <2>1. CASE k = 0
    BY <1>3, <1>4, <2>1
  <2>2. CASE k \in 1..n
    <3>1. g[k] = f[k] /\ g[k - 1] = f[k - 1]
      BY <1>3, <2>2
    <3> HIDE DEF g
    <3> QED
      BY <1>2, <1>3, <1>4, <2>2, <3>1
  <2>3. CASE k = n + 1
    <3>1. k - 1 = n
      BY <1>3, <2>3
    <3>2. g[k] = v + Cost(w) /\ g[k - 1] = f[n]
      BY <1>3, <2>3, <3>1
    <3> HIDE DEF g
    <3> QED
      BY <1>1, <1>2, <1>3, <2>3, <3>2
  <2> QED
    BY <1>3, <2>1, <2>2, <2>3
<1>6. g[n + 1] = v + Cost(w) /\ g = [k \in 0..(n + 1) |-> g[k]]
  BY <1>3
<1> HIDE DEF g, n, u
<1>7. Sums(g, u)
  BY <1>2, <1>5, <1>6 DEF Sums
<1>8. Spends(v + Cost(w), u)
  BY <1>2, <1>6, <1>7 DEF Spends
<1> QED
  BY <1>8 DEF u

(* The sums are the ones Needed names. *)
LEMMA SpendsNeeded ==
  ASSUME NEW X, text \in Seq(X), NEW v, Spends(v, text)
  PROVE  Needed = v
<1> DEFINE n == Len(text)
           g == CHOOSE f : Sums(f, text)
<1>1. PICK f : Sums(f, text) /\ f[n] = v
  BY DEF Spends
<1>2. Sums(g, text)
  BY <1>1
<1>3. Needed = g[n]
  BY DEF Needed, Sums
<1> HIDE DEF g
<1> DEFINE bad == {m \in Nat : m <= n /\ f[m] # g[m]}
<1>4. n \in Nat
  OBVIOUS
<1> HIDE DEF n
<1>5. \A k \in 0..n : /\ f[k] = IF k = 0 THEN OrderCost ELSE f[k - 1] + Cost(text[k])
                      /\ g[k] = IF k = 0 THEN OrderCost ELSE g[k - 1] + Cost(text[k])
  <2>1. f = [k \in 0..n |-> IF k = 0 THEN OrderCost ELSE f[k - 1] + Cost(text[k])]
    BY <1>1 DEF Sums, n
  <2>2. g = [k \in 0..n |-> IF k = 0 THEN OrderCost ELSE g[k - 1] + Cost(text[k])]
    BY <1>2 DEF Sums, n
  <2> QED
    BY <2>1, <2>2
<1>6. bad = {}
  <2>1. SUFFICES ASSUME bad # {} PROVE FALSE
    OBVIOUS
  <2>2. bad \in SUBSET Nat
    OBVIOUS
  <2>3. PICK m \in bad : \A y \in bad : m <= y
    <3> HIDE DEF bad
    <3> QED
      BY <2>1, <2>2, Least
  <2>4. m \in 0..n /\ f[m] # g[m] /\ m \in Nat
    BY <1>4, <2>3
  <2>5. m # 0
    BY <1>5, <2>4
  <2>6. m - 1 \in Nat /\ m - 1 <= n /\ ~(m <= m - 1)
    BY <1>4, <2>4, <2>5
  <2>7. f[m - 1] = g[m - 1]
    BY <2>3, <2>6
  <2> QED
    BY <1>5, <2>4, <2>5, <2>7
<1>7. f[n] = g[n]
  BY <1>4, <1>6
<1> QED
  BY <1>1, <1>3, <1>7

(* What has been taken, where the parts read add up to v. *)
Spent(v) ==
  /\ v \in Nat /\ Spends(v, text)
  /\ pc = "open" => taken = 0
  /\ pc = "presentation" => taken + unread = SizeOf("presentation")
  /\ pc \in {"presentationRels", "rels"} => taken + unread = v
  /\ pc \in {"order", "slides"} => taken = v
  /\ pc \in {"slide", "notes", "document"} => taken + unread = v + Entry(at).size
  /\ Finished => taken = v

(* What was taken is accounted for. *)
SpentInv == \E v : Spent(v)
(* A step that writes nothing leaves the sums alone. *)
LEMMA SpendsSame ==
  ASSUME archive' = archive, text' = text, NEW v, Spends(v, text)
  PROVE  Spends(v, text)'
  BY SameArchive DEF Spends, Sums

(* A step that writes a part adds its cost. *)
LEMMA SpendsWrite ==
  ASSUME archive' = archive, text \in Seq(Writing), NEW w \in Writing, text' = Append(text, w),
         NEW v, Spends(v, text)
  PROVE  \E x : x = v + Cost(w) /\ Spends(x, text)'
<1>1. PICK x : x = v + Cost(w)
  OBVIOUS
<1>2. Spends(x, Append(text, w))
  BY <1>1, SpendsMore
<1>3. Spends(x, text)'
  BY <1>2, SameArchive DEF Spends, Sums
<1> QED
  BY <1>1, <1>3

(* Steps that write nothing keep the account of what was taken. *)
LEMMA QuietSpent ==
  ASSUME Walk, taken \in Nat, NEW v, Spent(v), text' = text, archive' = archive,
         \/ OpenArchive \/ PresentationRead \/ PresentationRelsRead \/ OrderSlides \/ NextSlide \/ DeckRead
         \/ PartFails \/ DecodeCanceled \/ RelsRead \/ Cancel \/ UNCHANGED vars
  PROVE  Spent(v)'
<1>0. /\ archive \in Archives /\ Spends(v, text)' /\ v \in Nat
      /\ \A s : SizeOf(s) \in Nat /\ SizeOf(s)' = SizeOf(s)
      /\ \A i \in DOMAIN files : Entry(i).size \in Nat
      /\ \A i : Entry(i)' = Entry(i) /\ Entry(i) = files[i]
  BY SpendsSame, SizesAreNat, SameArchive DEF Walk, Spent, Entry
<1>1. CASE OpenArchive
  <2>1. pc = "open" /\ text = <<>> /\ taken' = taken /\ taken = 0
    BY <1>1 DEF OpenArchive, Walk, Spent
  <2>2. v = OrderCost
    BY <2>1, SpendsFirst DEF Spent
  <2>3. CASE pc' = "done" /\ outcome' = "malformed"
    BY <1>0, <2>3 DEF Spent, Finished
  <2>4. CASE /\ archive.kind = "docx" /\ Named("document") # {}
             /\ Begin(Min(Named("document")), "document", remaining)
    <3>1. v = 0
      BY <2>2, <2>4 DEF OrderCost
    <3>2. Min(Named("document")) \in DOMAIN files
      BY <1>0, <2>4, NamedFacts
    <3>3. pc' = "document" /\ outcome' = "none" /\ unread' = Entry(at').size /\ Entry(at').size \in Nat
      BY <1>0, <2>1, <2>4, <3>2 DEF Begin, Walk
    <3> QED
      BY <1>0, <2>1, <3>1, <3>3 DEF Spent, Finished
  <2>5. CASE Listed /\ Begin(byName("presentation"), "presentation", remaining)
    <3>1. pc' = "presentation" /\ outcome' = "none" /\ unread' = Entry(byName("presentation")).size
      BY <1>0, <2>1, <2>5 DEF Begin, Walk
    <3>2. unread' = SizeOf("presentation")
      BY <2>5, <3>1 DEF SizeOf, Listed
    <3> QED
      BY <1>0, <2>1, <3>1, <3>2 DEF Spent, Finished
  <2>6. CASE ~Listed /\ pc' = "order" /\ outcome' = outcome
    <3>1. v = 0
      BY <2>2, <2>6 DEF OrderCost, Listed
    <3>2. outcome' = "none"
      BY <2>1, <2>6 DEF Walk
    <3> QED
      BY <1>0, <2>1, <2>6, <3>1, <3>2 DEF Spent, Finished
  <2> QED
    BY <1>1, <2>3, <2>4, <2>5, <2>6 DEF OpenArchive, Return, Listed
<1>2. CASE PresentationRead
  <2>1. /\ pc = "presentation" /\ pc' = "presentationRels" /\ text = <<>> /\ taken' = taken /\ unread = 0
        /\ outcome' = outcome /\ outcome = "none" /\ Listed /\ archive.kind = "pptx"
        /\ unread' = Entry(byName("presentationRels")).size
    BY <1>0, <1>2 DEF PresentationRead, PartEnds, Begin, Walk
  <2>2. v = SizeOf("presentation") + SizeOf("presentationRels")
    BY <2>1, SpendsFirst DEF Spent, OrderCost, Listed
  <2>3. unread' = SizeOf("presentationRels") /\ taken = SizeOf("presentation")
    <3>1. taken + 0 = SizeOf("presentation")
      BY <2>1 DEF Spent
    <3>2. unread' = SizeOf("presentationRels")
      BY <2>1 DEF SizeOf, Listed
    <3> QED
      BY <1>0, <2>1, <3>1, <3>2
  <2> QED
    BY <1>0, <2>1, <2>2, <2>3 DEF Spent, Finished
<1>3. CASE PresentationRelsRead
  <2>1. /\ pc = "presentationRels" /\ pc' = "order" /\ taken' = taken /\ unread = 0
        /\ outcome' = outcome /\ outcome = "none" /\ taken + unread = v
    BY <1>3 DEF PresentationRelsRead, PartEnds, Walk, Spent
  <2> QED
    BY <1>0, <2>1 DEF Spent, Finished
<1>4. CASE OrderSlides
  <2>1. /\ pc = "order" /\ taken' = taken /\ taken = v
        /\ pc' \in {"done", "slides"} /\ outcome' \in {"none", "malformed"}
    BY <1>4 DEF OrderSlides, Return, Walk, Spent
  <2> QED
    BY <1>0, <2>1 DEF Spent, Finished
<1>5. CASE NextSlide \/ DeckRead
  <2>1. pc = "slides" /\ taken' = taken /\ taken = v /\ outcome = "none"
    BY <1>5 DEF NextSlide, DeckRead, Walk, Spent
  <2>2. CASE pc' = "done"
    BY <1>0, <2>1, <2>2 DEF Spent
  <2>3. CASE slides # <<>> /\ Begin(Head(slides), "slide", remaining)
    <3>1. Head(slides) \in DOMAIN files
      BY <2>3, TailFacts DEF Walk
    <3>2. pc' = "slide" /\ outcome' = "none" /\ unread' = Entry(at').size /\ Entry(at').size \in Nat
      BY <1>0, <2>1, <2>3, <3>1 DEF Begin
    <3> QED
      BY <1>0, <2>1, <3>2 DEF Spent, Finished
  <2> QED
    BY <1>5, <2>2, <2>3 DEF NextSlide, DeckRead, Return
<1>6. CASE PartFails \/ DecodeCanceled
  <2>1. pc' = "done" /\ outcome' \in {"malformed", "canceled"}
    BY <1>6 DEF PartFails, DecodeCanceled, Return
  <2> QED
    BY <1>0, <2>1 DEF Spent, Finished
<1>7. CASE RelsRead
  <2>1. pc = "rels" /\ taken' = taken /\ unread = 0 /\ outcome = "none" /\ taken + unread = v
    BY <1>7 DEF RelsRead, PartEnds, Walk, Spent
  <2>2. CASE pc' = "done" /\ outcome' = "malformed"
    BY <1>0, <2>2 DEF Spent, Finished
  <2>3. CASE SlideDone
    BY <1>0, <2>1, <2>3 DEF Spent, Finished, SlideDone
  <2>4. CASE Named(Head(Entry(at).refs)) # {} /\ Begin(byName(Head(Entry(at).refs)), "notes", allowance)
    <3>1. byName(Head(Entry(at).refs)) \in DOMAIN files
      BY <1>0, <2>4, NamedFacts
    <3>2. pc' = "notes" /\ outcome' = "none" /\ unread' = Entry(at').size /\ Entry(at').size \in Nat
      BY <1>0, <2>1, <2>4, <3>1 DEF Begin
    <3> QED
      BY <1>0, <2>1, <3>2 DEF Spent, Finished
  <2> QED
    BY <1>7, <2>2, <2>3, <2>4 DEF RelsRead, Return
<1>8. CASE Cancel \/ UNCHANGED vars
  <2>1. pc' = pc /\ taken' = taken /\ unread' = unread /\ outcome' = outcome /\ at' = at
    BY <1>8 DEF Cancel, vars, partVars
  <2> QED
    BY <1>0, <2>1 DEF Spent, Finished
<1> QED
  BY <1>1, <1>2, <1>3, <1>4, <1>5, <1>6, <1>7, <1>8
(* A read takes what is no longer unread. *)
LEMMA ReadSpent ==
  ASSUME Walk, taken \in Nat, NEW v, Spent(v), ReadPart
  PROVE  Spent(v)'
<1>1. /\ archive' = archive /\ text' = text /\ at' = at /\ (Streaming \/ Buffering)
      /\ \/ pc' = "done" /\ outcome' = "malformed"
         \/ pc' = pc /\ outcome' = outcome
  BY DEF ReadPart, Proceeds, Return
<1>2. PICK n \in 1..unread : unread' = unread - n /\ taken' = taken + n
  BY DEF ReadPart
<1>3. unread \in Nat /\ unread' \in Nat /\ taken' \in Nat /\ taken' + unread' = taken + unread
  <2>1. Entry(at).size \in Nat
    BY <1>1, SizesAreNat DEF Walk
  <2>2. unread \in Nat
    BY <1>1, <2>1 DEF Walk
  <2> QED
    BY <1>2, <2>2
<1>4. /\ Spends(v, text)' /\ v \in Nat
      /\ \A s : SizeOf(s)' = SizeOf(s)
      /\ \A i : Entry(i)' = Entry(i)
  BY <1>1, SpendsSame, SameArchive DEF Spent
<1>5. CASE pc' = "done" /\ outcome' = "malformed"
  BY <1>4, <1>5 DEF Spent, Finished
<1>6. CASE pc' = pc /\ outcome' = outcome
  <2>1. outcome' = "none"
    BY <1>1, <1>6 DEF Walk, Streaming, Buffering
  <2>2. pc' \notin {"open", "order", "slides"}
    BY <1>1, <1>6 DEF Streaming, Buffering
  <2> QED
    BY <1>1, <1>3, <1>4, <1>6, <2>1, <2>2 DEF Spent, Finished
<1> QED
  BY <1>1, <1>5, <1>6

(* A part that is written has taken its size, and a slide that of its relationships, which
   are read next. *)
LEMMA WriteSpent ==
  ASSUME Walk, taken \in Nat, NEW v, Spent(v), SlideRead \/ NotesRead \/ DocumentRead
  PROVE  \E x : Spent(x)'
<1> DEFINE w == [part |-> pc, entry |-> at]
           rels == relsOf[Entry(at).name]
<1>1. /\ archive' = archive /\ text' = Append(text, w) /\ unread = 0 /\ taken' = taken
      /\ pc \in {"slide", "notes", "document"}
      /\ archive \in Archives /\ at \in DOMAIN files /\ text \in Seq(Writing) /\ outcome = "none"
      /\ taken + unread = v + Entry(at).size /\ v \in Nat /\ Spends(v, text)
  BY DEF SlideRead, NotesRead, DocumentRead, PartEnds, Write, Walk, Streaming, Spent
<1>2. w \in Writing /\ w.part = pc /\ w.entry = at
  BY <1>1 DEF Writing
<1>3. /\ Entry(at).size \in Nat /\ SizeOf(rels) \in Nat /\ Cost(w) \in Nat
      /\ \A i \in DOMAIN files : Entry(i).size \in Nat
      /\ \A i : Entry(i)' = Entry(i) /\ Entry(i) = files[i]
      /\ \A s : SizeOf(s)' = SizeOf(s)
  BY <1>1, <1>2, SizesAreNat, SameArchive DEF Entry
<1>4. Cost(w) = Entry(at).size + IF pc = "slide" THEN SizeOf(rels) ELSE 0
  BY <1>2 DEF Cost
<1> HIDE DEF w
<1>5. PICK x : x = v + Cost(w) /\ Spends(x, text)'
  BY <1>1, <1>2, SpendsWrite
<1>6. x \in Nat /\ taken = v + Entry(at).size
  BY <1>1, <1>3, <1>5
<1>7. CASE pc = "slide"
  <2>1. x = taken + SizeOf(rels)
    BY <1>1, <1>3, <1>4, <1>5, <1>6, <1>7
  <2>2. outcome' = "none" /\ (Named(rels) = {} => pc' = "slides")
        /\ (Named(rels) # {} => pc' = "rels" /\ unread' = files[byName(rels)].size)
    BY <1>1, <1>7 DEF SlideRead, NotesRead, DocumentRead, PartEnds, SlideDone, Begin
  <2>3. CASE Named(rels) = {}
    <3>1. x = taken
      BY <1>1, <2>1, <2>3 DEF SizeOf
    <3> QED
      BY <1>1, <1>5, <1>6, <2>2, <2>3, <3>1 DEF Spent, Finished
  <2>4. CASE Named(rels) # {}
    <3>1. unread' = SizeOf(rels)
      BY <1>3, <2>2, <2>4 DEF SizeOf
    <3> QED
      BY <1>1, <1>3, <1>5, <1>6, <2>1, <2>2, <2>4, <3>1 DEF Spent, Finished
  <2> QED
    BY <2>3, <2>4
<1>8. CASE pc # "slide"
  <2>1. x = taken
    BY <1>1, <1>3, <1>4, <1>5, <1>6, <1>8
  <2>2. pc' \in {"slides", "done"}
    BY <1>1, <1>8 DEF SlideRead, NotesRead, DocumentRead, PartEnds, SlideDone, Return
  <2> QED
    BY <1>1, <1>5, <1>6, <2>1, <2>2 DEF Spent
<1> QED
  BY <1>7, <1>8

(* The account of what was taken is kept. *)
LEMMA SpentStep == ASSUME IInv, Walk, SpentInv, [Next]_vars PROVE SpentInv'
<1>1. PICK v : Spent(v)
  BY DEF SpentInv
<1>2. taken \in Nat
  BY DEF IInv, Account
<1>3. CASE ReadPart
  BY <1>1, <1>2, <1>3, ReadSpent DEF SpentInv
<1>4. CASE SlideRead \/ NotesRead \/ DocumentRead
  BY <1>1, <1>2, <1>4, WriteSpent DEF SpentInv
<1>5. CASE \/ OpenArchive \/ PresentationRead \/ PresentationRelsRead \/ OrderSlides \/ NextSlide \/ DeckRead
           \/ PartFails \/ DecodeCanceled \/ RelsRead \/ Cancel \/ UNCHANGED vars
  <2>1. text' = text /\ archive' = archive
    BY <1>5 DEF OpenArchive, PresentationRead, PresentationRelsRead, OrderSlides, NextSlide, DeckRead,
       PartFails, DecodeCanceled, RelsRead, Cancel, PartEnds, vars
  <2> QED
    BY <1>1, <1>2, <1>5, <2>1, QuietSpent DEF SpentInv
<1> QED
  BY <1>3, <1>4, <1>5 DEF Next, ExtractStep, Terminated

(* It holds at the start. *)
LEMMA InitSpent == Init => SpentInv
<1> SUFFICES ASSUME Init PROVE Spent(OrderCost)
  BY DEF SpentInv
<1>1. OrderCost \in Nat /\ Spends(OrderCost, text)
  BY SizesAreNat, SpendsFirst DEF Init
<1> QED
  BY <1>1 DEF Init, Spent, Finished

(* It holds throughout. *)
LEMMA SpentInvariance == Spec => []SpentInv
<1>1. IInv /\ Walk /\ SpentInv /\ [Next]_vars => SpentInv'
  BY SpentStep
<1> QED
  BY <1>1, InitSpent, Invariance, WalkInvariance, PTL DEF Spec

(* What comes back of an archive was decompressed as a whole, each part once, and all of
   them on one budget (partDecoder.readPart, partDecoder.decode, cappedReader). *)
THEOREM BudgetAlwaysShared == Spec => []BudgetShared
<1>1. ASSUME Walk, SpentInv, Finished PROVE taken = Needed
  <2>1. PICK v : Spent(v)
    BY <1>1 DEF SpentInv
  <2>2. taken = v /\ Spends(v, text) /\ text \in Seq(Writing)
    BY <1>1, <2>1 DEF Spent, Walk
  <2> QED
    BY <2>2, SpendsNeeded
<1>2. IInv /\ Walk /\ SpentInv => BudgetShared
  BY <1>1 DEF IInv, BudgetShared
<1> QED
  BY <1>2, Invariance, WalkInvariance, SpentInvariance, PTL

-------------------------------------------------------------------------------
(* Causes. *)

(* Some slide fails. *)
Fails ==
  archive.kind = "pptx" /\ \E s \in SlideParts : Wanted(s) /\ \E i \in SlideEntries(s) : SlideFails(s, i)

(* Nothing has to fail. *)
Passes ==
  /\ ~Unreadable
  /\ archive.kind = "pptx" =>
       \A s \in SlideParts : Wanted(s) => \E i \in SlideEntries(s) : ~SlideFails(s, i)

(* An archive without text. *)
Textless ==
  IF archive.kind = "docx" THEN ~Entry(Min(Named("document"))).text
  ELSE \A s \in SlideParts : Wanted(s) =>
         (\E i \in SlideEntries(s) : ~Entry(i).text) /\ \A n \in Notes(s) : ~Entry(byName(n)).text

(* The relationships of a slide can be used, or it has none. *)
RelsFine(s) == Named(relsOf[s]) = {} \/ Entry(byName(relsOf[s])).state = "ok"

(* The presentation or its relationships cannot be decompressed. *)
OrderFails == Listed /\ \E s \in {"presentation", "presentationRels"} : Entry(byName(s)).state = "corrupt"

(* What was written is sound, and of each slide but the one at the place open so are the
   relationships. *)
Sound(t, open) ==
  \A k \in 1..Len(t) :
    /\ Entry(t[k].entry).state = "ok"
    /\ t[k].part = "slide" => Chosen(t[k].entry) /\ (k = open \/ RelsFine(Entry(t[k].entry).name))

(* The place of the slide whose relationships are being read. *)
Unchecked == IF pc = "rels" THEN Len(text) ELSE 0

(* What Extract has passed over while it goes on. *)
Held ==
  pc \notin {"open", "done"} =>
    /\ archive.zip
    /\ pc = "presentationRels" => Entry(byName("presentation")).state # "corrupt"
    /\ pc = "order" \/ Walking => ~OrderFails
    /\ Walking => /\ \E s \in SlideParts : Wanted(s)
                  /\ \A i \in 1..Len(slides) : Chosen(slides[i])
                  /\ Sound(text, Unchecked)

(* All of these are about the archive alone. *)
LEMMA SameFaults ==
  ASSUME archive' = archive
  PROVE  /\ Fails' = Fails /\ Passes' = Passes /\ Textless' = Textless
         /\ Unreadable' = Unreadable /\ OrderFails' = OrderFails
         /\ \A i : Chosen(i)' = Chosen(i)
         /\ \A s : RelsFine(s)' = RelsFine(s)
         /\ \A t, b : Sound(t, b)' = Sound(t, b)
<1>1. /\ files' = files /\ Mentioned' = Mentioned /\ Listed' = Listed /\ \A i : Entry(i)' = Entry(i)
      /\ \A s : Named(s)' = Named(s) /\ byName(s)' = byName(s) /\ Notes(s)' = Notes(s) /\ Wanted(s)' = Wanted(s)
  BY SameArchive
<1>2. \A s : SlideEntries(s)' = SlideEntries(s)
  BY <1>1 DEF SlideEntries
<1>3. \A s, i : SlideFails(s, i)' = SlideFails(s, i)
  BY <1>1 DEF SlideFails
<1>4. Unreadable' = Unreadable /\ OrderFails' = OrderFails
  BY <1>1 DEF Unreadable, OrderFails
<1>5. Fails' = Fails /\ Passes' = Passes
  BY <1>1, <1>2, <1>3, <1>4 DEF Fails, Passes
<1>6. Textless' = Textless
  BY <1>1, <1>2 DEF Textless
<1>7. /\ \A i : Chosen(i)' = Chosen(i)
      /\ \A s : RelsFine(s)' = RelsFine(s)
  BY <1>1, <1>2 DEF Chosen, RelsFine
<1>8. \A t, b : Sound(t, b)' = Sound(t, b)
  BY <1>1, <1>7 DEF Sound
<1> QED
  BY <1>4, <1>5, <1>6, <1>7, <1>8

(* A part that is written is sound, and keeps what was written so. *)
LEMMA SoundWrite ==
  ASSUME archive \in Archives, text \in Seq(Writing), Sound(text, 0), NEW w, w \in Writing,
         Entry(w.entry).state = "ok", w.part = "slide" => Chosen(w.entry)
  PROVE  /\ Sound(Append(text, w), Len(Append(text, w)))
         /\ w.part # "slide" \/ RelsFine(Entry(w.entry).name) => Sound(Append(text, w), 0)
<1> DEFINE t == Append(text, w)
<1>1. /\ Len(text) \in Nat /\ Len(t) = Len(text) + 1 /\ t[Len(t)] = w
      /\ \A k \in 1..Len(text) : t[k] = text[k]
  BY AppendFacts
<1> HIDE DEF t
<1>2. \A k \in 1..Len(t) : k = Len(t) \/ k \in 1..Len(text)
  BY <1>1
<1>3. \A k \in 1..Len(text) : k # 0 /\ k # Len(t)
  BY <1>1
<1> QED
  BY <1>1, <1>2, <1>3 DEF Sound, t

(* The slide whose part is being read or was just written is one of the deck, and is read
   from one of its entries. *)
LEMMA SlideAtHand ==
  ASSUME Walk, Deck, Held, pc \in {"slide", "rels", "notes"}
  PROVE  LET s == Entry(slides[1]).name
         IN  archive.kind = "pptx" /\ s \in SlideParts /\ Wanted(s) /\ slides[1] \in SlideEntries(s)
<1> DEFINE s == Entry(slides[1]).name
<1>1. /\ archive.kind = "pptx" /\ slides # <<>> /\ slides \in Seq(DOMAIN files) /\ Arranged(text, Ahead)
      /\ text \in Seq(Writing)
  BY DEF Walk, Deck, Walking
<1>2. 1 \in 1..Len(slides)
  BY <1>1, TailFacts
<1>3. s \in SlideParts /\ slides[1] \in SlideEntries(s)
  BY <1>2 DEF Walk, Held, Walking, Chosen
<1>4. CASE pc = "slide"
  <2>1. Ahead = slides
    BY <1>4 DEF Ahead
  <2> QED
    BY <1>1, <1>2, <1>3, <2>1 DEF Arranged
<1>5. CASE pc \in {"rels", "notes"}
  <2>1. text # <<>> /\ text[Len(text)] = [part |-> "slide", entry |-> slides[1]]
    BY <1>5 DEF Walk
  <2>2. Len(text) \in 1..Len(text)
    BY <1>1, <2>1
  <2>3. text[Len(text)].part = "slide" /\ text[Len(text)].entry = slides[1]
    BY <2>1
  <2> QED
    BY <1>1, <1>3, <2>2, <2>3 DEF Arranged
<1> QED
  BY <1>4, <1>5

(* What was passed over is kept. *)
LEMMA HeldStep == ASSUME Walk, Deck, Held, [Next]_vars PROVE Held'
<1>1. archive' = archive
  BY DEF Next, ExtractStep, Terminated, vars, OpenArchive, PresentationRead, PresentationRelsRead, OrderSlides,
     NextSlide, DeckRead, PartFails, DecodeCanceled, RelsRead, Cancel, PartEnds, ReadPart, SlideRead,
     NotesRead, DocumentRead
<1>2. /\ OrderFails' = OrderFails /\ \A s : Wanted(s)' = Wanted(s) /\ byName(s)' = byName(s)
      /\ \A i : Chosen(i)' = Chosen(i) /\ Entry(i)' = Entry(i)
      /\ \A t, b : Sound(t, b)' = Sound(t, b)
  BY <1>1, SameArchive, SameFaults
<1>3. SUFFICES ASSUME pc' \notin {"open", "done"} PROVE Held'
  BY DEF Held
<1>4. CASE OpenArchive
  <2>1. archive.zip /\ pc' \in {"document", "presentation", "order"} /\ (pc' = "order" => ~Listed)
    BY <1>3, <1>4 DEF OpenArchive, Return, Begin, Listed
  <2> QED
    BY <1>1, <1>2, <2>1 DEF Held, Walking, OrderFails
<1>5. CASE PresentationRead
  <2>1. pc = "presentation" /\ pc' = "presentationRels" /\ Entry(at).state # "corrupt"
    BY <1>5 DEF PresentationRead, PartEnds, Begin
  <2>2. at = byName("presentation")
    BY <2>1 DEF Walk
  <2> QED
    BY <1>1, <1>2, <2>1, <2>2 DEF Held, Walking
<1>6. CASE PresentationRelsRead
  <2>1. pc = "presentationRels" /\ pc' = "order" /\ Entry(at).state # "corrupt"
    BY <1>6 DEF PresentationRelsRead, PartEnds
  <2>2. at = byName("presentationRels") /\ Entry(byName("presentation")).state # "corrupt" /\ archive.zip
    BY <2>1 DEF Walk, Held
  <2> QED
    BY <1>1, <1>2, <2>1, <2>2 DEF Held, Walking, OrderFails
<1>7. CASE OrderSlides
  <2>1. /\ pc = "order" /\ pc' = "slides" /\ text' = text /\ slides' # <<>>
        /\ \E numbered \in sortedSlides : slides' = resolveOrder(numbered)
    BY <1>3, <1>7 DEF OrderSlides, Return
  <2>2. /\ archive \in Archives /\ ordered = Mentioned /\ text = <<>> /\ archive.zip /\ ~OrderFails
    BY <2>1 DEF Walk, Held
  <2>3. PICK m \in Nat : DOMAIN Mentioned = 1..m
    BY <2>2, MentionedDomain
  <2>4. /\ slides' \in Seq(DOMAIN files)
        /\ \A i \in 1..Len(slides') : Entry(slides'[i]).name \in SlideParts /\ Chosen(slides'[i])
        /\ \A s : Wanted(s) <=> \E i \in 1..Len(slides') : Entry(slides'[i]).name = s
    <3>1. PICK numbered \in sortedSlides : slides' = resolveOrder(numbered)
      BY <2>1
    <3>2. PICK order : order = resolveOrder(numbered)
      OBVIOUS
    <3>3. /\ order \in Seq(DOMAIN files)
          /\ \A i \in 1..Len(order) : Entry(order[i]).name \in SlideParts /\ Chosen(order[i])
          /\ \A s : Wanted(s) <=> \E i \in 1..Len(order) : Entry(order[i]).name = s
      BY <2>2, <2>3, <3>2, SlidesOrdered
    <3> QED
      BY <3>1, <3>2, <3>3
  <2>5. 1 \in 1..Len(slides')
    BY <2>1, <2>4, TailFacts
  <2>6. \E s \in SlideParts : Wanted(s)
    BY <2>4, <2>5
  <2>7. Sound(text, 0)
    <3>1. 1..Len(<<>>) = {}
      OBVIOUS
    <3> QED
      BY <2>2, <3>1 DEF Sound
  <2>8. Unchecked' = 0
    BY <2>1 DEF Unchecked
  <2> QED
    BY <1>1, <1>2, <2>1, <2>2, <2>4, <2>6, <2>7, <2>8 DEF Held, Walking
<1>8. CASE NextSlide
  <2>1. pc = "slides" /\ pc' = "slide" /\ text' = text /\ slides' = slides
    BY <1>3, <1>8 DEF NextSlide, Return, Begin, deckVars
  <2> QED
    BY <1>1, <1>2, <2>1 DEF Held, Walking, Unchecked
<1>9. CASE SlideRead \/ NotesRead
  <2> DEFINE w == [part |-> pc, entry |-> at]
  <2>1. /\ pc \in {"slide", "notes"} /\ text' = Append(text, w) /\ Entry(at).state = "ok"
        /\ pc' \in {"slides", "rels"} /\ (pc' = "rels" => pc = "slide" /\ slides' = slides)
        /\ (pc' = "slides" => slides' = Tail(slides))
        /\ (pc = "slide" /\ pc' = "slides" => Named(relsOf[Entry(at).name]) = {})
    BY <1>9 DEF SlideRead, NotesRead, PartEnds, Write, SlideDone, Begin, Streaming, deckVars
  <2>2. /\ archive \in Archives /\ text \in Seq(Writing) /\ at \in DOMAIN files /\ slides # <<>>
        /\ slides \in Seq(DOMAIN files) /\ (pc = "slide" => at = slides[1])
    BY <2>1 DEF Walk, Streaming
  <2>3. /\ archive.zip /\ ~OrderFails /\ \E s \in SlideParts : Wanted(s)
        /\ \A i \in 1..Len(slides) : Chosen(slides[i])
        /\ Sound(text, 0)
    BY <2>1 DEF Held, Walking, Unchecked
  <2>4. \A i \in 1..Len(Tail(slides)) : Chosen(Tail(slides)[i])
    BY <2>2, <2>3, TailFacts
  <2>5. w \in Writing /\ w.part = pc /\ w.entry = at
    BY <2>1, <2>2 DEF Writing
  <2>6. w.part = "slide" => Chosen(w.entry)
    BY <2>2, <2>3, <2>5, TailFacts
  <2> HIDE DEF w
  <2>7. Sound(text', Len(text')) /\ (w.part # "slide" \/ RelsFine(Entry(w.entry).name) => Sound(text', 0))
    BY <2>1, <2>2, <2>3, <2>5, <2>6, SoundWrite
  <2>8. pc' = "slides" => w.part # "slide" \/ RelsFine(Entry(w.entry).name)
    BY <2>1, <2>5 DEF RelsFine
  <2>9. Sound(text', Unchecked')
    BY <2>1, <2>7, <2>8 DEF Unchecked
  <2> QED
    BY <1>1, <1>2, <2>1, <2>3, <2>4, <2>9 DEF Held, Walking
<1>10. CASE RelsRead
  <2> DEFINE s == Entry(slides[1]).name
  <2>1. /\ pc = "rels" /\ text' = text /\ Entry(at).state \notin {"bad", "corrupt"}
        /\ \/ pc' = "slides" /\ slides' = Tail(slides)
           \/ pc' = "notes" /\ slides' = slides
    BY <1>3, <1>10 DEF RelsRead, PartEnds, SlideDone, Begin, Return, deckVars
  <2>2. /\ archive \in Archives /\ text \in Seq(Writing) /\ at \in DOMAIN files /\ slides # <<>>
        /\ slides \in Seq(DOMAIN files) /\ at = byName(relsOf[s])
        /\ text[Len(text)] = [part |-> "slide", entry |-> slides[1]]
    BY <2>1 DEF Walk, Buffering
  <2>3. /\ archive.zip /\ ~OrderFails /\ \E x \in SlideParts : Wanted(x)
        /\ \A i \in 1..Len(slides) : Chosen(slides[i])
        /\ Sound(text, Len(text))
    BY <2>1 DEF Held, Walking, Unchecked
  <2>4. \A i \in 1..Len(Tail(slides)) : Chosen(Tail(slides)[i])
    BY <2>2, <2>3, TailFacts
  <2>5. RelsFine(s)
    <3>1. Entry(at).state \in {"ok", "bad", "corrupt"}
      BY <2>2, FilesFacts DEF Entries
    <3> QED
      BY <2>1, <2>2, <3>1 DEF RelsFine
  <2>6. Entry(text[Len(text)].entry).name = s
    BY <2>2
  <2>7. Sound(text, 0)
    BY <2>3, <2>5, <2>6 DEF Sound
  <2>8. Unchecked' = 0
    BY <2>1 DEF Unchecked
  <2> QED
    BY <1>1, <1>2, <2>1, <2>3, <2>4, <2>7, <2>8 DEF Held, Walking
<1>11. CASE ReadPart \/ Cancel \/ UNCHANGED vars
  <2>1. pc' = pc /\ text' = text /\ slides' = slides
    BY <1>3, <1>11 DEF ReadPart, Cancel, Return, vars
  <2> QED
    BY <1>1, <1>2, <1>3, <2>1 DEF Held, Walking, Unchecked
<1>12. CASE PartFails \/ DecodeCanceled \/ DocumentRead \/ DeckRead
  BY <1>3, <1>12 DEF PartFails, DecodeCanceled, DocumentRead, DeckRead, Return
<1> QED
  BY <1>4, <1>5, <1>6, <1>7, <1>8, <1>9, <1>10, <1>11, <1>12 DEF Next, ExtractStep, Terminated

(* It holds throughout. *)
LEMMA HeldInvariance == Spec => []Held
<1>1. Init => Held
  BY DEF Init, Held
<1>2. Walk /\ Deck /\ Held /\ [Next]_vars => Held'
  BY HeldStep
<1> QED
  BY <1>1, <1>2, WalkInvariance, PTL DEF Spec

(* A part that fails is one that Extract reads for the archive, for its order or for a slide. *)
LEMMA FailsFaulty == ASSUME Walk, Deck, Held, PartFails PROVE Unreadable \/ Fails
<1> DEFINE s == Entry(slides[1]).name
<1>1. /\ Streaming \/ Buffering
      /\ Entry(at).state # "ok" /\ (Buffering => Entry(at).state = "corrupt")
  BY DEF PartFails, Proceeds, Streaming, Buffering
<1>2. CASE pc = "document"
  BY <1>1, <1>2 DEF Walk, Unreadable
<1>3. CASE pc \in {"presentation", "presentationRels"}
  <2>1. /\ archive.kind = "pptx" /\ Listed /\ Entry(at).state = "corrupt"
        /\ at \in {byName("presentation"), byName("presentationRels")}
    BY <1>1, <1>3 DEF Walk, Buffering
  <2> QED
    BY <2>1 DEF Unreadable, Listed
<1>4. CASE pc \in {"slide", "rels", "notes"}
  <2>1. archive.kind = "pptx" /\ s \in SlideParts /\ Wanted(s) /\ slides[1] \in SlideEntries(s)
    BY <1>4, SlideAtHand
  <2>2. CASE pc = "slide"
    <3>1. at = slides[1]
      BY <2>2 DEF Walk
    <3> QED
      BY <1>1, <2>1, <3>1 DEF Fails, SlideFails
  <2>3. CASE pc = "rels"
    <3>1. Named(relsOf[s]) # {} /\ at = byName(relsOf[s])
      BY <2>3 DEF Walk
    <3>2. SlideFails(s, slides[1])
      BY <1>1, <3>1 DEF SlideFails
    <3> QED
      BY <2>1, <3>2 DEF Fails
  <2>4. CASE pc = "notes"
    <3>1. Notes(s) = {Entry(at).name} /\ at = byName(Entry(at).name)
      BY <2>4 DEF Walk
    <3>2. SlideFails(s, slides[1])
      BY <1>1, <3>1 DEF SlideFails
    <3> QED
      BY <2>1, <3>2 DEF Fails
  <2> QED
    BY <1>4, <2>2, <2>3, <2>4
<1> QED
  BY <1>1, <1>2, <1>3, <1>4 DEF Streaming, Buffering

(* Relationships that are refused fail a slide. *)
LEMMA RelsFaulty == ASSUME Walk, Deck, Held, RelsRead, outcome' = "malformed" PROVE Fails
<1> DEFINE s == Entry(slides[1]).name
<1>1. /\ pc = "rels" /\ Named(relsOf[s]) # {} /\ at = byName(relsOf[s]) /\ outcome = "none"
  BY DEF RelsRead, PartEnds, Walk
<1>2. archive.kind = "pptx" /\ s \in SlideParts /\ Wanted(s) /\ slides[1] \in SlideEntries(s)
  BY <1>1, SlideAtHand
<1>3. CASE Entry(at).state = "bad"
  <2>1. SlideFails(s, slides[1])
    BY <1>1, <1>3 DEF SlideFails
  <2> QED
    BY <1>2, <2>1 DEF Fails
<1>4. CASE Entry(at).refs # <<>> /\ Named(Head(Entry(at).refs)) = {}
  <2>1. Head(Entry(at).refs) \in Notes(s)
    BY <1>1, <1>4, NotesNamed
  <2>2. SlideFails(s, slides[1])
    BY <1>4, <2>1 DEF SlideFails
  <2> QED
    BY <1>2, <2>2 DEF Fails
<1>5. ~(SlideDone \/ UNCHANGED outcome)
  BY <1>1 DEF SlideDone
<1> QED
  BY <1>3, <1>4, <1>5 DEF RelsRead, Begin

(* A deck with no slides to order has none. *)
LEMMA OrderFaulty == ASSUME Walk, OrderSlides, outcome' = "malformed" PROVE Unreadable
<1>1. /\ pc = "order" /\ archive \in Archives /\ archive.kind = "pptx" /\ ordered = Mentioned
      /\ outcome = "none"
  BY DEF OrderSlides, Walk
<1>2. PICK numbered \in sortedSlides : resolveOrder(numbered) = <<>>
  BY <1>1 DEF OrderSlides
<1>3. PICK m \in Nat : DOMAIN Mentioned = 1..m
  BY <1>1, MentionedDomain
<1>4. \A s : ~Wanted(s)
  <2>1. \A s : Wanted(s) => \E i \in 1..Len(<<>>) : Entry(<<>>[i]).name = s
    BY <1>1, <1>2, <1>3, SlidesOrdered
  <2>2. 1..Len(<<>>) = {}
    OBVIOUS
  <2> QED
    BY <2>1, <2>2
<1> QED
  BY <1>1, <1>4 DEF Unreadable

(* A slide of a deck that was read was read from one of its entries, did not fail, and is
   with its notes among what was written. *)
LEMMA SlideWritten ==
  ASSUME Walk, Deck, Held, pc = "slides", slides = <<>>, NEW s, Wanted(s)
  PROVE  \E k \in 1..Len(text) :
           /\ text[k].entry \in SlideEntries(s) /\ ~SlideFails(s, text[k].entry)
           /\ \A n \in Notes(s) : \E j \in 1..Len(text) : text[j].entry = byName(n)
<1>1. /\ archive \in Archives /\ text \in Seq(Writing) /\ Arranged(text, <<>>) /\ NotesFollow(text, 0)
      /\ Sound(text, 0)
  BY DEF Walk, Deck, Walking, Ahead, Open, Held, Unchecked
<1>2. PICK k \in 1..Len(text) : text[k].part = "slide" /\ Entry(text[k].entry).name = s
  <2>1. Len(<<>>) = 0 /\ 1..0 = {}
    OBVIOUS
  <2> QED
    BY <1>1, <2>1 DEF Arranged
<1>3. k \in Nat /\ k # 0
  BY <1>1
<1>4. text[k].entry \in SlideEntries(s) /\ Entry(text[k].entry).state = "ok" /\ RelsFine(s)
  BY <1>1, <1>2, <1>3 DEF Sound, Chosen
<1>5. ASSUME NEW n \in Notes(s)
      PROVE  /\ \E j \in 1..Len(text) : text[j].entry = byName(n)
             /\ Named(n) # {} /\ Entry(byName(n)).state = "ok"
  <2>1. k + 1 \in 1..Len(text) /\ text[k + 1].part # "slide"
    BY <1>1, <1>2, <1>3, <1>5 DEF NotesFollow, Noted
  <2>2. OwnNotes(text, k + 1)
    BY <1>1, <2>1 DEF NotesFollow
  <2>3. k + 1 - 1 = k
    BY <1>3
  <2>4. n = Entry(text[k + 1].entry).name /\ text[k + 1].entry = byName(n)
    BY <1>2, <1>5, <2>2, <2>3 DEF OwnNotes
  <2>5. text[k + 1].entry \in DOMAIN files /\ Entry(text[k + 1].entry).state = "ok"
    <3>1. \A j \in 1..Len(text) : text[j] \in Writing
      BY <1>1
    <3> QED
      BY <1>1, <2>1, <3>1 DEF Sound, Writing
  <2>6. Named(n) # {}
    BY <2>4, <2>5 DEF Named, Entry
  <2> QED
    BY <2>1, <2>4, <2>5, <2>6
<1>6. ~SlideFails(s, text[k].entry)
  BY <1>4, <1>5 DEF SlideFails, RelsFine
<1> QED
  BY <1>4, <1>5, <1>6

(* A deck that was read has nothing on which reading it must fail. *)
LEMMA DeckPasses == ASSUME Walk, Deck, Held, DeckRead PROVE Passes
<1>1. /\ pc = "slides" /\ slides = <<>> /\ archive.kind = "pptx" /\ archive.zip /\ ~OrderFails
      /\ \E s \in SlideParts : Wanted(s)
  BY DEF DeckRead, Walk, Walking, Held
<1>2. ~Unreadable
  BY <1>1 DEF Unreadable, OrderFails, Listed
<1>3. ASSUME NEW s \in SlideParts, Wanted(s) PROVE \E i \in SlideEntries(s) : ~SlideFails(s, i)
  BY <1>1, <1>3, SlideWritten
<1> QED
  BY <1>2, <1>3 DEF Passes

(* A deck whose slides and notes were all read without text has none. *)
LEMMA DeckTextless == ASSUME Walk, Deck, Held, DeckRead, ~HasText PROVE Textless
<1>1. pc = "slides" /\ slides = <<>> /\ archive.kind = "pptx" /\ text \in Seq(Writing)
  BY DEF DeckRead, Walk, Walking
<1>2. \A k \in 1..Len(text) : ~Entry(text[k].entry).text
  <2>1. DOMAIN text = 1..Len(text)
    BY <1>1
  <2> QED
    BY <2>1 DEF HasText
<1>3. ASSUME NEW s \in SlideParts, Wanted(s)
      PROVE  (\E i \in SlideEntries(s) : ~Entry(i).text) /\ \A n \in Notes(s) : ~Entry(byName(n)).text
  <2>1. PICK k \in 1..Len(text) :
          /\ text[k].entry \in SlideEntries(s)
          /\ \A n \in Notes(s) : \E j \in 1..Len(text) : text[j].entry = byName(n)
    BY <1>1, <1>3, SlideWritten
  <2> QED
    BY <1>2, <2>1
<1> QED
  BY <1>1, <1>3 DEF Textless

(* A document that was read is sound. *)
LEMMA DocumentPasses ==
  ASSUME Walk, Held, DocumentRead
  PROVE  Passes /\ (~Entry(at).text => Textless)
<1>1. /\ pc = "document" /\ Entry(at).state = "ok" /\ archive.zip
      /\ archive.kind = "docx" /\ Named("document") # {} /\ at = Min(Named("document"))
  BY DEF DocumentRead, PartEnds, Streaming, Walk, Held
<1> QED
  BY <1>1 DEF Passes, Unreadable, Textless

(* Every outcome has its cause. *)
LEMMA CauseStep ==
  ASSUME IInv, Walk, Deck, Held, MalformedHasCause, [Next]_vars
  PROVE  MalformedHasCause'
<1>1. MalformedHasCause <=> /\ outcome = "malformed" => taken > budget \/ Unreadable \/ Fails
                            /\ Finished => Passes
                            /\ outcome = "nocontent" => Textless
                            /\ outcome = "canceled" => canceled
  BY DEF MalformedHasCause, Fails, Passes, Textless
<1>2. archive' = archive /\ budget' = budget
  BY DEF Next, ExtractStep, Terminated, vars, OpenArchive, PresentationRead, PresentationRelsRead, OrderSlides,
     NextSlide, DeckRead, PartFails, DecodeCanceled, RelsRead, Cancel, PartEnds, ReadPart, SlideRead,
     NotesRead, DocumentRead
<1>3. Unreadable' = Unreadable /\ Fails' = Fails /\ Passes' = Passes /\ Textless' = Textless
  BY <1>2, SameFaults
<1>4. SUFFICES /\ outcome' = "malformed" => taken' > budget \/ Unreadable \/ Fails
               /\ outcome' \in {"ok", "nocontent"} => Passes
               /\ outcome' = "nocontent" => Textless
               /\ outcome' = "canceled" => canceled'
  BY <1>2, <1>3 DEF MalformedHasCause, Fails, Passes, Textless, Finished
<1>5. CASE UNCHANGED <<outcome, taken, canceled>>
  BY <1>1, <1>5 DEF Finished
<1>6. CASE outcome' = "none"
  BY <1>6
<1>7. CASE OpenArchive
  BY <1>7 DEF OpenArchive, Return, Begin, Unreadable, Walk
<1>8. CASE ReadPart
  <2>1. PICK n \in 1..unread :
          /\ n <= allowance + 1 /\ taken' = taken + n
          /\ IF n > allowance THEN Return("malformed") ELSE UNCHANGED <<pc, outcome>>
    BY <1>8 DEF ReadPart
  <2>2. /\ taken \in Nat /\ allowance \in Nat /\ taken + allowance = budget /\ outcome = "none"
    BY <1>8 DEF ReadPart, Proceeds, IInv, Account, Walk, Streaming, Buffering
  <2>3. n \in Nat
    BY <1>8 DEF ReadPart
  <2> QED
    BY <2>1, <2>2, <2>3 DEF Return
<1>9. CASE PartFails
  BY <1>9, FailsFaulty DEF PartFails, Return
<1>10. CASE OrderSlides
  <2>1. outcome' \in {"none", "malformed"}
    BY <1>10 DEF OrderSlides, Return, Walk
  <2> QED
    BY <1>10, <2>1, OrderFaulty
<1>11. CASE RelsRead
  <2>1. outcome' \in {"none", "malformed"}
    BY <1>11 DEF RelsRead, PartEnds, Return, SlideDone, Begin, Walk
  <2> QED
    BY <1>11, <2>1, RelsFaulty
<1>12. CASE DocumentRead
  <2>1. outcome' = IF Entry(at).text THEN "ok" ELSE "nocontent"
    BY <1>12 DEF DocumentRead, Return
  <2> QED
    BY <1>12, <2>1, DocumentPasses
<1>13. CASE DeckRead
  <2>1. outcome' = IF HasText THEN "ok" ELSE "nocontent"
    BY <1>13 DEF DeckRead, Return
  <2> QED
    BY <1>13, <2>1, DeckPasses, DeckTextless
<1>14. CASE DecodeCanceled \/ NextSlide
  BY <1>14 DEF DecodeCanceled, NextSlide, Return, Begin, Walk
<1>15. CASE PresentationRead \/ PresentationRelsRead \/ SlideRead \/ NotesRead
  BY <1>15 DEF PresentationRead, PresentationRelsRead, SlideRead, NotesRead, PartEnds, Begin, SlideDone, Walk
<1>16. CASE Cancel
  BY <1>16 DEF Cancel, Walk
<1> QED
  BY <1>5, <1>7, <1>8, <1>9, <1>10, <1>11, <1>12, <1>13, <1>14, <1>15, <1>16
     DEF Next, ExtractStep, Terminated, vars

(* An archive is refused as malformed only for its size or for a part that Extract reads,
   and none passes with such a part; a presentation that does not parse is no cause, one that
   cannot be decompressed is (Extractor.Extract, partDecoder.readPart). *)
THEOREM MalformedAlwaysHasCause == Spec => []MalformedHasCause
<1>1. Init => MalformedHasCause
  BY DEF Init, MalformedHasCause, Finished
<1>2. IInv /\ Walk /\ Deck /\ Held /\ MalformedHasCause /\ [Next]_vars => MalformedHasCause'
  BY CauseStep
<1> QED
  BY <1>1, <1>2, Invariance, WalkInvariance, HeldInvariance, PTL DEF Spec
=============================================================================
