-------------------------------- MODULE Ooxml --------------------------------
(***************************************************************************)
(* The PPTX and DOCX extractors behind their reading of the source: an      *)
(* archive of parts, each decompressed through a capped reader. A DOCX has  *)
(* one part of interest; of a PPTX the parts share one budget, and are the  *)
(* presentation and its relationships, which give the order of the slides,  *)
(* and for every slide its relationships and its notes. XML is abstracted   *)
(* to what it says and whether it parses.                                   *)
(***************************************************************************)
EXTENDS Integers, SequencesExt

CONSTANTS
  Archives,            \* the sources extractors are given: records of kind, zip and files
  Budgets,             \* the values of maxDecompressed
  SlideParts,          \* the names with the prefix and suffix of a slide part
  number,              \* the number in each of these names, or NoNumber
  relsOf,              \* the name of the relationships part of each
  NoNumber

(* An entry of an archive: ids are the slide ids of a presentation or the ids of
   relationships, refs their targets; of a slide's relationships only those to notes. *)
Entries ==
  [name : STRING, size : Nat, state : {"ok", "bad", "corrupt"}, text : BOOLEAN,
   ids : Seq(STRING), refs : Seq(STRING)]

ASSUME OoxmlAssumption ==
  /\ Budgets \subseteq Nat \ {0}
  /\ number \in [SlideParts -> Nat \union {NoNumber}] /\ NoNumber \notin Nat
  /\ DOMAIN relsOf = SlideParts
  /\ \A s \in SlideParts : {s, relsOf[s]} \intersect {"presentation", "presentationRels"} = {}
  /\ Archives \subseteq [kind : {"pptx", "docx"}, zip : BOOLEAN, files : Seq(Entries)]

VARIABLES
  archive, budget,
  pc,                  \* where Extract is; a name of a part while it is read
  at,                  \* the entry being read
  unread,              \* its bytes not yet read
  allowance,           \* cappedReader.remaining
  remaining,           \* partDecoder.remaining
  ordered,             \* the names of the slides in the order of the presentation
  slides,              \* the slides not yet done, as entries
  text,                \* the parts whose text was written, in order: the part read and its entry
  outcome,
  canceled,            \* ctx is done
  taken                \* history: bytes decompressed

vars == <<archive, budget, pc, at, unread, allowance, remaining, ordered, slides, text, outcome,
          canceled, taken>>

partVars == <<at, unread, allowance>>

deckVars == <<ordered, slides>>

Init ==
  /\ archive \in Archives /\ budget \in Budgets
  /\ pc = "open" /\ at = 0 /\ unread = 0 /\ allowance = 0 /\ remaining = budget
  /\ ordered = <<>> /\ slides = <<>> /\ text = <<>> /\ outcome = "none"
  /\ canceled = FALSE /\ taken = 0

files == archive.files

Entry(i) == files[i]

Named(name) == {i \in DOMAIN files : files[i].name = name}

(* Of entries of one name the map of the PPTX extractor keeps the last. *)
byName(name) == Max(Named(name))

Return(kind) == pc' = "done" /\ outcome' = kind

(* A part is opened with what is left of the budget. *)
Begin(i, place, left) ==
  /\ pc' = place /\ at' = i
  /\ unread' = files[i].size /\ allowance' = left
  /\ UNCHANGED outcome

-------------------------------------------------------------------------------
(* The order of the slides. *)

(* The elements of s at the places ks, in their order. *)
At(s, ks) ==
  LET nth(n) == CHOOSE k \in ks : Cardinality({j \in ks : j <= k}) = n
  IN  [n \in 1..Cardinality(ks) |-> s[nth(n)]]

(* The targets of the slide ids, through the last relationship of an id; without a
   presentation that parses the order is that of the slide numbers. *)
presentationOrder(pres, rels) ==
  LET known == At(pres.ids, {k \in DOMAIN pres.ids : pres.ids[k] \in ToSet(rels.ids)})
      target(id) == rels.refs[Max({k \in DOMAIN rels.ids : rels.ids[k] = id})]
  IN  IF "bad" \in {pres.state, rels.state} THEN <<>>
      ELSE [k \in DOMAIN known |-> target(known[k])]

(* The numbered slides by number; equal numbers come in any order. *)
sortedSlides ==
  LET numbered == {i \in DOMAIN files : files[i].name \in SlideParts /\ number[files[i].name] # NoNumber}
  IN  {order \in SetToSeqs(numbered) :
         \A j, k \in DOMAIN order : j < k => number[files[order[j]].name] <= number[files[order[k]].name]}

(* Keeps the first of the entries of one name. *)
OncePerName(order) ==
  At(order, {k \in DOMAIN order : \A j \in 1..(k - 1) : files[order[j]].name # files[order[k]].name})

(* The slide parts among the names, as entries. *)
Present(names) ==
  LET found == At(names, {k \in DOMAIN names : names[k] \in SlideParts /\ Named(names[k]) # {}})
  IN  [n \in DOMAIN found |-> byName(found[n])]

(* Mutant: slides the presentation does not name are dropped. *)
resolveOrderStrict(numbered) ==
  OncePerName(IF ordered = <<>> THEN numbered ELSE Present(ordered))

resolveOrder(numbered) == OncePerName(Present(ordered) \o numbered)

-------------------------------------------------------------------------------
(* Reading a part. *)

Streaming == pc \in {"document", "slide", "notes"}

Buffering == pc \in {"presentation", "presentationRels", "rels"}

(* The streaming decoder asks ctx before each token, the others read on. *)
Proceeds == Buffering \/ (Streaming /\ ~canceled)

DecodeCanceled ==
  /\ Streaming /\ canceled
  /\ Return("canceled")
  /\ UNCHANGED <<archive, budget, remaining, ordered, slides, text, canceled, taken>> /\ UNCHANGED partVars

(* Mutant: past the allowance the reader gives no bytes and no error. *)
ReadPartStuck ==
  /\ Proceeds /\ unread > 0
  /\ IF allowance = 0 THEN UNCHANGED vars
     ELSE /\ \E n \in 1..unread :
               n <= allowance /\ unread' = unread - n /\ allowance' = allowance - n /\ taken' = taken + n
          /\ UNCHANGED <<archive, budget, pc, at, remaining, ordered, slides, text, outcome, canceled>>

(* cappedReader: at most one byte past the allowance, and that one is an error. *)
ReadPart ==
  /\ Proceeds /\ unread > 0
  /\ \E n \in 1..unread :
       /\ n <= allowance + 1
       /\ unread' = unread - n /\ allowance' = allowance - n /\ taken' = taken + n
       /\ IF n > allowance THEN Return("malformed") ELSE UNCHANGED <<pc, outcome>>
  /\ UNCHANGED <<archive, budget, at, remaining, ordered, slides, text, canceled>>

(* The part cannot be opened or decompressed, or its XML does not parse. A part that cannot
   be opened fails before ctx is asked. *)
PartFails ==
  /\ Proceeds \/ (Streaming /\ unread = Entry(at).size /\ Entry(at).state = "corrupt")
  /\ Entry(at).state = "corrupt" \/ (Streaming /\ Entry(at).state = "bad")
  /\ Return("malformed")
  /\ UNCHANGED <<archive, budget, remaining, ordered, slides, text, canceled, taken>> /\ UNCHANGED partVars

(* The end of a part that was read as a whole. *)
PartEnds(place) ==
  /\ Proceeds /\ pc = place /\ unread = 0
  /\ Entry(at).state # "corrupt" /\ (Streaming => Entry(at).state = "ok")
  /\ UNCHANGED <<archive, budget, canceled, taken>>

(* Mutant: the parts' readers do not hand back what they left of the budget. *)
ChargeNothing == remaining' = remaining

(* What a reader leaves of the budget is the next one's. *)
Charge == remaining' = allowance

Write == text' = Append(text, [part |-> pc, entry |-> at])

-------------------------------------------------------------------------------
(* Extract. *)

OpenArchive ==
  /\ pc = "open"
  /\ IF ~archive.zip THEN Return("malformed") /\ UNCHANGED deckVars /\ UNCHANGED partVars
     ELSE IF archive.kind = "docx"
     THEN /\ UNCHANGED deckVars
          /\ IF Named("document") = {} THEN Return("malformed") /\ UNCHANGED partVars
             ELSE Begin(Min(Named("document")), "document", remaining)
     ELSE IF Named("presentation") # {} /\ Named("presentationRels") # {}
     THEN Begin(byName("presentation"), "presentation", remaining) /\ UNCHANGED deckVars
     ELSE pc' = "order" /\ UNCHANGED outcome /\ UNCHANGED deckVars /\ UNCHANGED partVars
  /\ UNCHANGED <<archive, budget, remaining, text, canceled, taken>>

PresentationRead ==
  /\ PartEnds("presentation") /\ Charge
  /\ Begin(byName("presentationRels"), "presentationRels", allowance)
  /\ UNCHANGED <<ordered, slides, text>>

(* Mutant: a presentation that does not parse is an error. *)
PresentationRelsReadStrict ==
  /\ PartEnds("presentationRels") /\ Charge
  /\ IF "bad" \in {Entry(byName("presentation")).state, Entry(at).state}
     THEN Return("malformed") /\ UNCHANGED ordered
     ELSE /\ pc' = "order" /\ ordered' = presentationOrder(Entry(byName("presentation")), Entry(at))
          /\ UNCHANGED outcome
  /\ UNCHANGED <<slides, text>> /\ UNCHANGED partVars

PresentationRelsRead ==
  /\ PartEnds("presentationRels") /\ Charge
  /\ pc' = "order" /\ ordered' = presentationOrder(Entry(byName("presentation")), Entry(at))
  /\ UNCHANGED <<slides, text, outcome>> /\ UNCHANGED partVars

(* The slides are put in order, or there are none. *)
OrderSlides ==
  /\ pc = "order"
  /\ \E order \in {resolveOrder(numbered) : numbered \in sortedSlides} :
       /\ slides' = order
       /\ IF order = <<>> THEN Return("malformed") ELSE pc' = "slides" /\ UNCHANGED outcome
  /\ UNCHANGED <<archive, budget, remaining, ordered, text, canceled, taken>> /\ UNCHANGED partVars

NextSlide ==
  /\ pc = "slides" /\ slides # <<>>
  /\ IF canceled THEN Return("canceled") /\ UNCHANGED deckVars /\ UNCHANGED partVars
     ELSE Begin(Head(slides), "slide", remaining) /\ UNCHANGED deckVars
  /\ UNCHANGED <<archive, budget, remaining, text, canceled, taken>>

SlideDone ==
  /\ pc' = "slides" /\ slides' = Tail(slides)
  /\ UNCHANGED <<ordered, outcome>> /\ UNCHANGED partVars

(* A slide without a relationships part has no notes. *)
SlideRead ==
  /\ PartEnds("slide") /\ Charge
  /\ Write
  /\ LET rels == relsOf[Entry(at).name] IN
       IF Named(rels) = {} THEN SlideDone
       ELSE Begin(byName(rels), "rels", allowance) /\ UNCHANGED deckVars

(* Notes that are declared and missing make the deck a corrupt one. *)
RelsRead ==
  /\ PartEnds("rels") /\ Charge
  /\ LET target == Head(Entry(at).refs) IN
       IF Entry(at).state = "bad" THEN Return("malformed") /\ UNCHANGED deckVars /\ UNCHANGED partVars
       ELSE IF Entry(at).refs = <<>> THEN SlideDone
       ELSE IF Named(target) = {} THEN Return("malformed") /\ UNCHANGED deckVars /\ UNCHANGED partVars
       ELSE Begin(byName(target), "notes", allowance) /\ UNCHANGED deckVars
  /\ UNCHANGED text

NotesRead ==
  /\ PartEnds("notes") /\ Charge
  /\ Write
  /\ SlideDone

HasText == \E k \in DOMAIN text : Entry(text[k].entry).text

DocumentRead ==
  /\ PartEnds("document")
  /\ Write
  /\ Return(IF Entry(at).text THEN "ok" ELSE "nocontent")
  /\ UNCHANGED <<remaining, ordered, slides>> /\ UNCHANGED partVars

DeckRead ==
  /\ pc = "slides" /\ slides = <<>>
  /\ Return(IF HasText THEN "ok" ELSE "nocontent")
  /\ UNCHANGED <<archive, budget, remaining, ordered, slides, text, canceled, taken>> /\ UNCHANGED partVars

Cancel ==
  /\ pc # "done" /\ ~canceled
  /\ canceled' = TRUE
  /\ UNCHANGED <<archive, budget, pc, remaining, ordered, slides, text, outcome, taken>> /\ UNCHANGED partVars

ExtractStep ==
  \/ OpenArchive \/ PresentationRead \/ PresentationRelsRead \/ OrderSlides \/ NextSlide \/ SlideRead
  \/ RelsRead \/ NotesRead \/ DocumentRead \/ DeckRead \/ ReadPart \/ PartFails \/ DecodeCanceled

Terminated == pc = "done" /\ UNCHANGED vars

Next == ExtractStep \/ Cancel \/ Terminated

Spec == Init /\ [][Next]_vars

FairSpec == Spec /\ WF_vars(ExtractStep)

-------------------------------------------------------------------------------
(* Properties. *)

Finished == outcome \in {"ok", "nocontent"}

(* What the presentation names, when it can be read. *)
Mentioned ==
  LET pres == Entry(byName("presentation"))
      rels == Entry(byName("presentationRels"))
  IN  IF Named("presentation") = {} \/ Named("presentationRels") = {} THEN <<>>
      ELSE presentationOrder(pres, rels)

Notes(name) ==
  IF Named(relsOf[name]) = {} \/ Entry(byName(relsOf[name])).refs = <<>> THEN {}
  ELSE {Head(Entry(byName(relsOf[name])).refs)}

(* The slides of a deck: those with a number and those the presentation names. *)
Wanted(s) ==
  s \in SlideParts /\ Named(s) # {} /\ (number[s] # NoNumber \/ s \in ToSet(Mentioned))

(* No slide of a deck is dropped or repeated and each is followed by its own notes: the
   slides the presentation names come first, in its order, the others by number. *)
DeckInOrder ==
  Finished /\ archive.kind = "pptx" =>
    LET name(k) == Entry(text[k].entry).name
        shown == {k \in DOMAIN text : text[k].part = "slide"}
        mention(k) == {m \in DOMAIN Mentioned : Mentioned[m] = name(k)}
    IN  /\ {name(k) : k \in shown} = {s \in SlideParts : Wanted(s)}
        /\ \A j, k \in shown : j < k =>
             /\ name(j) # name(k)
             /\ IF mention(k) # {} THEN mention(j) # {} /\ Min(mention(j)) < Min(mention(k))
                ELSE mention(j) # {} \/ number[name(j)] <= number[name(k)]
        /\ \A k \in shown :
             {name(n) : n \in {k + 1} \intersect (DOMAIN text \ shown)} = Notes(name(k))
        /\ \A k \in DOMAIN text \ shown : k - 1 \in shown

SizeOf(name) == IF Named(name) = {} THEN 0 ELSE Entry(byName(name)).size

(* What a written part took: a slide is read with its relationships. *)
Cost(t) ==
  Entry(t.entry).size + IF t.part = "slide" THEN SizeOf(relsOf[Entry(t.entry).name]) ELSE 0

(* What the order of the slides took. *)
OrderCost ==
  IF archive.kind = "pptx" /\ Named("presentation") # {} /\ Named("presentationRels") # {}
  THEN SizeOf("presentation") + SizeOf("presentationRels") ELSE 0

(* What Extract decompresses of an archive. *)
Needed ==
  LET upTo[k \in 0..Len(text)] == IF k = 0 THEN OrderCost ELSE upTo[k - 1] + Cost(text[k])
  IN  upTo[Len(text)]

(* All parts together take at most one byte more than the budget, and an archive that is
   not refused stayed within it. *)
WithinBudget == taken <= budget + 1 /\ (Finished => taken <= budget)

(* ... and was decompressed as a whole, each part once for its name. *)
BudgetShared == WithinBudget /\ (Finished => taken = Needed)

(* The entries one of which a slide is read from. *)
SlideEntries(s) == IF s \in ToSet(Mentioned) THEN {byName(s)} ELSE Named(s)

(* Extract fails on an archive that it cannot read at all, or not in its order: a presentation
   that does not parse gives no order, but one that cannot be decompressed is refused. *)
Unreadable ==
  \/ ~archive.zip
  \/ IF archive.kind = "docx"
     THEN Named("document") = {} \/ Entry(Min(Named("document"))).state # "ok"
     ELSE \/ \A s \in SlideParts : ~Wanted(s)
          \/ /\ Named("presentation") # {} /\ Named("presentationRels") # {}
             /\ \E s \in {"presentation", "presentationRels"} : Entry(byName(s)).state = "corrupt"

(* It fails on a slide that it reads from entry i: on that, on the relationships of the slide
   or on its notes, which may be missing. *)
SlideFails(s, i) ==
  \/ Entry(i).state # "ok"
  \/ Named(relsOf[s]) # {} /\ Entry(byName(relsOf[s])).state # "ok"
  \/ \E n \in Notes(s) : Named(n) = {} \/ Entry(byName(n)).state # "ok"

(* An archive is called malformed only for its size or a part that Extract reads, and never
   passes with such a part; it is empty only without any text, and a cancellation is the
   caller's. *)
MalformedHasCause ==
  /\ outcome = "malformed" =>
       \/ taken > budget \/ Unreadable
       \/ /\ archive.kind = "pptx"
          /\ \E s \in SlideParts : Wanted(s) /\ \E i \in SlideEntries(s) : SlideFails(s, i)
  /\ Finished =>
       /\ ~Unreadable
       /\ archive.kind = "pptx" =>
            \A s \in SlideParts : Wanted(s) => \E i \in SlideEntries(s) : ~SlideFails(s, i)
  /\ outcome = "nocontent" =>
       IF archive.kind = "docx" THEN ~Entry(Min(Named("document"))).text
       ELSE \A s \in SlideParts : Wanted(s) =>
              (\E i \in SlideEntries(s) : ~Entry(i).text) /\ \A n \in Notes(s) : ~Entry(byName(n)).text
  /\ outcome = "canceled" => canceled

(* Extract returns, whatever the archive holds. *)
ExtractReturns == <>(pc = "done")
==============================================================================
