------------------------------- MODULE MCOoxml -------------------------------
(* Decks in every order of mention, decks at every size around the budget, decks and
   documents with one part at fault, and sources that are no archive. *)
EXTENDS Ooxml

MCSlideParts == {"slide1", "slide01", "slide10", "slideX"}

MCNoNumber == -1

MCNumber == [s \in MCSlideParts |-> CASE s \in {"slide1", "slide01"} -> 1 [] s = "slide10" -> 10 [] OTHER -> MCNoNumber]

MCRelsOf ==
  [s \in MCSlideParts |-> CASE s = "slide1" -> "rels1" [] s = "slide01" -> "rels01"
                            [] s = "slide10" -> "rels10" [] OTHER -> "relsX"]

Part(name, size) ==
  [name |-> name, size |-> size, state |-> "ok", text |-> size > 0, ids |-> <<>>, refs |-> <<>>]

Presentation(ids) == [Part("presentation", 1) EXCEPT !.ids = ids, !.text = FALSE]

PresentationRels(ids, refs) ==
  [Part("presentationRels", 1) EXCEPT !.ids = ids, !.refs = refs, !.text = FALSE]

Rels(name, refs) == [Part(name, 1) EXCEPT !.refs = refs, !.text = FALSE]

Deck(parts) == [kind |-> "pptx", zip |-> TRUE, files |-> parts]

SlideLists ==
  {<<>>, <<"slideX">>, <<"slide10", "slide1">>, <<"slide1", "slide10", "slide1">>,
   <<"slide10", "slide01", "slide1", "slideX">>}

(* The relationship r3 is repeated, and r4 leads to a part that is no slide. *)
OrderDecks ==
  {Deck([k \in DOMAIN list |-> Part(list[k], 1)]
          \o <<Presentation(ids),
               PresentationRels(<<"r1", "r3", "r2", "r4", "r3">>,
                                <<"slide1", "slide1", "slide10", "presentation", last>>)>>)
     : list \in SlideLists, ids \in BoundedSeq({"r1", "r2", "r3", "r4", "r5"}, 2),
       last \in {"slideX", "slide01"}}

FullDeck(slide1, notes, slide10) ==
  <<Part("slide10", slide10), Presentation(<<"r1", "r2">>),
    PresentationRels(<<"r1", "r2">>, <<"slide1", "slide10">>), Part("slide1", slide1),
    Rels("rels1", <<"notes">>), Part("notes", notes), Rels("rels10", <<>>)>>

SizedDecks == {Deck(FullDeck(a, b, c)) : a, b, c \in 0..2}

FaultyDecks ==
  {Deck([FullDeck(1, 1, 1) EXCEPT ![i].state = state]) : i \in 1..7, state \in {"bad", "corrupt"}}
    \union {Deck(RemoveAt(FullDeck(1, 1, 1), i)) : i \in 1..7}
    \union {Deck([i \in 1..7 |-> [FullDeck(1, 1, 1)[i] EXCEPT !.text = i \in texts]])
              : texts \in SUBSET {1, 4, 6}}
    \union {Deck(Append(FullDeck(1, 1, 1), Rels("rels10", <<"notes">>)))}
    \union {Deck(<<[Part(name, 1) EXCEPT !.state = "corrupt"]>> \o FullDeck(1, 1, 1))
              : name \in {"presentation", "slide1", "slide01", "slideX", "rels1", "notes", "media"}}
    \union {Deck(<<Part("slide1", 1), [Part("slide1", 1) EXCEPT !.state = state]>>)
              : state \in {"bad", "corrupt"}}

Document(parts) == [kind |-> "docx", zip |-> TRUE, files |-> parts]

Documents ==
  {Document(<<[Part("document", size) EXCEPT !.state = state, !.text = has], Part("document", 1)>>)
     : size \in 1..5, state \in {"ok", "bad", "corrupt"}, has \in BOOLEAN}
    \union {Document(<<Part("slide1", 1)>>), Document(<<Part("document", 0)>>)}

MCArchives ==
  UNION {OrderDecks, SizedDecks, FaultyDecks, Documents,
         [kind : {"pptx", "docx"}, zip : {FALSE}, files : {<<>>}]}
==============================================================================
