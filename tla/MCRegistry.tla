----------------------------- MODULE MCRegistry -----------------------------
(* The document registry and small sources of every kind, at every limit around
   their size. *)
EXTENDS Registry

MCCanonical ==
  ("text/plain" :> "text/plain") @@ ("Text/Plain; charset=utf-8" :> "text/plain")
    @@ ("text/markdown" :> "text/markdown") @@ ("text/html" :> "text/html")
    @@ ("application/pdf" :> "application/pdf") @@ ("text" :> "invalid")

MCPreset ==
  <<[type |-> "text/plain", extractor |-> "text"],
    [type |-> "text/html", extractor |-> "html"],
    [type |-> "application/pdf", extractor |-> "pdf"],
    [type |-> "text/markdown", extractor |-> "markdown"]>>

Word == <<"a", "b", "c", "d", "e">>

(* The line of a shape whose word is that of place k. *)
LineOf(shape, k) ==
  CASE shape = "empty" -> <<>>
    [] shape = "blank" -> <<"sp">>
    [] shape = "word" -> <<Word[k]>>
    [] shape = "padded" -> <<"sp", Word[k], "sp", "bytes", "sp">>
    [] shape = "delim" -> <<"---", "sp">>
    [] shape = "toml" -> <<"+++">>
    [] shape = "longer" -> <<"---", "a">>

Text(shapes) == [k \in DOMAIN shapes |-> LineOf(shapes[k], k)]

Lined(shapes, mark) ==
  [kind |-> "lines", size |-> Len(shapes), bom |-> mark, lines |-> Text(shapes)]

LineSources ==
  {Lined(shapes, FALSE) : shapes \in BoundedSeq({"blank", "word", "padded"}, 4)
                                       \union BoundedSeq({"word", "delim", "toml", "longer"}, 4)}
    \union {Lined(shapes, TRUE) : shapes \in SeqOf({"empty", "word", "delim"}, 3) \ {<<>>}}

Event(what, word) == [what |-> what, word |-> word]

(* What stands at place k of a page. *)
NodeOf(shape, k) ==
  CASE shape = "text" -> <<Event("text", Word[k])>>
    [] shape = "space" -> <<Event("text", "sp")>>
    [] shape = "br" -> <<Event("br", "")>>
    [] shape = "block" -> <<Event("block", ""), Event("text", Word[k]), Event("endblock", "")>>
    [] shape = "empty" -> <<Event("block", ""), Event("endblock", "")>>
    [] shape = "inline" -> <<Event("inline", ""), Event("text", Word[k]), Event("endinline", "")>>
    [] shape = "skip" ->
         <<Event("skip", ""), Event("block", ""), Event("text", Word[k]), Event("endblock", ""),
           Event("endskip", "")>>

HtmlSources ==
  {[kind |-> "html", size |-> 3, events |-> FlattenSeq([k \in DOMAIN shapes |-> NodeOf(shapes[k], k)])]
     : shapes \in BoundedSeq({"text", "space", "br", "block", "empty", "inline", "skip"}, 3)}

PdfSources ==
  {[kind |-> "pdf", size |-> 2, err |-> err,
    pages |-> [k \in DOMAIN shapes |-> [Number |-> k + skipped, Text |-> Text(shapes[k])]]]
     : err \in {"none", "malformed"}, skipped \in 0..1,
       shapes \in BoundedSeq(BoundedSeq({"blank", "word"}, 2), 2)}

MCSources == LineSources \union HtmlSources \union PdfSources
==============================================================================
