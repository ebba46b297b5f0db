------------------------------ MODULE Registry ------------------------------
(***************************************************************************)
(* The extraction registry: the wiring of media types to extractors, one    *)
(* Extract call that bounds the source and dispatches it, its reading as    *)
(* BoundedRead has it, and what the text, Markdown, HTML and PDF extractors *)
(* make of a source they read whole. (The office formats are in Ooxml.)     *)
(*                                                                          *)
(* A text is a sequence of lines and a line a sequence of tokens: words and *)
(* "sp", whitespace other than a line break. One line is one byte of the    *)
(* sizes.                                                                   *)
(***************************************************************************)
EXTENDS BoundedRead, SequencesExt

CONSTANTS
  canonical,     \* each spelling of a media type to its canonical one, or to Invalid
  Invalid,
  Preset,        \* the registrations of RegisterDocuments, in their order
  Extractors,    \* the extractors registered besides, "nil" among them
  Sources,       \* sources by kind: lines, html events or the answer of a PDF engine
  MaxRegister    \* bound on Register calls

MediaTypes == DOMAIN canonical

Lines == Seq(Seq(STRING))

(* What a PDF engine may fail with. *)
EngineErrors == {"malformed", "unavailable", "output too large", "timeout", "canceled"}

ASSUME RegistryAssumption ==
  /\ \A mt \in MediaTypes : canonical[mt] # Invalid => canonical[canonical[mt]] = canonical[mt]
  /\ Preset \in Seq([type : MediaTypes, extractor : STRING])
  /\ \A n \in DOMAIN Preset : canonical[Preset[n].type] # Invalid
  /\ \A m, n \in DOMAIN Preset : canonical[Preset[m].type] = canonical[Preset[n].type] => m = n
  /\ MaxRegister \in Nat
  /\ Sources \subseteq
       [kind : {"lines"}, size : Sizes, bom : BOOLEAN, lines : Lines]
         \union [kind : {"html"}, size : Sizes, events : Seq([what : STRING, word : STRING])]
         \union [kind : {"pdf"}, size : Sizes, err : EngineErrors \union {"none"}, pages : Seq([Number : Nat, Text : Lines])]
  /\ \A s \in Sources : s.kind = "pdf" =>
       \A j, k \in DOMAIN s.pages : s.pages[j].Number = s.pages[k].Number => j = k

VARIABLES
  source,
  extractors,    \* the registry
  wired,         \* history: the registrations that returned
  stage,
  mediaType,     \* of the Extract call
  used,          \* the extractor dispatched to
  artifacts, result

callVars == <<source, extractors, wired, stage, mediaType, used, artifacts, result>>

RegistryInit ==
  /\ Init /\ size = 0
  /\ extractors = <<>> /\ wired = <<>>
  /\ stage = "wiring" /\ source = "none" /\ mediaType = "none" /\ used = "none"
  /\ artifacts = <<>> /\ result = "none"

Reply(kind) == stage' = "done" /\ result' = kind

-------------------------------------------------------------------------------
(* Wiring. *)

(* The registry with one more entry. *)
With(key, e) == [k \in DOMAIN extractors \union {key} |-> IF k = key THEN e ELSE extractors[k]]

(* Mutant: the registry is indexed by the media type as it is spelled. *)
RegisterVerbatim(mt, e) ==
  /\ stage = "wiring" /\ Len(wired) < MaxRegister
  /\ IF e = "nil" \/ canonical[mt] = Invalid \/ mt \in DOMAIN extractors
     THEN Reply("panic") /\ UNCHANGED <<extractors, wired>>
     ELSE /\ extractors' = With(mt, e)
          /\ wired' = Append(wired, [type |-> mt, extractor |-> e])
          /\ UNCHANGED <<stage, result>>
  /\ UNCHANGED <<source, mediaType, used, artifacts>> /\ UNCHANGED vars

Register(mt, e) ==
  /\ stage = "wiring" /\ Len(wired) < MaxRegister
  /\ LET key == canonical[mt] IN
       IF e = "nil" \/ key = Invalid \/ key \in DOMAIN extractors
       THEN Reply("panic") /\ UNCHANGED <<extractors, wired>>
       ELSE /\ extractors' = With(key, e)
            /\ wired' = Append(wired, [type |-> mt, extractor |-> e])
            /\ UNCHANGED <<stage, result>>
  /\ UNCHANGED <<source, mediaType, used, artifacts>> /\ UNCHANGED vars

(* A media type that is taken panics, behind the registrations made before it. *)
RegisterDocuments ==
  /\ stage = "wiring"
  /\ \E made \in 0..Len(Preset) :
       LET key(n) == canonical[Preset[n].type]
           at(k) == CHOOSE n \in 1..made : key(n) = k
       IN  /\ \A n \in 1..made : key(n) \notin DOMAIN extractors
           /\ extractors' = [k \in DOMAIN extractors \union {key(n) : n \in 1..made} |->
                               IF k \in DOMAIN extractors THEN extractors[k] ELSE Preset[at(k)].extractor]
           /\ wired' = wired \o SubSeq(Preset, 1, made)
           /\ IF made = Len(Preset) THEN UNCHANGED <<stage, result>>
              ELSE key(made + 1) \in DOMAIN extractors /\ Reply("panic")
  /\ UNCHANGED <<source, mediaType, used, artifacts>> /\ UNCHANGED vars

Supports(mt) == canonical[mt] # Invalid /\ canonical[mt] \in DOMAIN extractors

-------------------------------------------------------------------------------
(* What the extractors make of a source. *)

(* Without the blanks at both ends. *)
Trimmed(s, blank) ==
  LET kept == {k \in DOMAIN s : s[k] # blank}
  IN  IF kept = {} THEN <<>> ELSE SubSeq(s, Min(kept), Max(kept))

TrimRight(line) == SubSeq(line, 1, Max({0} \union {k \in DOMAIN line : line[k] # "sp"}))

(* The elements of s at the places ks, in their order. *)
At(s, ks) ==
  LET nth(n) == CHOOSE k \in ks : Cardinality({j \in ks : j <= k}) = n
  IN  [n \in 1..Cardinality(ks) |-> s[nth(n)]]

(* Mutant: runs of blank lines are dropped as a whole. *)
NormalizeWhitespaceFlat(text) ==
  SelectSeq([k \in DOMAIN text |-> Trimmed(text[k], "sp")], LAMBDA l : l # <<>>)

(* Every line trimmed, one blank line of each run of them, and none at the ends. *)
NormalizeWhitespace(text) ==
  LET trimmed == [k \in DOMAIN text |-> Trimmed(text[k], "sp")]
  IN  Trimmed(At(trimmed, {k \in DOMAIN text : trimmed[k] = <<>> => k = 1 \/ trimmed[k - 1] # <<>>}), <<>>)

isBlankText(text) == \A k \in DOMAIN text : Trimmed(text[k], "sp") = <<>>

(* Bytes that are no UTF-8 become replacement characters. *)
ToValidUTF8(text) ==
  [k \in DOMAIN text |-> [i \in DOMAIN text[k] |-> IF text[k][i] = "bytes" THEN "replaced" ELSE text[k][i]]]

Delimiters == {<<"---">>, <<"+++">>}

(* Mutant: either delimiter closes the front matter. *)
closingAny(text) == {k \in 2..Len(text) : TrimRight(text[k]) \in Delimiters}

closing(text) == {k \in 2..Len(text) : TrimRight(text[k]) = TrimRight(text[1])}

(* The text behind leading front matter that is closed. *)
stripFrontMatter(text) ==
  IF text # <<>> /\ TrimRight(text[1]) \in Delimiters /\ closing(text) # {}
  THEN SubSeq(text, Min(closing(text)) + 1, Len(text))
  ELSE text

(* The events of the HTML source that lie in no subtree left out. *)
Visible(events) ==
  LET depth(i) == Cardinality({j \in 1..i : events[j].what = "skip"})
                    - Cardinality({j \in 1..i : events[j].what = "endskip"})
  IN  {i \in DOMAIN events : depth(i) = 0}

(* What is written at a node: a text with a space behind it, a line break, a paragraph
   break at both ends of a block. *)
Written(out, event) ==
  CASE event.what = "text" -> [out EXCEPT ![Len(out)] = @ \o <<event.word, "sp">>]
    [] event.what = "br" -> Append(out, <<>>)
    [] event.what \in {"block", "endblock"} -> out \o <<<<>>, <<>>>>
    [] OTHER -> out

(* The walk over the tree, as the nodes it enters and leaves; a text with line breaks in
   it is a text and a break for each. *)
collectText(events) ==
  LET walked[n \in 0..Len(events)] ==
        IF n = 0 THEN <<<<>>>>
        ELSE IF n \in Visible(events) THEN Written(walked[n - 1], events[n])
        ELSE walked[n - 1]
  IN  walked[Len(events)]

(* With a byte order mark the first line starts with one more word. *)
Decoded ==
  ToValidUTF8(IF source.bom THEN [source.lines EXCEPT ![1] = <<"bom">> \o @] ELSE source.lines)

Artifact(type, text, page) == [MediaType |-> type, Text |-> text, Page |-> page]

Pages ==
  [k \in DOMAIN source.pages |->
     Artifact("text/plain", NormalizeWhitespace(source.pages[k].Text), source.pages[k].Number)]

Candidates ==
  CASE used = "text" -> <<Artifact("text/plain", NormalizeWhitespace(Decoded), 0)>>
    [] used = "markdown" ->
         <<Artifact("text/markdown", stripFrontMatter(ToValidUTF8(source.lines)), 0)>>
    [] used = "html" ->
         <<Artifact("text/plain", NormalizeWhitespace(collectText(source.events)), 0)>>
    [] used = "pdf" -> Pages

-------------------------------------------------------------------------------
(* The Extract call. *)

(* A source is given to an extractor of its kind. *)
Suits(reader, e) ==
  CASE reader.kind = "lines" -> e \in {"text", "markdown"}
    [] reader.kind = "html" -> e = "html"
    [] reader.kind = "pdf" -> e \in {"pdf", "pdfNoEngine"}

(* maxBytes is the option of the call, or zero without it. *)
Extract(mt, reader, parentID, maxBytes) ==
  LET key == canonical[mt]
      bound == IF maxBytes = 0 THEN limit ELSE maxBytes
      refuse(kind) == Reply(kind) /\ UNCHANGED <<source, size, used, limit, remaining>>
  IN  /\ stage = "wiring"
      /\ mediaType' = mt
      /\ IF parentID = "" THEN refuse("missing parent")
         ELSE IF key = Invalid THEN refuse("invalid")
         ELSE IF key \notin DOMAIN extractors THEN refuse("unsupported")
         ELSE /\ source' = reader /\ size' = reader.size
              /\ Suits(reader, extractors[key])
              /\ used' = extractors[key] /\ limit' = bound /\ remaining' = bound
              /\ IF used' = "pdfNoEngine" THEN Reply("no engine")
                 ELSE stage' = "reading" /\ UNCHANGED result
      /\ UNCHANGED <<extractors, wired, artifacts, sent, want, got, pc, canceled, outcome>>

(* ReadAll, between the extractor and the source. *)
Reading == stage = "reading" /\ Next /\ UNCHANGED callVars

ReadFailed ==
  /\ stage = "reading" /\ pc = "returned" /\ outcome # "ok"
  /\ Reply(outcome)
  /\ UNCHANGED <<source, extractors, wired, mediaType, used, artifacts>> /\ UNCHANGED vars

(* The engine cannot read the bytes. *)
EngineFailed ==
  /\ stage = "reading" /\ pc = "returned" /\ outcome = "ok"
  /\ used = "pdf" /\ source.err # "none"
  /\ Reply(source.err)
  /\ UNCHANGED <<source, extractors, wired, mediaType, used, artifacts>> /\ UNCHANGED vars

(* Artifacts without text are dropped; with none left there is no content. *)
Extracted ==
  /\ stage = "reading" /\ pc = "returned" /\ outcome = "ok"
  /\ used = "pdf" => source.err = "none"
  /\ artifacts' = LET all == Candidates IN At(all, {k \in DOMAIN all : ~isBlankText(all[k].Text)})
  /\ Reply(IF artifacts' = <<>> THEN "no content" ELSE "ok")
  /\ UNCHANGED <<source, extractors, wired, mediaType, used>> /\ UNCHANGED vars

Returned == stage = "done" /\ UNCHANGED vars /\ UNCHANGED callVars

RegistryNext ==
  \/ \E mt \in MediaTypes, e \in Extractors : Register(mt, e)
  \/ RegisterDocuments
  \/ stage = "wiring" /\ \E mt \in MediaTypes, reader \in Sources, parentID \in {"", "parent"},
                             maxBytes \in Limits \union {0} : Extract(mt, reader, parentID, maxBytes)
  \/ Reading \/ ReadFailed \/ EngineFailed \/ Extracted \/ Returned

RegistrySpec == RegistryInit /\ [][RegistryNext]_<<vars, callVars>>

-------------------------------------------------------------------------------
(* Properties. *)

(* A source goes to the one extractor wired for its media type, however either call
   spells it, and is refused only when none is. *)
DispatchAsRegistered ==
  LET wiredFor == {k \in DOMAIN wired : canonical[wired[k].type] = canonical[mediaType]}
  IN  /\ used # "none" => {wired[k].extractor : k \in wiredFor} = {used} /\ Cardinality(wiredFor) = 1
      /\ result = "unsupported" => wiredFor = {} /\ ~Supports(mediaType)

(* The lines of out are those of text that are not blank, each trimmed, in order; they
   are in one paragraph of out exactly if in one of text, and out has no other blank
   line than one between two paragraphs. *)
SameParagraphs(text, out) ==
  LET full(t) == {k \in DOMAIN t : Trimmed(t[k], "sp") # <<>>}
      joined(t) == LET at == At([k \in DOMAIN t |-> k], full(t))
                   IN  {n \in 1..(Len(at) - 1) : at[n + 1] = at[n] + 1}
  IN  /\ At(out, full(out)) = [n \in DOMAIN At(text, full(text)) |-> Trimmed(At(text, full(text))[n], "sp")]
      /\ joined(out) = joined(text)
      /\ out # <<>> => Len(out) = 2 * Cardinality(full(out)) - 1 - Cardinality(joined(out))

(* The line of a page an event is on: behind one end of line for each break before it
   and two for each border of a block. *)
Row(events, i) ==
  LET before(whats) == Cardinality({j \in Visible(events) : j <= i /\ events[j].what \in whats})
  IN  1 + before({"br"}) + 2 * before({"block", "endblock"})

(* The words an HTML page shows, apart, and each on its line. *)
PageLines(events) ==
  LET on(row) == {i \in Visible(events) : events[i].what = "text" /\ Row(events, i) = row}
      spaced(texts) == [t \in 1..(2 * Len(texts)) |-> IF t % 2 = 1 THEN texts[(t + 1) \div 2].word ELSE "sp"]
  IN  [row \in 1..Row(events, Len(events)) |-> spaced(At(events, on(row)))]

TextKept ==
  used = "text" /\ result \in {"ok", "no content"} =>
    SameParagraphs(Decoded, IF artifacts = <<>> THEN <<>> ELSE artifacts[1].Text)

PagesKept ==
  used = "pdf" /\ result \in {"ok", "no content"} =>
    \A k \in DOMAIN source.pages :
      LET page == source.pages[k]
          out == At(artifacts, {n \in DOMAIN artifacts : artifacts[n].Page = page.Number})
      IN  SameParagraphs(page.Text, IF out = <<>> THEN <<>> ELSE out[1].Text)

HtmlKept ==
  used = "html" /\ result \in {"ok", "no content"} =>
    SameParagraphs(PageLines(source.events), IF artifacts = <<>> THEN <<>> ELSE artifacts[1].Text)

(* Prose keeps every word of the source, in its order and its paragraphs, and a page
   of a PDF its number; a source without any word is what has no content. *)
ProseKept == TextKept /\ PagesKept /\ HtmlKept

(* Markdown is kept as it is but for one leading block between two lines of the same
   delimiter: a thematic break is not taken for front matter, and no body is lost. *)
BodyVerbatim ==
  used = "markdown" /\ result \in {"ok", "no content"} =>
    LET text == ToValidUTF8(source.lines)
        isMatter(n) ==
          /\ n > 1 /\ TrimRight(text[1]) \in Delimiters /\ TrimRight(text[n]) = TrimRight(text[1])
          /\ \A k \in 2..(n - 1) : TrimRight(text[k]) # TrimRight(text[1])
        matter == {n \in DOMAIN text : isMatter(n)}
        body == SubSeq(text, Max({0} \union matter) + 1, Len(text))
    IN  IF artifacts = <<>> THEN isBlankText(body) ELSE artifacts[1].Text = body
==============================================================================
