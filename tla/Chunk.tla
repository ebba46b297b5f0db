-------------------------------- MODULE Chunk --------------------------------
(***************************************************************************)
(* chunk.Split: trims a source, segments it into units, packs consecutive  *)
(* units into chunks under a token budget with trailing overlap, and       *)
(* splits a unit that is over the budget on its own: by fenced blocks and  *)
(* lines when it holds a code fence, else by sentence, word and rune.      *)
(*                                                                         *)
(* The packing loops of Split, splitFenced and splitLines are the same     *)
(* loop over units, groups and lines; a frame is one running loop, and an  *)
(* oversize span pushes the frame of the splitter it is given to.          *)
(***************************************************************************)
EXTENDS Integers, SequencesExt

CONSTANTS
  Sources,                  \* sequences of bytes a caller may pass
  Configs,
  DefaultMaxTokens, DefaultOverlapTokens,
  CharsPerToken             \* runes the estimator counts as one token

(* A byte is abstracted to what the code tells apart: an ordinary rune of one
   byte, a sentence end, a blank, a newline, a fence marker at the start of a line
   ("f", a run of them is a longer marker), the lead byte of a rune of two, three or
   four bytes, and a continuation byte. *)
Bytes == {"a", ".", " ", "n", "f", "L2", "L3", "L4", "c"}

IsSpace(b) == b \in {" ", "n"}

RuneStart(b) == b # "c"

(* The bytes of a rune that starts with b. *)
WidthOf(b) == CASE b = "L2" -> 2 [] b = "L3" -> 3 [] b = "L4" -> 4 [] OTHER -> 1

(* The bytes utf8.DecodeRune takes of t at s: one for a byte that starts no valid rune. *)
RuneSize(t, s) ==
  LET w == WidthOf(t[s + 1])
  IN  IF s + w <= Len(t) /\ \A k \in (s + 2)..(s + w) : t[k] = "c" THEN w ELSE 1

(* No rune of t reaches over the offset x. *)
BetweenRunes(t, x) == \A p \in 0..(x - 1) : p + RuneSize(t, p) <= x

RuneCount(t) == Cardinality({x \in 0..(Len(t) - 1) : BetweenRunes(t, x)})

(* utf8.ValidString: every rune is whole, and no continuation byte is on its own. *)
ValidUTF8(t) ==
  \A x \in 0..(Len(t) - 1) :
    RuneSize(t, x) = WidthOf(t[x + 1]) /\ (BetweenRunes(t, x) => RuneStart(t[x + 1]))

(* custom is <<>> for a nil Boundaries, else <<u>> with u the spans it returns. *)
ASSUME ChunkAssumption ==
  /\ Sources \subseteq Seq(Bytes)
  /\ \A c \in Configs : /\ c.maxTokens \in Int /\ c.overlapTokens \in Int
                        /\ c.noOverlap \in BOOLEAN
                        /\ c.custom \in Seq(Seq([start : Int, end : Int])) /\ Len(c.custom) \in {0, 1}
  /\ {DefaultMaxTokens, DefaultOverlapTokens, CharsPerToken} \subseteq Nat \ {0}

VARIABLES
  source, cfg,
  text, off,                \* the trimmed text and the bytes trimmed in front of it
  frames,                   \* the loops that run, innermost last
  chunks,
  pc

vars == <<source, cfg, text, off, frames, chunks, pc>>

Span(s, e) == [start |-> s, end |-> e]

-------------------------------------------------------------------------------
(* Configuration and estimates. *)

maxTok == IF cfg.maxTokens <= 0 THEN DefaultMaxTokens ELSE cfg.maxTokens

overlapTok ==
  IF cfg.noOverlap THEN 0
  ELSE IF cfg.overlapTokens <= 0 THEN DefaultOverlapTokens ELSE cfg.overlapTokens

Runes(s, e) == RuneCount(SubSeq(text, s + 1, e))

est(s, e) == (Runes(s, e) + CharsPerToken - 1) \div CharsPerToken

-------------------------------------------------------------------------------
(* Units, lines and fenced groups. *)

(* The contiguous spans that end at the offsets in E, the first starting at s. *)
Tiles(s, E) ==
  LET AtOrBefore(e) == Cardinality({x \in E : x <= e})
      ends == [k \in 1..Cardinality(E) |-> CHOOSE e \in E : AtOrBefore(e) = k]
  IN  [k \in DOMAIN ends |-> Span(IF k = 1 THEN s ELSE ends[k - 1], ends[k])]

(* A paragraph ends behind a run of two or more newlines. *)
Paragraphs ==
  Tiles(0, {Len(text)} \union
           {k \in 2..(Len(text) - 1) : text[k - 1] = "n" /\ text[k] = "n" /\ text[k + 1] # "n"})

runeAligned(x) == x \in {0, Len(text)} \/ RuneStart(text[x + 1])

validUnits(units) ==
  /\ units # <<>>
  /\ \A k \in DOMAIN units :
       /\ 0 <= units[k].start /\ units[k].start < units[k].end /\ units[k].end <= Len(text)
       /\ k > 1 => units[k - 1].end <= units[k].start
       /\ runeAligned(units[k].start) /\ runeAligned(units[k].end)

(* Invalid spans of a custom segmenter are replaced by one unit over the whole text. *)
Units ==
  LET units == IF cfg.custom = <<>> THEN Paragraphs ELSE cfg.custom[1]
  IN  IF validUnits(units) THEN units ELSE <<Span(0, Len(text))>>

Lines(s, e) == Tiles(s, {k \in (s + 1)..e : text[k] = "n" \/ k = e})

(* The length of the fence marker a line starts with, 0 for any other line, and
   whether an info string follows the marker. *)
MarkerLen(line) ==
  Max({n \in 0..(line.end - line.start) :
         \A k \in (line.start + 1)..(line.start + n) : text[k] = "f"})

HasInfo(line) == \E k \in (line.start + MarkerLen(line) + 1)..line.end : ~IsSpace(text[k])

spanHasFence(s, e) == LET lines == Lines(s, e) IN \E k \in DOMAIN lines : MarkerLen(lines[k]) > 0

(* Each fenced block is one group, from its opening marker through the first marker
   as long and without an info string, or to the end of the span; every other line
   is a group of its own. open[k] is the marker still open behind line k. *)
fencedGroups(s, e) ==
  LET lines == Lines(s, e)
      open[k \in 0..Len(lines)] ==
        IF k = 0 THEN 0
        ELSE LET n == MarkerLen(lines[k])
             IN  IF open[k - 1] = 0 THEN n
                 ELSE IF n >= open[k - 1] /\ ~HasInfo(lines[k]) THEN 0
                 ELSE open[k - 1]
  IN  Tiles(s, {lines[k].end : k \in {j \in DOMAIN lines : open[j] = 0 \/ j = Len(lines)}})

-------------------------------------------------------------------------------
(* The packing loop. *)

Tokens(spans, k) == est(spans[k].start, spans[k].end)

SumTokens(spans, i, j) ==
  LET sum[k \in (i - 1)..j] == IF k < i THEN 0 ELSE sum[k - 1] + Tokens(spans, k)
  IN  sum[j]

(* Mutant: the budget is compared before the next span is added. *)
growChunkLate(spans, i) ==
  Max({j \in i..Len(spans) : \A m \in (i + 1)..j : SumTokens(spans, i, m - 1) < maxTok})

(* Mutant: a chunk that meets the budget exactly is taken for one over it. *)
growChunkStrict(spans, i) ==
  Max({j \in i..Len(spans) : \A m \in (i + 1)..j : SumTokens(spans, i, m) < maxTok})

growChunk(spans, i) ==
  Max({j \in i..Len(spans) : \A m \in (i + 1)..j : SumTokens(spans, i, m) <= maxTok})

(* Mutant: the walk back does not stop at the unit after the first. *)
overlapStartUnbounded(spans, i, j) ==
  IF overlapTok <= 0 THEN j + 1
  ELSE Min({ov \in 1..(j + 1) : \A m \in ov..j : SumTokens(spans, m, j) <= overlapTok})

(* Mutant: the overlap takes the unit that reaches its budget too. *)
overlapStartOverfull(spans, i, j) ==
  IF overlapTok <= 0 THEN j + 1
  ELSE Min({ov \in (i + 1)..(j + 1) : \A m \in (ov + 1)..j : SumTokens(spans, m, j) <= overlapTok})

(* The first span of the next chunk: walk back from j + 1 over the spans that fit
   the overlap budget together, never as far as i. *)
overlapStart(spans, i, j) ==
  IF overlapTok <= 0 THEN j + 1
  ELSE Min({ov \in (i + 1)..(j + 1) : \A m \in ov..j : SumTokens(spans, m, j) <= overlapTok})

-------------------------------------------------------------------------------
(* Prose: byte windows from the span's mean bytes per token (in exact rationals). *)

Total(span) == Max({est(span.start, span.end), 1})

Target(span) == Max({(maxTok * (span.end - span.start)) \div Total(span), 1})

Overlap(span) == (overlapTok * (span.end - span.start)) \div Total(span)

(* The last sentence end, else the last blank, in the last quarter of the window. *)
findBoundary(s, ideal) ==
  LET from == Max({ideal - (ideal - s) \div 4, s})
      sentences == {k \in (from + 1)..(ideal - 1) : text[k] = "." /\ text[k + 1] = " "}
      blanks == {k \in (from + 1)..ideal : IsSpace(text[k])}
  IN  IF sentences # {} THEN Max(sentences)
      ELSE IF blanks # {} THEN Max(blanks) - 1
      ELSE ideal

(* Mutant: the walk back to the start of a rune is a single step. *)
snapEndOneStep(s, ideal) ==
  LET end == IF ideal < Len(text) /\ ~RuneStart(text[ideal + 1]) THEN ideal - 1 ELSE ideal
  IN  IF end > s THEN end ELSE Min({s + RuneSize(text, s), Len(text)})

snapEndToRuneBoundary(s, ideal) ==
  LET end == Max({x \in s..ideal : x = s \/ x = Len(text) \/ RuneStart(text[x + 1])})
  IN  IF end > s THEN end ELSE Min({s + RuneSize(text, s), Len(text)})

snapStartToRuneStart(x) ==
  Min({y \in x..Len(text) : y = Len(text) \/ RuneStart(text[y + 1])})

ProseEnd(span, pos) ==
  LET ideal == pos + Target(span)
      e == IF ideal >= span.end THEN span.end ELSE findBoundary(pos, ideal)
  IN  snapEndToRuneBoundary(pos, e)

(* Mutant: one byte is skipped between two chunks. *)
ProseNextSkips(span, pos) ==
  snapStartToRuneStart(Max({ProseEnd(span, pos) + 1 - Overlap(span), pos + 1}))

(* The next chunk goes back by the overlap, but always advances. *)
ProseNext(span, pos) == snapStartToRuneStart(Max({ProseEnd(span, pos) - Overlap(span), pos + 1}))

-------------------------------------------------------------------------------
Frame(kind, spans, i) == [kind |-> kind, spans |-> spans, i |-> i]

(* The loop goes on at i. *)
At(frame, i) == Frame(frame.kind, frame.spans, i)

ProseFrame(span) == Frame("prose", <<span>>, span.start)

(* hardSplit, and the way splitFenced and splitLines give on an oversize span. *)
SplitterOf(kind, span) ==
  IF kind = "units" /\ spanHasFence(span.start, span.end)
  THEN Frame("groups", fencedGroups(span.start, span.end), 1)
  ELSE IF kind = "groups" /\ MarkerLen(span) > 0
  THEN Frame("lines", Lines(span.start, span.end), 1)
  ELSE ProseFrame(span)

NewChunk(s, e, tokens, by) ==
  [text |-> SubSeq(text, s + 1, e), start |-> s, end |-> e, tokens |-> tokens, by |-> by]

top == Last(frames)

(* Starts advance, so no run makes more chunks than this; it only stops one that would. *)
ChunkCap == Len(source) + 1

Trimmed(s) ==
  LET ink == {k \in DOMAIN s : ~IsSpace(s[k])}
  IN  IF ink = {} THEN <<>> ELSE SubSeq(s, Min(ink), Max(ink))

TrimmedFront(s) ==
  LET ink == {k \in DOMAIN s : ~IsSpace(s[k])}
  IN  IF ink = {} THEN Len(s) ELSE Min(ink) - 1

Init ==
  /\ source \in Sources /\ cfg \in Configs
  /\ text = Trimmed(source) /\ off = TrimmedFront(source)
  /\ frames = <<>> /\ chunks = <<>>
  /\ pc = "start"

(* Empty and whitespace-only input yields no chunks. *)
Start ==
  /\ pc = "start"
  /\ \/ /\ text = <<>>
        /\ pc' = "done"
        /\ UNCHANGED frames
     \/ /\ text # <<>>
        /\ pc' = "split"
        /\ frames' = <<Frame("units", Units, 1)>>
  /\ UNCHANGED <<source, cfg, text, off, chunks>>

Packing == pc = "split" /\ frames # <<>> /\ top.kind # "prose" /\ Len(chunks) < ChunkCap

PackChunk ==
  /\ Packing /\ top.i <= Len(top.spans)
  /\ Tokens(top.spans, top.i) <= maxTok
  /\ LET i == top.i
         j == growChunk(top.spans, i)
     IN  /\ chunks' = Append(chunks, NewChunk(top.spans[i].start, top.spans[j].end,
                                              SumTokens(top.spans, i, j), "packed"))
         /\ frames' = IF j = Len(top.spans) THEN Front(frames)
                      ELSE [frames EXCEPT ![Len(frames)] = At(top, overlapStart(top.spans, i, j))]
  /\ UNCHANGED <<source, cfg, text, off, pc>>

SplitOversize ==
  /\ Packing /\ top.i <= Len(top.spans)
  /\ Tokens(top.spans, top.i) > maxTok
  /\ frames' = Append([frames EXCEPT ![Len(frames)] = At(top, top.i + 1)],
                      SplitterOf(top.kind, top.spans[top.i]))
  /\ UNCHANGED <<source, cfg, text, off, chunks, pc>>

LeaveLoop ==
  /\ Packing /\ top.i > Len(top.spans)
  /\ frames' = Front(frames)
  /\ UNCHANGED <<source, cfg, text, off, chunks, pc>>

CutProse ==
  /\ pc = "split" /\ frames # <<>> /\ top.kind = "prose" /\ Len(chunks) < ChunkCap
  /\ LET span == top.spans[1]
         pos == top.i
         e == ProseEnd(span, pos)
     IN  /\ chunks' = Append(chunks, NewChunk(pos, e, est(pos, e), "prose"))
         /\ frames' = IF e >= span.end \/ ProseNext(span, pos) >= span.end THEN Front(frames)
                      ELSE [frames EXCEPT ![Len(frames)] = At(top, ProseNext(span, pos))]
  /\ UNCHANGED <<source, cfg, text, off, pc>>

(* Mutant: the spans stay relative to the trimmed text. *)
FinishUnshifted ==
  /\ pc = "split" /\ frames = <<>>
  /\ pc' = "done"
  /\ UNCHANGED <<source, cfg, text, off, frames, chunks>>

(* The spans are shifted back into the coordinates of the source. *)
Finish ==
  /\ pc = "split" /\ frames = <<>>
  /\ chunks' = [k \in DOMAIN chunks |-> [chunks[k] EXCEPT !.start = @ + off, !.end = @ + off]]
  /\ pc' = "done"
  /\ UNCHANGED <<source, cfg, text, off, frames>>

Terminated == pc = "done" /\ UNCHANGED vars

Step == Start \/ PackChunk \/ SplitOversize \/ LeaveLoop \/ CutProse \/ Finish

Next == Step \/ Terminated

Spec == Init /\ [][Next]_vars

-------------------------------------------------------------------------------
(* Properties. *)

(* The units of the text leave nothing of it out. *)
GapFree == LET units == Units IN
  /\ units[1].start = 0 /\ units[Len(units)].end = Len(text)
  /\ \A k \in 2..Len(units) : units[k].start = units[k - 1].end

(* Each chunk starts behind the one before it and ends no earlier, across the nested
   splitters and whatever the overlap: no chunk is emitted twice, and Split, which
   makes a chunk in every pass but the bounded ones that give a span away, returns. *)
StartsAdvance ==
  \A k \in 2..Len(chunks) :
    chunks[k - 1].start < chunks[k].start /\ chunks[k - 1].end <= chunks[k].end

(* Nothing of the text is lost between two chunks, however the packing, the overlap
   and the rune snapping move the cuts: valid UTF-8 in contiguous units is covered. *)
NothingLost ==
  pc = "done" /\ text # <<>> /\ ValidUTF8(text) /\ GapFree =>
    /\ chunks # <<>> /\ chunks[1].start = off
    /\ chunks[Len(chunks)].end = off + Len(text)
    /\ \A k \in 2..Len(chunks) : chunks[k].start <= chunks[k - 1].end

(* The span of a finished chunk is where its text is in the caller's source. *)
SpanMatchesText ==
  pc = "done" => \A k \in DOMAIN chunks :
    chunks[k].text = SubSeq(source, chunks[k].start + 1, chunks[k].end)

(* No rune is cut, of whatever width, nor one taken apart between two chunks: every
   chunk of valid UTF-8 is valid UTF-8. *)
RunesWhole == ValidUTF8(text) => \A k \in DOMAIN chunks : ValidUTF8(chunks[k].text)

(* Every chunk holds at most MaxTokens of text. *)
ChunkFitsBudget == \A k \in DOMAIN chunks : RuneCount(chunks[k].text) <= maxTok * CharsPerToken

OneWidth ==
  \A j, k \in DOMAIN text :
    RuneStart(text[j]) /\ RuneStart(text[k]) => WidthOf(text[j]) = WidthOf(text[k])

(* The budget holds for contiguous units of text whose runes have one width: packing
   never overruns it, and the byte window of the prose splitter is then exact. *)
FitsBudgetOneWidth == ValidUTF8(text) /\ GapFree /\ OneWidth => ChunkFitsBudget

(* The budget of hardSplit's comment, for every valid UTF-8 text in contiguous units. *)
HardSplitFitsBudget == ValidUTF8(text) /\ GapFree => ChunkFitsBudget

(* Two packed chunks of contiguous units share no more than the overlap budget; the text
   of a gap is in the chunks, and no budget counts it. *)
OverlapWithinBudget ==
  pc = "split" /\ GapFree => \A k \in 2..Len(chunks) :
    chunks[k - 1].by = "packed" /\ chunks[k].by = "packed" =>
      chunks[k].start >= chunks[k - 1].end \/ est(chunks[k].start, chunks[k - 1].end) <= overlapTok

(* A chunk repeats nothing but text of the chunk before it only when the overlap
   leaves no room for the next unit, or a unit has to be split. *)
NewTextInEachChunk ==
  pc = "done" /\ (\A k \in DOMAIN Units : Tokens(Units, k) + overlapTok <= maxTok) =>
    \A k \in 2..Len(chunks) : chunks[k].end > chunks[k - 1].end
==============================================================================
