------------------------------ MODULE Headings ------------------------------
(***************************************************************************)
(* chunk.Headings: one pass over the lines of a Markdown text that finds   *)
(* the lines a section starts at (ATX headings and setext titles outside   *)
(* fenced code) and cuts the text into sections at them, or falls back to  *)
(* paragraphs when there is none.                                          *)
(*                                                                         *)
(* The text is revealed line by line as the pass reads it, so every text   *)
(* of at most MaxLines lines is a behaviour.  An offset of the code is the *)
(* start of a line, and is counted in lines.                               *)
(***************************************************************************)
EXTENDS Integers, SequencesExt

CONSTANTS
  LineKinds,                \* the lines a text is made of
  MaxLines                  \* bound on the lines of a text

(* What the recognizers look at in a line: its leading spaces, the character behind
   them with the length of its run, and what follows the run: nothing, blanks only,
   text that touches it, text behind a blank, or text that holds a backtick.
   A line of blanks has no run. *)
Line == [indent : Nat, ch : {"hash", "tick", "tilde", "eq", "dash", "letter", "none"}, n : Nat,
         rest : {"end", "blanks", "text", "spaced", "ticked"}]

ASSUME HeadingsAssumption ==
  /\ LineKinds \subseteq Line
  /\ \A l \in LineKinds : l.ch = "none" <=> l.n = 0
  /\ MaxLines \in Nat

VARIABLES
  text,                     \* the lines read
  starts,                   \* the line starts at which a section begins, ascending
  inFence, fence,           \* whether a fence is open, and the marker that opened it
  prevLineStart, prevIsParagraph,
  units,
  done

vars == <<text, starts, inFence, fence, prevLineStart, prevIsParagraph, units, done>>

Span(s, e) == [start |-> s, end |-> e]

-------------------------------------------------------------------------------
(* The recognizers. *)

fenceMarker(l) ==
  /\ l.indent <= 3 /\ l.ch \in {"tick", "tilde"} /\ l.n >= 3
  /\ ~(l.ch = "tick" /\ l.rest = "ticked")

hasInfo(l) == l.rest \in {"text", "spaced", "ticked"}

(* Line l closes the fence that line o opened. *)
closesFence(o, l) == fenceMarker(l) /\ l.ch = o.ch /\ l.n >= o.n /\ ~hasInfo(l)

isAtx(l) ==
  l.indent <= 3 /\ l.ch = "hash" /\ l.n \in 1..6 /\ l.rest \in {"end", "blanks", "spaced"}

setextUnderline(l) ==
  l.indent <= 3 /\ l.ch \in {"eq", "dash"} /\ l.rest \in {"end", "blanks"}

isBlank(l) == l.ch = "none"

-------------------------------------------------------------------------------
(* The pass. *)

Init ==
  /\ text = <<>>
  /\ starts = <<>>
  /\ inFence = FALSE /\ fence = <<>>
  /\ prevLineStart = 0
  /\ prevIsParagraph = FALSE
  /\ units = <<>>
  /\ done = FALSE

appendStart(s) == IF starts # <<>> /\ Last(starts) = s THEN starts ELSE Append(starts, s)

(* Common to every line: it is read, and is the previous line of the next one. *)
Read(l) ==
  /\ ~done
  /\ Len(text) < MaxLines
  /\ text' = Append(text, l)
  /\ prevLineStart' = Len(text)
  /\ UNCHANGED <<units, done>>

(* A line behind an open fence is code, or closes it. *)
ReadCode(l) ==
  /\ inFence
  /\ Read(l)
  /\ inFence' = ~closesFence(fence, l)
  /\ prevIsParagraph' = FALSE
  /\ UNCHANGED <<starts, fence>>

OpenFence(l) ==
  /\ ~inFence /\ fenceMarker(l)
  /\ Read(l)
  /\ fence' = l
  /\ inFence' = TRUE
  /\ prevIsParagraph' = FALSE
  /\ UNCHANGED starts

AtxHeading(l) ==
  /\ ~inFence /\ ~fenceMarker(l) /\ isAtx(l)
  /\ Read(l)
  /\ starts' = appendStart(Len(text))
  /\ prevIsParagraph' = FALSE
  /\ UNCHANGED <<inFence, fence>>

(* Mutant: the section starts at the underline. *)
SetextHeadingAtUnderline(l) ==
  /\ ~inFence /\ ~fenceMarker(l) /\ ~isAtx(l)
  /\ prevIsParagraph /\ setextUnderline(l)
  /\ Read(l)
  /\ starts' = appendStart(Len(text))
  /\ prevIsParagraph' = FALSE
  /\ UNCHANGED <<inFence, fence>>

(* An underline makes a heading of the paragraph line in front of it. *)
SetextHeading(l) ==
  /\ ~inFence /\ ~fenceMarker(l) /\ ~isAtx(l)
  /\ prevIsParagraph /\ setextUnderline(l)
  /\ Read(l)
  /\ starts' = appendStart(prevLineStart)
  /\ prevIsParagraph' = FALSE
  /\ UNCHANGED <<inFence, fence>>

(* Any other line: a blank one ends the paragraph, the rest are paragraph lines, an
   underline with no paragraph in front of it among them. *)
PlainLine(l) ==
  /\ ~inFence /\ ~fenceMarker(l) /\ ~isAtx(l)
  /\ ~(prevIsParagraph /\ setextUnderline(l))
  /\ Read(l)
  /\ prevIsParagraph' = ~isBlank(l)
  /\ UNCHANGED <<starts, inFence, fence>>

(* Paragraphs: a run of two or more line breaks ends a unit, so an empty line does
   (a line of blanks does not) unless it is the first or another empty one follows. *)
paragraphBreaks ==
  LET empty(k) == isBlank(text[k]) /\ text[k].indent = 0 /\ text[k].rest = "end"
  IN  {k \in 2..(Len(text) - 1) : empty(k) /\ ~empty(k + 1)}

(* The contiguous spans that end at the offsets in E. *)
Tiles(E) ==
  LET AtOrBefore(e) == Cardinality({x \in E : x <= e})
      ends == [k \in 1..Cardinality(E) |-> CHOOSE e \in E : AtOrBefore(e) = k]
  IN  [k \in DOMAIN ends |-> Span(IF k = 1 THEN 0 ELSE ends[k - 1], ends[k])]

Paragraphs == Tiles({Len(text)} \union paragraphBreaks)

sectionsFrom(ss) ==
  [k \in DOMAIN ss |-> Span(ss[k], IF k = Len(ss) THEN Len(text) ELSE ss[k + 1])]

(* Mutant: a preamble belongs to no unit. *)
unitsWithoutPreamble(ss) == sectionsFrom(ss)

(* A preamble in front of the first heading is a unit of its own. *)
unitsFromStarts(ss) ==
  (IF ss[1] > 0 THEN <<Span(0, ss[1])>> ELSE <<>>) \o sectionsFrom(ss)

Finish ==
  /\ ~done
  /\ units' = IF text = <<>> THEN <<>>
              ELSE IF starts = <<>> THEN Paragraphs ELSE unitsFromStarts(starts)
  /\ done' = TRUE
  /\ UNCHANGED <<text, starts, inFence, fence, prevLineStart, prevIsParagraph>>

(* Headings has returned. *)
Terminated == done /\ UNCHANGED vars

Next ==
  \/ \E l \in LineKinds :
       ReadCode(l) \/ OpenFence(l) \/ AtxHeading(l) \/ SetextHeading(l) \/ PlainLine(l)
  \/ Finish \/ Terminated

Spec == Init /\ [][Next]_vars

-------------------------------------------------------------------------------
(* Properties. *)

(* The units of a text follow each other without gap or overlap from its start to its
   end and none is empty, whatever mix of preamble, setext titles that point back at an
   earlier line, and fallback produced them: what Split demands of a segmenter
   (validUnits) and what keeps every line in a chunk. *)
UnitsTile ==
  done /\ text # <<>> =>
    /\ units # <<>>
    /\ units[1].start = 0 /\ units[Len(units)].end = Len(text)
    /\ \A k \in DOMAIN units :
         /\ units[k].start < units[k].end
         /\ k > 1 => units[k].start = units[k - 1].end

(* Line k is fenced code: an opening marker stands in front of it, itself no code, and
   no line between the two closes that fence.  A closing marker is code. *)
isCode[k \in 1..Len(text)] ==
  \E j \in 1..(k - 1) :
    /\ fenceMarker(text[j]) /\ ~isCode[j]
    /\ \A m \in (j + 1)..(k - 1) : ~closesFence(text[j], text[m])

(* Line k is read as prose: outside code, and no marker, heading or blank line. *)
isProse(k) ==
  ~isCode[k] /\ ~fenceMarker(text[k]) /\ ~isAtx(text[k]) /\ ~isBlank(text[k])

(* Line k underlines a setext heading: the prose line in front of it is its title, so
   is not itself the underline of another one. *)
isUnderline[k \in 1..Len(text)] ==
  k > 1 /\ isProse(k) /\ setextUnderline(text[k]) /\ isProse(k - 1) /\ ~isUnderline[k - 1]

(* The section starts found so far are exactly the ATX headings and the titles of
   setext headings outside fenced code, in order and once each: no comment line of a
   code block cuts a section, no heading is lost behind a fence that was closed, and a
   marker too short or with an info string closes none (the doc of Headings). *)
StartsAreHeadings ==
  /\ \A i, j \in DOMAIN starts : i < j => starts[i] < starts[j]
  /\ Range(starts) =
       {k - 1 : k \in {m \in 1..Len(text) : ~isCode[m] /\ ~fenceMarker(text[m]) /\ isAtx(text[m])}}
       \union {k - 2 : k \in {m \in 1..Len(text) : isUnderline[m]}}
===============================================================================
