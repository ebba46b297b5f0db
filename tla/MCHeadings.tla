----------------------------- MODULE MCHeadings -----------------------------
(* Lines at both sides of every threshold the recognizers test. *)
EXTENDS Headings

L(indent, ch, n, rest) == [indent |-> indent, ch |-> ch, n |-> n, rest |-> rest]

MCLineKinds ==
  { L(0, "none", 0, "end"), L(2, "none", 0, "end"), L(0, "letter", 1, "spaced"),
    L(0, "hash", 1, "spaced"), L(3, "hash", 6, "end"), L(0, "hash", 7, "spaced"),
    L(4, "hash", 1, "spaced"), L(0, "hash", 1, "text"),
    L(0, "tick", 3, "end"), L(0, "tick", 4, "end"), L(0, "tick", 3, "text"),
    L(0, "tick", 3, "ticked"), L(0, "tilde", 3, "end"), L(4, "tilde", 3, "end"),
    L(0, "eq", 1, "blanks"), L(0, "dash", 3, "spaced") }
===============================================================================
