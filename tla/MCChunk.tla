------------------------------- MODULE MCChunk -------------------------------
(* Small instances of Chunk: short texts of every byte class, texts of lines and
   fence markers, texts of runes of every width, and longer prose whose last window
   quarter holds every mix of sentence ends and blanks. *)
EXTENDS Chunk

CONSTANTS MaxShort, MaxFenced, MaxRunes

WholeRunes == {<<"a">>, <<"L2", "c">>, <<"L3", "c", "c">>, <<"L4", "c", "c", "c">>}

MCSources ==
  BoundedSeq({"a", " ", "n", "L3", "c"}, MaxShort)
    \union {FlattenSeq(runes) : runes \in SeqOf(WholeRunes, MaxRunes)}
    \union {<<"n">> \o s : s \in SeqOf({"a", "n", "f"}, MaxFenced)}
    \union {<<"a", "a", "a", "a", "a">> \o s \o <<"a", "a", "a", "a", "a">> : s \in TupleOf({"a", ".", " "}, 4)}

Config(max, overlap, no, custom) ==
  [maxTokens |-> max, overlapTokens |-> overlap, noOverlap |-> no, custom |-> custom]

(* Custom segmenters: contiguous with units of one and of two sizes, with a gap,
   overlapping, out of range, empty. *)
Segmentations ==
  {<<Span(0, 1), Span(1, 2), Span(2, 3), Span(3, 4)>>, <<Span(0, 1), Span(1, 2), Span(2, 4)>>,
   <<Span(0, 1), Span(2, 3)>>, <<Span(0, 2), Span(1, 3)>>, <<Span(0, 9)>>, <<>>}

MCConfigs ==
  {Config(max, overlap, FALSE, <<>>) : max \in {1, 2, 3}, overlap \in {1, 2}}
    \union {Config(2, 0, TRUE, <<>>), Config(0, 0, FALSE, <<>>), Config(8, 2, FALSE, <<>>)}
    \union {Config(max, 1, FALSE, <<u>>) : max \in {2, 3}, u \in Segmentations}
==============================================================================
