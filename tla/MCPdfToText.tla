----------------------------- MODULE MCPdfToText -----------------------------
(* Children that write up to WriteCap bytes, one or two at a time. *)
EXTENDS PdfToText

MCWrites == {<<"x">>, <<"F">>, <<"x", "F">>, <<"F", "x">>}
==============================================================================
