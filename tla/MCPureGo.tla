------------------------------ MODULE MCPureGo ------------------------------
(* Every document of at most MaxPages pages, however the parser takes each part. *)
EXTENDS PureGo

CONSTANT MaxPages

MCDocuments ==
  [open : {"ok"}, pages : SeqOf(PageKinds, MaxPages)]
    \union [open : {"error", "panic", "hang"}, pages : {<<>>}]
=============================================================================
