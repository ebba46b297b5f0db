------------------------------- MODULE MCStores -------------------------------
(* Two callers, bodies of no and of two blocks, listings of all keys or of one. *)
EXTENDS Stores

CONSTANTS c1, c2

MCBodies == {<<>>, <<"a", "b">>}

MCSourceLists == {<<>>, <<2, 1>>, <<1, 2, 1>>}

MCPrefixSets == {Keys, {1}}
==============================================================================
