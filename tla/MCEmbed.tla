------------------------------- MODULE MCEmbed -------------------------------
(* Small instances of Embed: every list of up to MaxMixed inputs of four kinds
   (medium, over every token limit on its own, poison, invalid), and every list of
   MaxPlain small and poison inputs, so that a batch is halved more than once. *)
EXTENDS Embed

CONSTANTS MaxMixed, MaxPlain

Kind(ok, tokens, est, bad) ==
  [wellFormed |-> ok, tokenCount |-> tokens, estimate |-> est, poison |-> bad]

Small == Kind(TRUE, 1, 9, FALSE)
Medium == Kind(TRUE, -1, 2, FALSE)
Big == Kind(TRUE, 0, 5, FALSE)
Poison == Kind(TRUE, 1, 9, TRUE)
Invalid == Kind(FALSE, 1, 9, FALSE)

MCInputLists ==
  BoundedSeq({Medium, Big, Poison, Invalid}, MaxMixed)
    \union SeqOf({Small, Poison}, MaxPlain)

MCConfigs ==
  {[maxInputs |-> 2, maxTokens |-> 0, disableBisect |-> FALSE],
   [maxInputs |-> 0, maxTokens |-> 3, disableBisect |-> FALSE],
   [maxInputs |-> -1, maxTokens |-> 0, disableBisect |-> FALSE],
   [maxInputs |-> 0, maxTokens |-> 3, disableBisect |-> TRUE]}
\* A client that fails only for poison, and one for each further misbehaviour.
MCProvidersAll == {{}} \union {{f} : f \in Faults}
==============================================================================
