---------------------------- MODULE EmbedContract ----------------------------
(***************************************************************************)
(* What embed.Run promises its caller, without batches, requests or        *)
(* bisection: the inputs are settled in groups, each input at most once,   *)
(* and the run returns nil only when every input is settled.  A group is   *)
(* embedded as a whole or reported failed as a whole, with the one         *)
(* exception the implementation really has (see SettleTorn).               *)
(***************************************************************************)
EXTENDS Naturals

CONSTANT Lengths            \* the numbers of inputs a run may be given

VARIABLES
  outcome,                  \* outcome[p] \subseteq {"record", "failure"}: where input p shows up
  status                    \* "running", then how Run returned: "nil" or "canceled"

vars == <<outcome, status>>

Unsettled == {p \in DOMAIN outcome : outcome[p] = {}}

\* The inputs of T show up as `as`; nothing else changes.
Report(T, as) == [p \in DOMAIN outcome |-> IF p \in T THEN as[p] ELSE outcome[p]]

Init ==
  /\ \E n \in Lengths : outcome = [p \in 1..n |-> {}]
  /\ status = "running"

SettleEmbedded(S) == outcome' = Report(S, [p \in S |-> {"record"}])

SettleFailed(S) == outcome' = Report(S, [p \in S |-> {"failure"}])

(* A response with the right number of vectors but an unknown ID: the inputs
   ahead of the missing one are recorded before the batch is reported failed. *)
SettleTorn(S, T) ==
  outcome' = Report(S, [p \in S |-> IF p \in T THEN {"record", "failure"} ELSE {"failure"}])

Settle ==
  /\ status = "running"
  /\ \E S \in SUBSET Unsettled :
       /\ S # {}
       /\ SettleEmbedded(S) \/ SettleFailed(S) \/ \E T \in SUBSET S : SettleTorn(S, T)
  /\ UNCHANGED status

Return ==
  /\ status = "running"
  /\ status' \in {"nil", "canceled"}
  /\ status' = "nil" => Unsettled = {}
  /\ UNCHANGED outcome

Next == Settle \/ Return

Spec == Init /\ [][Next]_vars
==============================================================================
