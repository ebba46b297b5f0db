----------------------------- MODULE EmbedProofs -----------------------------
(***************************************************************************)
(* Theorems about Embed for every list of inputs, configuration and        *)
(* behaviour of the client.  The inductive invariant says how the cursor   *)
(* `done`, the cuts of the current batch and the ends of the waiting ones  *)
(* partition the valid inputs, and that exactly the ones up to the cursor  *)
(* are accounted for.                                                      *)
(***************************************************************************)
EXTENDS Embed, FiniteSetTheorems, WellFoundedInduction, TLAPS

Working == pc \in {"embed", "wait", "handle"}

(* Cuts lie between the cursor and the waiting batch ends, which reach to the
   last valid input: no item falls between two parts or behind the last batch. *)
CutsInv ==
  /\ done <= Len(valid)
  /\ \A c \in cuts : done < c /\ c <= Len(valid)
  /\ \A b \in batchEnds : done < b /\ b <= Len(valid)
  /\ \A c \in cuts, b \in batchEnds : c < b
  /\ Working => cuts # {}
  /\ pc \in {"validate", "pack", "next"} => cuts = {}
  /\ pc \in {"validate", "pack"} => done = 0
  /\ pc = "next" \/ Working => done = Len(valid) \/ Len(valid) \in cuts \union batchEnds
  /\ pc \in {"assemble", "done"} /\ err = "nil" => done = Len(valid)
  /\ pc \notin {"assemble", "done"} => err = "nil"

(* The packing loop: packed is the last batch end, and the open batch is never
   empty once an item has been packed. *)
PackInv ==
  /\ pc = "validate" => i \in 1..(Len(inputs) + 1) /\ packed = 0 /\ batchEnds = {}
  /\ pc = "pack" =>
       /\ i \in 1..(Len(valid) + 1)
       /\ packed < i - 1 \/ (i = 1 /\ packed = 0)
       /\ \A b \in batchEnds : b <= packed

(* How far the validation loop has come. *)
Seen == IF pc = "validate" THEN i - 1 ELSE Len(inputs)

(* valid lists exactly the well-formed positions seen, in increasing order. *)
ValidInv ==
  /\ \A k \in 1..Len(valid) : inputs[valid[k]].wellFormed /\ valid[k] <= Seen
  /\ \A j, k \in 1..Len(valid) : j < k => valid[j] < valid[k]
  /\ \A p \in Positions : p <= Seen /\ inputs[p].wellFormed => \E k \in 1..Len(valid) : valid[k] = p

(* The valid inputs up to the cursor are accounted for, the others not at all. *)
AccountInv ==
  /\ \A k \in 1..Len(valid) : k <= done => Accounted(valid[k])
  /\ \A k \in 1..Len(valid) : k > done => ~Accounted(valid[k])
  /\ \A p \in Positions : HasRecord(p) => inputs[p].wellFormed /\ p <= Seen
  /\ \A p \in Positions : p <= Seen /\ ~inputs[p].wellFormed => HasFailure(p)
  /\ \A f \in DOMAIN failures : \A p \in failures[f].items : p <= Seen

IInv == TypeOK /\ CutsInv /\ PackInv /\ ValidInv /\ AccountInv /\ ReportedOnce

-------------------------------------------------------------------------------
(* The least element of a non-empty set of naturals exists, so Min names it. *)
LEMMA MinOfNats ==
  ASSUME NEW S \in SUBSET Nat, S # {}
  PROVE  Min(S) \in S /\ \A y \in S : Min(S) <= y
<1>1. \E x \in S : \A y \in S : <<y, x>> \notin OpToRel(<, Nat)
  BY WFMin, NatLessThanWellFounded
<1>2. PICK x \in S : \A y \in S : <<y, x>> \notin OpToRel(<, Nat)
  BY <1>1
<1>3. OpToRel(<, Nat) = {ss \in Nat \X Nat : ss[1] < ss[2]}
  BY DEF OpToRel
<1>4. ASSUME NEW y \in S PROVE x <= y
  <2>1. x \in Nat /\ y \in Nat
    OBVIOUS
  <2>2. ~(y < x)
    BY <1>2, <1>3, <2>1
  <2> QED
    BY <2>1, <2>2
<1> QED
  BY <1>4 DEF Min

(* The part being embedded is a non-empty slice of the valid inputs that starts
   behind the cursor and ends at the smallest cut. *)
LEMMA PartFacts ==
  ASSUME IInv, Working
  PROVE  /\ partEnd \in cuts /\ partEnd \in Nat
         /\ done < partEnd /\ partEnd <= Len(valid)
         /\ \A c \in cuts : partEnd <= c
         /\ Part \subseteq 1..Len(valid)
         /\ \A k \in 1..Len(valid) : k \in Part <=> done < k /\ k <= partEnd
         /\ Asked \subseteq Positions /\ Asked # {} /\ IsFiniteSet(Asked)
         /\ Min(Asked) \in Nat
<1> USE DEF IInv, TypeOK, Working
<1>1. partEnd \in cuts /\ partEnd \in Nat /\ \A c \in cuts : partEnd <= c
  BY MinOfNats DEF CutsInv, partEnd
<1>2. done < partEnd /\ partEnd <= Len(valid)
  BY <1>1 DEF CutsInv
<1>3. Part \subseteq 1..Len(valid) /\ \A k \in 1..Len(valid) : k \in Part <=> done < k /\ k <= partEnd
  BY <1>1, <1>2 DEF Part
<1>4. Asked \subseteq Positions
  BY <1>3 DEF Asked, Slice
<1>5. partEnd \in Part
  BY <1>1, <1>2 DEF Part
<1>6. Asked # {}
  <2>1. valid[partEnd] \in Asked
    BY <1>5 DEF Asked, Slice
  <2> QED
    BY <2>1
<1>7. IsFiniteSet(Positions)
  BY FS_Interval DEF Positions
<1>8. IsFiniteSet(Asked)
  BY <1>4, <1>7, FS_Subset
<1>9. Min(Asked) \in Nat
  <2>1. Asked \in SUBSET Nat
    BY <1>4 DEF Positions
  <2> QED
    BY <2>1, <1>6, MinOfNats
<1> QED
  BY <1>1, <1>2, <1>3, <1>4, <1>6, <1>8, <1>9

(* The failure a part is reported as has the type of a failure, and covers the
   inputs asked for. *)
LEMMA FailureFacts ==
  ASSUME IInv, Working,
         NEW why \in {"invalid", "error", "mismatch"}, NEW retry \in BOOLEAN,
         addBatchFailure(why, retry)
  PROVE  /\ failures' \in Seq(FailureType)
         /\ Len(failures') = Len(failures) + 1
         /\ \A f \in 1..Len(failures) : failures'[f] = failures[f]
         /\ failures'[Len(failures) + 1].items = Asked
         /\ failures'[Len(failures) + 1].cause = why
<1>1. posFailure(Asked, why, retry) \in FailureType
  BY PartFacts DEF posFailure, FailureType
<1>2. failures' = Append(failures, posFailure(Asked, why, retry))
  BY DEF addBatchFailure, Asked
<1>3. failures \in Seq(FailureType)
  BY DEF IInv, TypeOK
<1>4. posFailure(Asked, why, retry).items = Asked /\ posFailure(Asked, why, retry).cause = why
  BY DEF posFailure
<1> QED
  BY <1>1, <1>2, <1>3, <1>4

(* The initial states satisfy the invariant. *)
LEMMA InitIInv == Init => IInv
<1> SUFFICES ASSUME Init PROVE IInv
  OBVIOUS
<1> USE EmbedAssumption
<1>1. inputs \in Seq(InputKinds) /\ Len(inputs) \in Nat
  BY DEF Init
<1>2. cfg \in [maxInputs : Nat \ {0}, maxTokens : Nat \ {0}, disableBisect : BOOLEAN]
  <2>1. PICK c \in Configs : cfg = withDefaults(c)
    BY DEF Init
  <2>2. c \in [maxInputs : Int, maxTokens : Int, disableBisect : BOOLEAN]
    OBVIOUS
  <2>3. c.maxInputs \in Int /\ c.maxTokens \in Int /\ c.disableBisect \in BOOLEAN
    BY <2>2
  <2>4. cfg = [maxInputs |-> IF c.maxInputs <= 0 THEN DefaultMaxBatchInputs ELSE c.maxInputs,
               maxTokens |-> IF c.maxTokens <= 0 THEN DefaultMaxBatchTokens ELSE c.maxTokens,
               disableBisect |-> c.disableBisect]
    BY <2>1, <2>2 DEF withDefaults
  <2>5. /\ (IF c.maxInputs <= 0 THEN DefaultMaxBatchInputs ELSE c.maxInputs) \in Nat \ {0}
        /\ (IF c.maxTokens <= 0 THEN DefaultMaxBatchTokens ELSE c.maxTokens) \in Nat \ {0}
    BY <2>3
  <2> QED
    BY <2>3, <2>4, <2>5
<1>3. TypeOK
  <2>1. reply \in ReplyType
    BY DEF Init, NoReply, ReplyType
  <2>2. records \in [Positions -> Nat \union {UnknownID, NoVector}] /\ failures \in Seq(FailureType)
    BY DEF Init
  <2>3. provider \in SUBSET Faults
    BY DEF Init
  <2>4. valid \in Seq(Positions)
    BY DEF Init
  <2>5. /\ i \in Nat /\ packed \in Nat /\ curTok \in Nat /\ done \in Nat /\ calls \in Nat
        /\ batchEnds \in SUBSET Nat /\ cuts \in SUBSET Nat
        /\ canceled \in BOOLEAN /\ err \in {"nil", "canceled"}
        /\ pc \in {"validate", "pack", "next", "embed", "wait", "handle", "assemble", "done"}
    BY DEF Init
  <2> QED
    BY <1>1, <1>2, <2>1, <2>2, <2>3, <2>4, <2>5 DEF TypeOK
<1>4. CutsInv /\ PackInv
  BY <1>1 DEF Init, CutsInv, PackInv, Working
<1>5. ValidInv /\ AccountInv /\ ReportedOnce
  BY <1>1 DEF Init, ValidInv, AccountInv, ReportedOnce, Seen, Accounted, HasRecord, HasFailure, Positions
<1> QED
  BY <1>3, <1>4, <1>5 DEF IInv

-------------------------------------------------------------------------------
(* Types. *)

(* A client's answer is of the type of a reply. *)
LEMMA RepliesType ==
  ASSUME IInv, Working
  PROVE  Replies \subseteq ReplyType
<1> DEFINE IDs == Nat \union {UnknownID}
<1>1. Asked \subseteq Nat /\ IsFiniteSet(Asked)
  BY PartFacts DEF Positions
<1>2. ASSUME NEW S \in SUBSET Asked
      PROVE  SetToSeqs(S) \subseteq Seq(IDs)
  <2>1. Cardinality(S) \in Nat
    BY <1>1, FS_Subset, FS_CardinalityType
  <2>2. SetToSeqs(S) \subseteq [1..Cardinality(S) -> S]
    BY DEF SetToSeqs
  <2>3. S \subseteq IDs
    BY <1>1
  <2>4. [1..Cardinality(S) -> S] \subseteq [1..Cardinality(S) -> IDs]
    BY <2>3
  <2> QED
    BY <2>1, <2>2, <2>4
<1>3. \A S \in SUBSET Asked : Orderings(S) \subseteq ReplyType
  BY <1>2 DEF Orderings, Success, ReplyType
<1>4. ASSUME NEW S \in SUBSET Asked, NEW id \in IDs
      PROVE  WithExtra(S, id) \subseteq ReplyType
  BY <1>2 DEF WithExtra, Success, ReplyType
<1>5. \A kind \in {"retryable", "permanent", "canceled"} : Failed(kind) \in ReplyType
  BY DEF Failed, ReplyType
<1>6. UNION {Orderings(Asked \ {p}) : p \in Asked} \subseteq ReplyType
  BY <1>3
<1>7. UNION {WithExtra(Asked, p) : p \in Asked} \subseteq ReplyType
  BY <1>4, <1>1
<1>8. UNION {WithExtra(Asked \ {p}, UnknownID) : p \in Asked} \subseteq ReplyType
  BY <1>4
<1>9. WithExtra(Asked, UnknownID) \subseteq ReplyType /\ Orderings(Asked) \subseteq ReplyType
  BY <1>3, <1>4
<1>10. (IF Poisoned THEN {Failed("permanent")} ELSE Orderings(Asked)) \subseteq ReplyType
  BY <1>5, <1>9
<1>11. (IF "transient" \in provider THEN {Failed("retryable")} ELSE {}) \subseteq ReplyType
  BY <1>5
<1>12. (IF canceled \/ "canceled" \in provider THEN {Failed("canceled")} ELSE {}) \subseteq ReplyType
  BY <1>5
<1>13. (IF "count" \in provider
        THEN (UNION {Orderings(Asked \ {p}) : p \in Asked}) \union WithExtra(Asked, UnknownID)
        ELSE {}) \subseteq ReplyType
  BY <1>6, <1>9
<1>14. (IF "duplicate" \in provider THEN UNION {WithExtra(Asked, p) : p \in Asked} ELSE {})
         \subseteq ReplyType
  BY <1>7
<1>15. (IF "unknown" \in provider THEN UNION {WithExtra(Asked \ {p}, UnknownID) : p \in Asked} ELSE {})
         \subseteq ReplyType
  BY <1>8
<1> QED
  BY <1>10, <1>11, <1>12, <1>13, <1>14, <1>15, Zenon DEF Replies

(* Every step preserves the types. *)
LEMMA TypeStep ==
  ASSUME IInv, [Next]_vars
  PROVE  TypeOK'
<1> USE EmbedAssumption
<1>0. TypeOK
  BY DEF IInv
<1>1. inputs' = inputs /\ Positions' = Positions /\ FailureType' = FailureType /\ ReplyType' = ReplyType
  BY DEF Next, RunStep, vars, fixedVars, Positions, FailureType, ReplyType, Validate, StartPacking,
         Pack, FinishPacking, CancelBeforeBatch, StartBatch, FinishBatches, Assemble, CallEmbed,
         AbortCanceled, Bisect, FailBatch, RejectResponse, RecordResponse, ProviderReply,
         CancelContext, Terminated
<1> USE DEF fixedVars, loopVars
<1>2. CASE Validate
  <2>1. i \in Positions /\ i' = i + 1 /\ i \in Nat
    BY <1>2 DEF Validate, Positions
  <2>2. valid' \in Seq(Positions)
    <3>1. valid \in Seq(Positions)
      BY <1>0 DEF TypeOK
    <3>2. valid' = valid \/ valid' = Append(valid, i)
      BY <1>2 DEF Validate
    <3> QED
      BY <2>1, <3>1, <3>2
  <2>3. failures' \in Seq(FailureType)
    <3>1. Min({i}) = i
      BY <2>1, MinOfNats
    <3>2. posFailure({i}, "invalid", FALSE) \in FailureType
      BY <2>1, <3>1 DEF posFailure, FailureType
    <3>3. failures \in Seq(FailureType)
      BY <1>0 DEF TypeOK
    <3>4. failures' = failures \/ failures' = Append(failures, posFailure({i}, "invalid", FALSE))
      BY <1>2 DEF Validate
    <3>5. \A x \in FailureType : Append(failures, x) \in Seq(FailureType)
      BY <3>3
    <3> QED
      BY <3>2, <3>3, <3>4, <3>5, Zenon
  <2> QED
    BY <1>0, <1>1, <1>2, <2>1, <2>2, <2>3 DEF Validate, TypeOK
<1>3. CASE Pack
  <2>1. tokensFor(inputs[valid[i]]) \in Nat
    <3>1. i \in 1..Len(valid)
      BY <1>0, <1>3 DEF Pack, TypeOK, IInv, PackInv
    <3>2. valid[i] \in Positions
      BY <1>0, <3>1 DEF TypeOK
    <3>3. inputs[valid[i]] \in InputKinds
      BY <1>0, <3>2 DEF TypeOK, Positions
    <3> QED
      BY <3>3 DEF tokensFor, InputKinds
  <2>2. i' \in Nat /\ i - 1 \in Nat
    BY <1>0, <1>3 DEF Pack, TypeOK, IInv, PackInv
  <2>3. batchEnds' \in SUBSET Nat /\ packed' \in Nat /\ curTok' \in Nat
    <3>1. batchEnds \in SUBSET Nat /\ packed \in Nat /\ curTok \in Nat
      BY <1>0 DEF TypeOK
    <3>2. \/ /\ batchEnds' = batchEnds \union {i - 1} /\ packed' = i - 1
             /\ curTok' = tokensFor(inputs[valid[i]])
          \/ /\ batchEnds' = batchEnds /\ packed' = packed
             /\ curTok' = curTok + tokensFor(inputs[valid[i]])
      BY <1>3 DEF Pack
    <3>3. CASE batchEnds' = batchEnds \union {i - 1} /\ packed' = i - 1
               /\ curTok' = tokensFor(inputs[valid[i]])
      BY <2>1, <2>2, <3>1, <3>3
    <3>4. CASE batchEnds' = batchEnds /\ packed' = packed
               /\ curTok' = curTok + tokensFor(inputs[valid[i]])
      BY <2>1, <3>1, <3>4
    <3> QED
      BY <3>2, <3>3, <3>4
  <2> QED
    BY <1>0, <1>1, <1>3, <2>2, <2>3 DEF Pack, TypeOK
<1>4. CASE StartPacking
  BY <1>0, <1>1, <1>4 DEF StartPacking, TypeOK
<1>5. CASE FinishPacking
  <2>1. batchEnds' \in SUBSET Nat
    <3>1. batchEnds \in SUBSET Nat /\ valid \in Seq(Positions)
      BY <1>0 DEF TypeOK
    <3>2. Len(valid) \in Nat
      BY <3>1
    <3> QED
      BY <1>5, <3>1, <3>2 DEF FinishPacking
  <2> QED
    BY <1>0, <1>1, <1>5, <2>1 DEF FinishPacking, TypeOK
<1>6. CASE CancelBeforeBatch
  BY <1>0, <1>1, <1>6 DEF CancelBeforeBatch, TypeOK
<1>7. CASE StartBatch
  <2>1. Min(batchEnds) \in Nat
    BY <1>0, <1>7, MinOfNats DEF StartBatch, TypeOK
  <2> QED
    BY <1>0, <1>1, <1>7, <2>1 DEF StartBatch, TypeOK
<1>8. CASE FinishBatches
  BY <1>0, <1>1, <1>8 DEF FinishBatches, TypeOK
<1>9. CASE Assemble
  BY <1>0, <1>1, <1>9 DEF Assemble, TypeOK
<1>10. CASE CallEmbed
  <2>1. calls' \in Nat
    BY <1>0, <1>10 DEF CallEmbed, TypeOK
  <2> QED
    BY <1>0, <1>1, <1>10, <2>1 DEF CallEmbed, TypeOK
<1>11. CASE AbortCanceled
  BY <1>0, <1>1, <1>11 DEF AbortCanceled, TypeOK
<1>12. CASE Bisect
  <2>1. cuts' \in SUBSET Nat
    <3>1. Working
      BY <1>12 DEF Bisect, ClientFailed, Working
    <3>2. PartSize \in Nat
      BY <1>0, <3>1, PartFacts DEF PartSize, TypeOK
    <3> QED
      BY <1>0, <1>12, <3>2 DEF Bisect, TypeOK
  <2> QED
    BY <1>0, <1>1, <1>12, <2>1 DEF Bisect, TypeOK
<1>13. ASSUME Working, Settled
       PROVE  done' \in Nat /\ cuts' \in SUBSET Nat /\ pc' \in {"next", "embed"}
  BY <1>0, <1>13, PartFacts DEF Settled, TypeOK
<1>14. CASE FailBatch
  <2>1. Working
    BY <1>14 DEF FailBatch, ClientFailed, Working
  <2>2. failures' \in Seq(FailureType)
    BY <1>14, <2>1, FailureFacts DEF FailBatch
  <2> QED
    BY <1>0, <1>1, <1>13, <1>14, <2>1, <2>2 DEF FailBatch, TypeOK
<1>15. CASE RejectResponse
  <2>1. Working
    BY <1>15 DEF RejectResponse, Working
  <2>2. failures' \in Seq(FailureType)
    BY <1>15, <2>1, FailureFacts DEF RejectResponse
  <2> QED
    BY <1>0, <1>1, <1>13, <1>15, <2>1, <2>2 DEF RejectResponse, TypeOK
<1>16. CASE RecordResponse
  <2>1. Working
    BY <1>16 DEF RecordResponse, Working
  <2>2. failures' \in Seq(FailureType)
    BY <1>0, <1>16, <2>1, FailureFacts DEF RecordResponse, StoreVectors, TypeOK
  <2>3. records' \in [Positions -> Nat \union {UnknownID, NoVector}]
    <3>1. ASSUME NEW k \in Recorded
          PROVE  vectorFor(k) \in Nat
      <4>1. valid[k] \in Range(reply.ids) /\ k \in 1..Len(valid)
        BY <2>1, PartFacts DEF Recorded, Answered, Part
      <4>2. vectorFor(k) = valid[k]
        BY <4>1 DEF vectorFor
      <4> QED
        BY <1>0, <4>1, <4>2 DEF TypeOK, Positions
    <3> QED
      BY <1>0, <1>16, <3>1 DEF RecordResponse, StoreVectors, TypeOK
  <2> QED
    BY <1>0, <1>1, <1>13, <1>16, <2>1, <2>2, <2>3 DEF RecordResponse, TypeOK
<1>17. CASE ProviderReply
  <2>1. reply' \in ReplyType
    BY <1>17, RepliesType DEF ProviderReply, Working
  <2> QED
    BY <1>0, <1>1, <1>17, <2>1 DEF ProviderReply, TypeOK
<1>18. CASE CancelContext
  BY <1>0, <1>1, <1>18 DEF CancelContext, TypeOK
<1>19. CASE UNCHANGED vars
  BY <1>0, <1>1, <1>19 DEF vars, TypeOK
<1> QED
  BY <1>2, <1>3, <1>4, <1>5, <1>6, <1>7, <1>8, <1>9, <1>10, <1>11, <1>12, <1>14, <1>15, <1>16,
     <1>17, <1>18, <1>19 DEF Next, RunStep, Terminated

-------------------------------------------------------------------------------
(* The cursor, the cuts and the batch ends. *)

(* Settling the current part leaves the later cuts and batches in place. *)
LEMMA SettledFacts ==
  ASSUME IInv, Working, Settled
  PROVE  /\ done' = partEnd /\ done' > done /\ done' <= Len(valid)
         /\ cuts' \subseteq cuts
         /\ \A c \in cuts' : done' < c
         /\ \A b \in batchEnds : done' < b
         /\ pc' = "next" => cuts' = {}
         /\ pc' = "embed" => cuts' # {}
         /\ pc' \in {"next", "embed"}
         /\ \A c \in cuts : c = partEnd \/ c \in cuts'
<1> USE DEF IInv, TypeOK
<1>1. cuts' = cuts \ {partEnd} /\ done' = partEnd /\ pc' = IF cuts' = {} THEN "next" ELSE "embed"
  BY DEF Settled
<1>2. \A c \in cuts' : done' < c
  BY <1>1, PartFacts
<1>3. \A b \in batchEnds : done' < b
  BY <1>1, PartFacts DEF CutsInv
<1> QED
  BY <1>1, <1>2, <1>3, PartFacts

(* Every step preserves CutsInv. *)
LEMMA CutsStep ==
  ASSUME IInv, [Next]_vars
  PROVE  CutsInv'
<1> USE DEF fixedVars, loopVars, Working
<1>0. /\ CutsInv /\ valid \in Seq(Positions) /\ Len(valid) \in Nat
      /\ done \in Nat /\ cuts \in SUBSET Nat /\ batchEnds \in SUBSET Nat
  BY DEF IInv, TypeOK
<1>2. CASE Validate
  <2>1. Len(valid') \in Nat
    BY <1>0, <1>2 DEF Validate, Positions
  <2>2. batchEnds = {} /\ done = 0
    BY <1>0, <1>2 DEF Validate, IInv, PackInv, CutsInv
  <2> QED
    BY <1>0, <1>2, <2>1, <2>2 DEF Validate, CutsInv
<1>3. CASE Pack
  <2>1. i \in 1..Len(valid) /\ batchEnds' \subseteq batchEnds \union {i - 1}
    BY <1>0, <1>3 DEF Pack, IInv, PackInv
  <2>2. i - 1 \in batchEnds' => i - 1 > 0
    <3>1. batchEnds' = batchEnds \/ i - 1 - packed > 0
      BY <1>3 DEF Pack, BatchFull
    <3>2. packed \in Nat /\ i \in Nat /\ \A b \in batchEnds : 0 < b
      BY <1>0, <1>3 DEF Pack, IInv, TypeOK, CutsInv
    <3> QED
      BY <3>1, <3>2
  <2> QED
    BY <1>0, <1>3, <2>1, <2>2 DEF Pack, CutsInv
<1>4. CASE StartPacking
  BY <1>0, <1>4 DEF StartPacking, CutsInv
<1>5. CASE FinishPacking
  <2>1. packed = Len(valid) => Len(valid) = 0
    BY <1>0, <1>5 DEF FinishPacking, IInv, PackInv, TypeOK
  <2>2. packed <= Len(valid)
    BY <1>0, <1>5 DEF FinishPacking, IInv, PackInv, TypeOK
  <2> QED
    BY <1>0, <1>5, <2>1, <2>2 DEF FinishPacking, CutsInv, IInv, TypeOK
<1>6. CASE CancelBeforeBatch
  BY <1>0, <1>6 DEF CancelBeforeBatch, CutsInv
<1>7. CASE StartBatch
  <2>1. PICK m \in batchEnds : m = Min(batchEnds) /\ \A b \in batchEnds : m <= b
    BY <1>0, <1>7, MinOfNats DEF StartBatch
  <2>2. cuts' = {m} /\ batchEnds' = batchEnds \ {m}
    BY <1>7, <2>1 DEF StartBatch
  <2>3. \A b \in batchEnds' : m < b
    BY <1>0, <2>1, <2>2
  <2> QED
    BY <1>0, <1>7, <2>1, <2>2, <2>3 DEF StartBatch, CutsInv
<1>8. CASE FinishBatches
  BY <1>0, <1>8 DEF FinishBatches, CutsInv
<1>9. CASE Assemble
  BY <1>0, <1>9 DEF Assemble, CutsInv
<1>10. CASE CallEmbed
  BY <1>0, <1>10 DEF CallEmbed, CutsInv
<1>11. CASE AbortCanceled
  BY <1>0, <1>11 DEF AbortCanceled, CutsInv
<1>12. CASE Bisect
  <2>1. Working /\ PartSize > 1
    BY <1>12 DEF Bisect, ClientFailed, CanBisect
  <2>2. /\ done < done + PartSize \div 2 /\ done + PartSize \div 2 < partEnd
        /\ done + PartSize \div 2 \in Nat
    BY <1>0, <2>1, PartFacts DEF PartSize
  <2>3. \A b \in batchEnds : done + PartSize \div 2 < b
    BY <1>0, <2>1, <2>2, PartFacts DEF CutsInv
  <2>4. done + PartSize \div 2 <= Len(valid)
    BY <1>0, <2>1, <2>2, PartFacts
  <2> QED
    BY <1>0, <1>12, <2>1, <2>2, <2>3, <2>4 DEF Bisect, CutsInv
<1>13. ASSUME Working, Settled, UNCHANGED <<valid, batchEnds, err>>
       PROVE  CutsInv'
  <2>1. partEnd = Len(valid) \/ Len(valid) \in cuts' \union batchEnds
    BY <1>0, <1>13, SettledFacts, PartFacts DEF CutsInv
  <2> QED
    BY <1>0, <1>13, <2>1, SettledFacts, PartFacts DEF CutsInv
<1>14. CASE FailBatch
  BY <1>13, <1>14 DEF FailBatch, ClientFailed
<1>15. CASE RejectResponse
  BY <1>13, <1>15 DEF RejectResponse
<1>16. CASE RecordResponse
  BY <1>13, <1>16 DEF RecordResponse
<1>17. CASE ProviderReply
  BY <1>0, <1>17 DEF ProviderReply, CutsInv
<1>18. CASE CancelContext
  BY <1>0, <1>18 DEF CancelContext, CutsInv
<1>19. CASE UNCHANGED vars
  BY <1>0, <1>19 DEF vars, CutsInv
<1> QED
  BY <1>2, <1>3, <1>4, <1>5, <1>6, <1>7, <1>8, <1>9, <1>10, <1>11, <1>12, <1>14, <1>15, <1>16,
     <1>17, <1>18, <1>19 DEF Next, RunStep, Terminated

(* Every step preserves PackInv: only four actions touch the packing loop. *)
LEMMA PackStep ==
  ASSUME IInv, [Next]_vars
  PROVE  PackInv'
<1> USE DEF fixedVars, loopVars
<1>0. /\ PackInv /\ inputs \in Seq(InputKinds) /\ Len(inputs) \in Nat
      /\ valid \in Seq(Positions) /\ Len(valid) \in Nat
      /\ packed \in Nat /\ batchEnds \in SUBSET Nat
  BY DEF IInv, TypeOK
<1>1. CASE Validate
  BY <1>0, <1>1 DEF Validate, PackInv, Positions
<1>2. CASE StartPacking
  BY <1>0, <1>2 DEF StartPacking, PackInv
<1>3. CASE Pack
  <2>1. i \in 1..Len(valid)
    BY <1>0, <1>3 DEF Pack, PackInv
  <2>2. i' = i + 1 /\ valid' = valid /\ pc' = "pack" /\ pc = "pack"
    BY <1>3 DEF Pack
  <2>3. \/ packed' = i - 1 /\ batchEnds' = batchEnds \union {i - 1}
        \/ packed' = packed /\ batchEnds' = batchEnds
    BY <1>3 DEF Pack
  <2>4. packed' < i' - 1
    BY <1>0, <2>1, <2>2, <2>3 DEF PackInv
  <2>5. \A b \in batchEnds' : b <= packed'
    <3>1. packed <= i - 1 /\ \A b \in batchEnds : b <= packed
      BY <1>0, <2>1, <2>2 DEF PackInv
    <3>2. CASE packed' = i - 1 /\ batchEnds' = batchEnds \union {i - 1}
      <4>1. \A b \in batchEnds : b <= i - 1
        BY <1>0, <2>1, <3>1
      <4> QED
        BY <2>1, <3>2, <4>1
    <3>3. CASE packed' = packed /\ batchEnds' = batchEnds
      BY <3>1, <3>3
    <3> QED
      BY <2>3, <3>2, <3>3
  <2> QED
    BY <1>0, <2>1, <2>2, <2>4, <2>5 DEF PackInv
<1>4. CASE FinishPacking
  BY <1>4 DEF FinishPacking, PackInv
<1>5. CASE UNCHANGED <<inputs, valid, i, packed, pc, batchEnds>>
  BY <1>0, <1>5 DEF PackInv
<1>6. CASE pc' \notin {"validate", "pack"}
  BY <1>6 DEF PackInv
<1>7. \/ Validate \/ StartPacking \/ Pack \/ FinishPacking
      \/ UNCHANGED <<inputs, valid, i, packed, pc, batchEnds>> \/ pc' \notin {"validate", "pack"}
  BY DEF Next, RunStep, vars, CancelBeforeBatch, StartBatch, FinishBatches, Assemble, CallEmbed,
         AbortCanceled, Bisect, FailBatch, RejectResponse, RecordResponse, Settled, ProviderReply,
         CancelContext, Terminated
<1> QED
  BY <1>1, <1>2, <1>3, <1>4, <1>5, <1>6, <1>7

-------------------------------------------------------------------------------
(* The valid inputs and what is reported of them. *)

Settling == FailBatch \/ RejectResponse \/ RecordResponse

(* Outside the validation loop the inputs, the valid ones and how many have been
   seen do not change, and only settling a part changes what is reported. *)
LEMMA QuietSteps ==
  ASSUME IInv, [Next]_vars, ~Validate
  PROVE  /\ UNCHANGED <<inputs, valid>> /\ Seen' = Seen
         /\ Settling \/ UNCHANGED <<records, failures, done>>
<1> USE DEF fixedVars, loopVars
<1>1. UNCHANGED <<inputs, valid>> /\ (Settling \/ UNCHANGED <<records, failures, done>>)
  BY DEF Next, RunStep, vars, StartPacking, Pack, FinishPacking, CancelBeforeBatch, StartBatch,
         FinishBatches, Assemble, CallEmbed, AbortCanceled, Bisect, FailBatch, RejectResponse,
         RecordResponse, ProviderReply, CancelContext, Terminated, Settling
<1>2. CASE StartPacking
  <2>1. i = Len(inputs) + 1 /\ pc = "validate" /\ pc' = "pack"
    BY <1>2 DEF StartPacking, IInv, PackInv, TypeOK
  <2> QED
    BY <1>1, <2>1 DEF Seen, IInv, TypeOK
<1>3. CASE ~StartPacking
  <2>1. (pc' = pc /\ i' = i) \/ (pc # "validate" /\ pc' # "validate")
    BY <1>3 DEF Next, RunStep, vars, Pack, FinishPacking, CancelBeforeBatch, StartBatch,
         FinishBatches, Assemble, CallEmbed, AbortCanceled, Bisect, FailBatch, RejectResponse,
         RecordResponse, Settled, ClientFailed, ProviderReply, CancelContext, Terminated
  <2> QED
    BY <1>1, <2>1 DEF Seen
<1> QED
  BY <1>1, <1>2, <1>3

(* Validating one more input. *)
LEMMA ValidateFacts ==
  ASSUME IInv, Validate
  PROVE  /\ i \in Positions /\ i \in Nat /\ Seen = i - 1 /\ Seen' = i
         /\ UNCHANGED <<inputs, records, done>>
         /\ \/ /\ inputs[i].wellFormed /\ failures' = failures
               /\ Len(valid') = Len(valid) + 1 /\ valid'[Len(valid) + 1] = i
               /\ \A k \in 1..Len(valid) : valid'[k] = valid[k]
            \/ /\ ~inputs[i].wellFormed /\ valid' = valid
               /\ Len(failures') = Len(failures) + 1
               /\ failures'[Len(failures) + 1].items = {i}
               /\ \A f \in 1..Len(failures) : failures'[f] = failures[f]
<1>1. i \in Positions /\ i \in Nat /\ Seen = i - 1 /\ Seen' = i /\ UNCHANGED <<inputs, records, done>>
  BY DEF Validate, fixedVars, Seen, Positions, IInv, TypeOK
<1>2. valid \in Seq(Positions) /\ failures \in Seq(FailureType)
  BY DEF IInv, TypeOK
<1>3. CASE inputs[i].wellFormed
  <2>1. valid' = Append(valid, i) /\ failures' = failures
    BY <1>3 DEF Validate
  <2> QED
    BY <1>1, <1>2, <1>3, <2>1
<1>4. CASE ~inputs[i].wellFormed
  <2>1. PICK x : x = posFailure({i}, "invalid", FALSE)
    OBVIOUS
  <2>2. x.items = {i}
    BY <2>1 DEF posFailure
  <2>3. failures' = Append(failures, x) /\ valid' = valid
    BY <1>4, <2>1 DEF Validate
  <2>4. /\ Len(failures') = Len(failures) + 1 /\ failures'[Len(failures) + 1] = x
        /\ \A f \in 1..Len(failures) : failures'[f] = failures[f]
    BY <1>2, <2>3
  <2> QED
    BY <1>1, <1>4, <2>2, <2>3, <2>4
<1> QED
  BY <1>3, <1>4

(* Every step preserves ValidInv. *)
LEMMA ValidStep ==
  ASSUME IInv, [Next]_vars
  PROVE  ValidInv'
<1>0. /\ ValidInv /\ valid \in Seq(Positions) /\ Len(valid) \in Nat
      /\ inputs \in Seq(InputKinds) /\ Len(inputs) \in Nat
  BY DEF IInv, TypeOK
<1>1. CASE Validate
  <2> USE ValidateFacts, <1>0, <1>1
  <2>1. CASE inputs[i].wellFormed
    <3>1. \A k \in 1..Len(valid') : k \in 1..Len(valid) \/ k = Len(valid) + 1
      BY <2>1
    <3>2. \A k \in 1..Len(valid) : valid[k] < i
      BY DEF ValidInv, Positions
    <3>3. ASSUME NEW k \in 1..Len(valid')
          PROVE  (inputs[valid[k]].wellFormed /\ valid[k] <= Seen)'
      <4>1. CASE k = Len(valid) + 1
        BY ONLY <2>1, <4>1, ValidateFacts, <1>1, IInv
      <4>2. CASE k \in 1..Len(valid)
        <5>1. inputs[valid[k]].wellFormed /\ valid[k] <= Seen
          BY <4>2 DEF ValidInv
        <5>2. valid[k] \in Nat
          BY <4>2 DEF Positions
        <5> QED
          BY <2>1, <4>2, <5>1, <5>2
      <4> QED
        BY <3>1, <4>1, <4>2
    <3>4. ASSUME NEW j \in 1..Len(valid'), NEW k \in 1..Len(valid'), j < k
          PROVE  valid'[j] < valid'[k]
      <4>1. j \in 1..Len(valid) /\ valid'[j] = valid[j]
        BY <2>1, <3>4
      <4>2. CASE k = Len(valid) + 1
        BY <2>1, <3>2, <4>1, <4>2
      <4>3. CASE k \in 1..Len(valid)
        BY <2>1, <3>4, <4>1, <4>3 DEF ValidInv
      <4> QED
        BY <3>1, <4>2, <4>3
    <3>5. ASSUME NEW p \in Positions, p <= i, inputs[p].wellFormed
          PROVE  \E k \in 1..Len(valid') : valid'[k] = p
      <4>1. CASE p = i
        BY <2>1, <4>1
      <4>2. CASE p <= i - 1
        <5>1. PICK k \in 1..Len(valid) : valid[k] = p
          BY <3>5, <4>2 DEF ValidInv
        <5> QED
          BY <2>1, <5>1
      <4> QED
        BY <3>5, <4>1, <4>2 DEF Positions
    <3> QED
      BY <3>3, <3>4, <3>5 DEF ValidInv, Positions
  <2>2. CASE ~inputs[i].wellFormed
    <3>1. valid' = valid /\ inputs' = inputs /\ Seen' = i /\ Seen = i - 1
      BY <2>2
    <3>2. \A k \in 1..Len(valid) : inputs[valid[k]].wellFormed /\ valid[k] <= i
      BY <3>1 DEF ValidInv, Positions
    <3>3. ASSUME NEW p \in Positions, p <= i, inputs[p].wellFormed
          PROVE  \E k \in 1..Len(valid) : valid[k] = p
      <4>1. p <= i - 1
        BY <2>2, <3>3 DEF Positions
      <4> QED
        BY <3>1, <3>3, <4>1 DEF ValidInv
    <3>4. \A j, k \in 1..Len(valid) : j < k => valid[j] < valid[k]
      BY DEF ValidInv
    <3> QED
      BY <3>1, <3>2, <3>3, <3>4 DEF ValidInv, Positions
  <2> QED
    BY <2>1, <2>2
<1>2. CASE ~Validate
  BY <1>0, <1>2, QuietSteps DEF ValidInv, Positions
<1> QED
  BY <1>1, <1>2

(* Settling the current part reports exactly the inputs asked for. *)
LEMMA SettlingFacts ==
  ASSUME IInv, [Next]_vars, Settling
  PROVE  /\ Working /\ Settled
         /\ \A p \in Positions : HasRecord(p) => HasRecord(p)'
         /\ \A p \in Positions : HasRecord(p)' => HasRecord(p) \/ p \in Asked
         /\ \/ /\ failures' = failures
               /\ \A p \in Asked : HasRecord(p)'
            \/ /\ Len(failures') = Len(failures) + 1
               /\ \A f \in 1..Len(failures) : failures'[f] = failures[f]
               /\ failures'[Len(failures) + 1].items = Asked
               /\ records' = records \/ failures'[Len(failures) + 1].cause = "mismatch"
<1> USE DEF Working
<1>1. CASE FailBatch
  <2>1. Working /\ Settled /\ records' = records /\ addBatchFailure("error", reply.err = "retryable")
    BY <1>1 DEF FailBatch, ClientFailed
  <2> QED
    BY <2>1, FailureFacts DEF HasRecord
<1>2. CASE RejectResponse
  <2>1. Working /\ Settled /\ records' = records /\ addBatchFailure("mismatch", FALSE)
    BY <1>2 DEF RejectResponse
  <2> QED
    BY <2>1, FailureFacts DEF HasRecord
<1>3. CASE RecordResponse
  <2>1. Working /\ Settled /\ StoreVectors
    BY <1>3 DEF RecordResponse
  <2>2. records \in [Positions -> Nat \union {UnknownID, NoVector}] /\ valid \in Seq(Positions)
    BY DEF IInv, TypeOK
  <2>3. ASSUME NEW k \in Recorded
        PROVE  vectorFor(k) \in Nat
    <3>1. valid[k] \in Range(reply.ids) /\ k \in 1..Len(valid)
      BY <2>1, PartFacts DEF Recorded, Answered, Part
    <3>2. vectorFor(k) = valid[k]
      BY <3>1 DEF vectorFor
    <3> QED
      BY <2>2, <3>1, <3>2 DEF Positions
  <2>4. \A p \in Positions :
          records'[p] = IF \E k \in Recorded : valid[k] = p
                        THEN vectorFor(CHOOSE k \in Recorded : valid[k] = p)
                        ELSE records[p]
    BY <2>1, <2>2 DEF StoreVectors
  <2>5. ASSUME NEW p \in Positions, \E k \in Recorded : valid[k] = p
        PROVE  HasRecord(p)' /\ p \in Asked
    <3>1. PICK k \in Recorded : k = CHOOSE j \in Recorded : valid[j] = p
      BY <2>5
    <3>2. records'[p] \in Nat
      BY <2>3, <2>4, <2>5, <3>1
    <3> QED
      BY <2>5, <3>2, EmbedAssumption DEF HasRecord, Recorded, Asked, Slice
  <2>6. ASSUME NEW p \in Positions, ~\E k \in Recorded : valid[k] = p
        PROVE  HasRecord(p)' <=> HasRecord(p)
    BY <2>4, <2>6 DEF HasRecord
  <2>7. CASE Recorded = Part
    <3>1. failures' = failures
      BY <2>1, <2>7 DEF StoreVectors
    <3>2. \A p \in Asked : \E k \in Recorded : valid[k] = p
      BY <2>7 DEF Asked, Slice
    <3> QED
      BY <2>1, <2>5, <2>6, <3>1, <3>2, PartFacts
  <2>8. CASE Recorded # Part
    <3>1. addBatchFailure("mismatch", FALSE)
      BY <2>1, <2>8 DEF StoreVectors
    <3> QED
      BY <2>1, <2>5, <2>6, <3>1, FailureFacts
  <2> QED
    BY <2>7, <2>8
<1> QED
  BY <1>1, <1>2, <1>3 DEF Settling

(* What a settling step does to who is reported: the inputs of the part are, and
   nobody else changes. *)
LEMMA SettlingAccounts ==
  ASSUME IInv, [Next]_vars, Settling
  PROVE  /\ \A p \in Asked : Accounted(p)'
         /\ \A p \in Positions : Accounted(p) => Accounted(p)'
         /\ \A p \in Positions : Accounted(p)' => Accounted(p) \/ p \in Asked
         /\ \A p \in Positions : HasFailure(p) => HasFailure(p)'
<1>0. failures \in Seq(FailureType) /\ Len(failures) \in Nat /\ failures' \in Seq(FailureType')
  BY TypeStep DEF IInv, TypeOK
<1>1. CASE failures' = failures /\ \A p \in Asked : HasRecord(p)'
  BY <1>1, SettlingFacts DEF Accounted, HasFailure
<1>2. CASE /\ Len(failures') = Len(failures) + 1
           /\ \A f \in 1..Len(failures) : failures'[f] = failures[f]
           /\ failures'[Len(failures) + 1].items = Asked
  <2>1. DOMAIN failures' = 1..(Len(failures) + 1) /\ DOMAIN failures = 1..Len(failures)
    BY <1>0, <1>2
  <2>2. \A p \in Asked : HasFailure(p)'
    BY <1>0, <1>2, <2>1 DEF HasFailure
  <2>3. \A p \in Positions : HasFailure(p) => HasFailure(p)'
    BY <1>0, <1>2, <2>1 DEF HasFailure
  <2>4. ASSUME NEW p \in Positions, HasFailure(p)' PROVE HasFailure(p) \/ p \in Asked
    <3>1. PICK f \in DOMAIN failures' : p \in failures'[f].items
      BY <2>4 DEF HasFailure
    <3>2. f \in 1..Len(failures) \/ f = Len(failures) + 1
      BY <1>0, <2>1, <3>1
    <3> QED
      BY <1>2, <2>1, <3>1, <3>2 DEF HasFailure
  <2> QED
    BY <2>2, <2>3, <2>4, SettlingFacts DEF Accounted
<1> QED
  BY <1>1, <1>2, SettlingFacts

(* Every step preserves AccountInv. *)
LEMMA AccountStep ==
  ASSUME IInv, [Next]_vars
  PROVE  AccountInv'
<1>0. /\ AccountInv /\ ValidInv /\ valid \in Seq(Positions) /\ Len(valid) \in Nat /\ done \in Nat
      /\ failures \in Seq(FailureType) /\ Len(failures) \in Nat
      /\ inputs \in Seq(InputKinds) /\ Len(inputs) \in Nat
      /\ DOMAIN failures = 1..Len(failures)
  BY DEF IInv, TypeOK
<1>1. CASE Validate
  <2>0. done = 0 /\ done' = 0
    BY <1>1, ValidateFacts DEF IInv, CutsInv, Validate
  <2>1. i \in Positions /\ i \in Nat /\ Seen = i - 1 /\ Seen' = i /\ Positions' = Positions
    BY <1>1, ValidateFacts DEF Positions
  <2>2. ~Accounted(i)
    BY <1>0, <2>1 DEF AccountInv, Accounted, HasFailure
  <2>3. \A p \in Positions : HasRecord(p)' <=> HasRecord(p)
    BY <1>1, ValidateFacts DEF HasRecord
  <2>4. CASE inputs[i].wellFormed
    <3>1. /\ failures' = failures /\ Len(valid') = Len(valid) + 1 /\ valid'[Len(valid) + 1] = i
          /\ \A k \in 1..Len(valid) : valid'[k] = valid[k]
          /\ inputs' = inputs
      BY <1>1, <2>4, ValidateFacts
    <3>2. \A p \in Positions : (HasFailure(p)' <=> HasFailure(p)) /\ (Accounted(p)' <=> Accounted(p))
      BY <2>3, <3>1 DEF HasFailure, Accounted
    <3>3. ASSUME NEW k \in 1..Len(valid') PROVE ~Accounted(valid[k])'
      <4>1. CASE k = Len(valid) + 1
        BY <2>1, <2>2, <3>1, <3>2, <4>1 DEF Accounted, HasRecord, HasFailure
      <4>2. CASE k \in 1..Len(valid)
        <5>1. valid[k] \in Positions /\ ~Accounted(valid[k])
          BY <1>0, <2>0, <4>2 DEF AccountInv
        <5> QED
          BY <3>1, <3>2, <4>2, <5>1 DEF Accounted, HasRecord, HasFailure
      <4> QED
        BY <1>0, <3>1, <4>1, <4>2
    <3>4. \A p \in Positions : HasRecord(p)' => inputs[p].wellFormed /\ p <= i
      BY <1>0, <2>1, <2>3 DEF AccountInv, Positions
    <3>5. \A p \in Positions : p <= i /\ ~inputs[p].wellFormed => HasFailure(p)'
      BY <1>0, <2>1, <2>4, <3>2 DEF AccountInv, Positions
    <3>6. \A f \in DOMAIN failures' : \A p \in failures'[f].items : p <= i
      <4>1. ASSUME NEW f \in DOMAIN failures, NEW p \in failures[f].items PROVE p <= i
        <5>0. failures[f] \in FailureType
          BY <1>0, <4>1
        <5>1. p <= i - 1 /\ p \in Positions
          BY <1>0, <2>1, <4>1, <5>0 DEF AccountInv, FailureType
        <5> QED
          BY <2>1, <5>1 DEF Positions
      <4> QED
        BY <3>1, <4>1
    <3>7. \A k \in 1..Len(valid') : ~(k <= done')
      BY <2>0
    <3> QED
      BY <2>1, <3>1, <3>3, <3>4, <3>5, <3>6, <3>7 DEF AccountInv
  <2>5. CASE ~inputs[i].wellFormed
    <3>1. /\ valid' = valid /\ Len(failures') = Len(failures) + 1
          /\ failures'[Len(failures) + 1].items = {i}
          /\ \A f \in 1..Len(failures) : failures'[f] = failures[f]
          /\ inputs' = inputs
      BY <1>1, <2>5, ValidateFacts
    <3>2. DOMAIN failures' = 1..(Len(failures) + 1)
      BY <1>0, <3>1, TypeStep DEF TypeOK
    <3>3. \A p \in Positions : HasFailure(p)' <=> HasFailure(p) \/ p = i
      <4>1. \A p \in Positions : p = i => HasFailure(p)'
        BY <1>0, <3>1, <3>2 DEF HasFailure
      <4>2. \A p \in Positions : HasFailure(p) => HasFailure(p)'
        BY <1>0, <3>1, <3>2 DEF HasFailure
      <4>3. ASSUME NEW p \in Positions, HasFailure(p)' PROVE HasFailure(p) \/ p = i
        <5>1. PICK f \in 1..(Len(failures) + 1) : p \in failures'[f].items
          BY <3>2, <4>3 DEF HasFailure
        <5>2. CASE f = Len(failures) + 1
          BY <3>1, <5>1, <5>2
        <5>3. CASE f \in 1..Len(failures)
          BY <1>0, <3>1, <5>1, <5>3 DEF HasFailure
        <5> QED
          BY <1>0, <5>1, <5>2, <5>3
      <4> QED
        BY <4>1, <4>2, <4>3
    <3>4. ASSUME NEW k \in 1..Len(valid) PROVE ~Accounted(valid[k])'
      <4>1. valid[k] \in Positions /\ ~Accounted(valid[k]) /\ inputs[valid[k]].wellFormed
        BY <1>0, <2>0 DEF AccountInv, ValidInv
      <4>2. valid[k] # i
        BY <2>5, <4>1
      <4>3. ~HasRecord(valid[k])' /\ ~HasFailure(valid[k])'
        BY <2>3, <3>1, <3>3, <4>1, <4>2 DEF Accounted, HasRecord, HasFailure
      <4> QED
        BY <3>1, <4>3 DEF Accounted
    <3>5. \A p \in Positions : HasRecord(p)' => inputs[p].wellFormed /\ p <= i
      BY <1>0, <2>1, <2>3 DEF AccountInv, Positions
    <3>6. \A p \in Positions : p <= i /\ ~inputs[p].wellFormed => HasFailure(p)'
      BY <1>0, <2>1, <3>3 DEF AccountInv, Positions
    <3>7. ASSUME NEW f \in DOMAIN failures', NEW p \in failures'[f].items PROVE p <= i
      <4>1. CASE f = Len(failures) + 1
        BY <2>1, <3>1, <4>1
      <4>2. CASE f \in 1..Len(failures)
        <5>0. failures[f] \in FailureType /\ p \in failures[f].items
          BY <1>0, <3>1, <3>7, <4>2
        <5>1. p \in Positions /\ p <= i - 1
          BY <1>0, <2>1, <4>2, <5>0 DEF AccountInv, FailureType
        <5> QED
          BY <2>1, <5>1 DEF Positions
      <4> QED
        BY <1>0, <3>2, <4>1, <4>2
    <3> QED
      BY <1>0, <2>0, <2>1, <3>1, <3>4, <3>5, <3>6, <3>7 DEF AccountInv
  <2> QED
    BY <2>4, <2>5
<1>2. CASE Settling
  <2>1. UNCHANGED <<inputs, valid>> /\ Seen' = Seen /\ Positions' = Positions
    BY <1>2, QuietSteps DEF Settling, Validate, FailBatch, RejectResponse, RecordResponse, ClientFailed, Positions
  <2>2. done' = partEnd /\ Working
    BY <1>2, SettlingFacts DEF Settled
  <2>3. ASSUME NEW k \in 1..Len(valid), k <= done' PROVE Accounted(valid[k])'
    <3>1. valid[k] \in Positions
      BY <1>0
    <3>2. k <= done \/ valid[k] \in Asked
      BY <1>0, <2>2, <2>3, PartFacts DEF Asked, Slice
    <3>3. CASE k <= done
      BY <1>0, <1>2, <2>1, <3>1, <3>3, SettlingAccounts DEF AccountInv, Accounted, HasRecord, HasFailure
    <3>4. CASE valid[k] \in Asked
      BY <1>2, <2>1, <3>4, SettlingAccounts DEF Accounted, HasRecord, HasFailure
    <3> QED
      BY <3>2, <3>3, <3>4
  <2>4. ASSUME NEW k \in 1..Len(valid), k > done' PROVE ~Accounted(valid[k])'
    <3>1. valid[k] \in Positions /\ ~Accounted(valid[k])
      BY <1>0, <2>2, <2>4, PartFacts DEF AccountInv
    <3>2. valid[k] \notin Asked
      <4>1. ASSUME NEW j \in Part PROVE valid[j] # valid[k]
        <5>1. j \in 1..Len(valid) /\ j < k
          BY <1>0, <2>2, <2>4, PartFacts DEF Part
        <5>2. valid[j] \in Nat /\ valid[k] \in Nat /\ valid[j] < valid[k]
          BY <1>0, <5>1 DEF ValidInv, Positions
        <5> QED
          BY <5>2
      <4> QED
        BY <4>1 DEF Asked, Slice
    <3>3. ~Accounted(valid[k])' <=> ~(\E p \in Positions : p = valid[k] /\ Accounted(p)')
      BY <2>1, <3>1 DEF Accounted, HasRecord, HasFailure
    <3> QED
      BY <1>2, <3>1, <3>2, <3>3, SettlingAccounts
  <2>5. ASSUME NEW p \in Positions, HasRecord(p)' PROVE inputs[p].wellFormed /\ p <= Seen
    <3>1. CASE HasRecord(p)
      BY <1>0, <3>1 DEF AccountInv
    <3>2. CASE p \in Asked
      <4>1. PICK k \in Part : valid[k] = p
        BY <3>2 DEF Asked, Slice
      <4> QED
        BY <1>0, <2>2, <4>1, PartFacts DEF ValidInv
    <3> QED
      BY <1>2, <2>5, <3>1, <3>2, SettlingFacts
  <2>6. \A p \in Positions : p <= Seen /\ ~inputs[p].wellFormed => HasFailure(p)'
    BY <1>0, <1>2, SettlingAccounts DEF AccountInv
  <2>7. ASSUME NEW f \in DOMAIN failures', NEW p \in failures'[f].items PROVE p <= Seen
    <3>1. p \in Positions
      <4>1. failures' \in Seq(FailureType')
        BY TypeStep DEF TypeOK
      <4>2. failures'[f] \in FailureType'
        BY <2>7, <4>1
      <4> QED
        BY <2>1, <2>7, <4>2 DEF FailureType
    <3>2. HasFailure(p)'
      BY <2>7 DEF HasFailure
    <3>3. HasFailure(p) \/ p \in Asked \/ HasRecord(p)
      BY <1>2, <3>1, <3>2, SettlingAccounts DEF Accounted
    <3>4. CASE HasFailure(p)
      BY <1>0, <3>4 DEF HasFailure, AccountInv
    <3>5. CASE HasRecord(p)
      BY <1>0, <3>1, <3>5 DEF AccountInv
    <3>6. CASE p \in Asked
      <4>1. PICK k \in Part : valid[k] = p
        BY <3>6 DEF Asked, Slice
      <4> QED
        BY <1>0, <2>2, <4>1, PartFacts DEF ValidInv
    <3> QED
      BY <3>3, <3>4, <3>5, <3>6
  <2> QED
    BY <2>1, <2>3, <2>4, <2>5, <2>6, <2>7 DEF AccountInv
<1>3. CASE ~Validate /\ ~Settling
  BY <1>0, <1>3, QuietSteps DEF AccountInv, Accounted, HasRecord, HasFailure, Positions
<1> QED
  BY <1>1, <1>2, <1>3

(* Every step preserves ReportedOnce: what is appended is not accounted for yet. *)
LEMMA ReportStep ==
  ASSUME IInv, [Next]_vars
  PROVE  ReportedOnce'
<1>0. /\ ReportedOnce /\ AccountInv /\ ValidInv
      /\ failures \in Seq(FailureType) /\ Len(failures) \in Nat /\ done \in Nat
      /\ DOMAIN failures = 1..Len(failures)
      /\ failures' \in Seq(FailureType')
      /\ valid \in Seq(Positions) /\ Len(valid) \in Nat
  BY TypeStep DEF IInv, TypeOK
<1>1. ASSUME NEW S, S \subseteq Positions, \A p \in S : ~HasFailure(p),
             Len(failures') = Len(failures) + 1,
             \A f \in 1..Len(failures) : failures'[f] = failures[f],
             failures'[Len(failures) + 1].items = S,
             \A p \in Positions : HasRecord(p) => HasRecord(p)',
             \A p \in Positions : HasRecord(p)' => HasRecord(p) \/ p \in S,
             \A p \in S : HasRecord(p)' => failures'[Len(failures) + 1].cause = "mismatch"
      PROVE  ReportedOnce'
  <2>1. DOMAIN failures' = 1..(Len(failures) + 1)
    BY <1>0, <1>1
  <2>2. \A f \in 1..Len(failures) : failures[f].items \intersect S = {}
    BY <1>0, <1>1 DEF HasFailure
  <2>3. \A f, g \in DOMAIN failures' :
          f # g => failures'[f].items \intersect failures'[g].items = {}
    <3>1. \A f, g \in 1..Len(failures) :
            f # g => failures'[f].items \intersect failures'[g].items = {}
      BY <1>0, <1>1 DEF ReportedOnce
    <3>2. \A f \in DOMAIN failures' : f \in 1..Len(failures) \/ f = Len(failures) + 1
      BY <1>0, <2>1
    <3> QED
      BY <1>1, <2>2, <3>1, <3>2
  <2>4. ASSUME NEW f \in DOMAIN failures', NEW p \in failures'[f].items, HasRecord(p)'
        PROVE  failures'[f].cause = "mismatch"
    <3>1. CASE f = Len(failures) + 1
      BY <1>1, <2>4, <3>1
    <3>2. CASE f \in 1..Len(failures)
      <4>1. p \in failures[f].items /\ failures[f] \in FailureType /\ p \notin S
        BY <1>0, <1>1, <2>2, <2>4, <3>2
      <4>2. p \in Positions
        BY <4>1 DEF FailureType
      <4>3. HasRecord(p)
        BY <1>1, <2>4, <4>1, <4>2
      <4> QED
        BY <1>0, <1>1, <3>2, <4>1, <4>3 DEF ReportedOnce
    <3> QED
      BY <1>0, <2>1, <3>1, <3>2
  <2> QED
    BY <2>3, <2>4 DEF ReportedOnce
<1>2. CASE Validate
  <2>1. \A p \in Positions : HasRecord(p)' <=> HasRecord(p)
    BY <1>2, ValidateFacts DEF HasRecord
  <2>2. CASE failures' = failures
    <3>1. ASSUME NEW f \in DOMAIN failures, NEW p \in failures[f].items, HasRecord(p)'
          PROVE  failures[f].cause = "mismatch"
      <4>1. failures[f] \in FailureType
        BY <1>0
      <4>2. p \in Positions
        BY <4>1 DEF FailureType
      <4>3. HasRecord(p)
        BY <2>1, <3>1, <4>2
      <4> QED
        BY <1>0, <4>3 DEF ReportedOnce
    <3>2. \A f, g \in DOMAIN failures : f # g => failures[f].items \intersect failures[g].items = {}
      BY <1>0 DEF ReportedOnce
    <3> QED
      BY <2>2, <3>1, <3>2 DEF ReportedOnce
  <2>3. CASE /\ Len(failures') = Len(failures) + 1
             /\ failures'[Len(failures) + 1].items = {i}
             /\ \A f \in 1..Len(failures) : failures'[f] = failures[f]
    <3>1. ~HasRecord(i) /\ ~HasFailure(i) /\ i \in Positions
      BY <1>0, <1>2, ValidateFacts DEF AccountInv, HasFailure
    <3>2. \A p \in {i} : ~HasRecord(p)'
      BY <2>1, <3>1
    <3> QED
      BY <1>1, <2>1, <2>3, <3>1, <3>2
  <2> QED
    BY <1>2, <2>2, <2>3, ValidateFacts
<1>3. CASE Settling
  <2>1. Working
    BY <1>3, SettlingFacts
  <2>2. \A p \in Asked : p \in Positions /\ ~HasRecord(p) /\ ~HasFailure(p)
    <3>1. ASSUME NEW k \in Part PROVE ~HasRecord(valid[k]) /\ ~HasFailure(valid[k])
      BY <1>0, <2>1, PartFacts DEF AccountInv, Accounted
    <3> QED
      BY <2>1, <3>1, PartFacts DEF Asked, Slice
  <2>3. CASE failures' = failures
    <3>1. ASSUME NEW f \in DOMAIN failures, NEW p \in failures[f].items, HasRecord(p)'
          PROVE  failures[f].cause = "mismatch"
      <4>1. p \in Positions /\ HasFailure(p)
        <5>1. failures[f] \in FailureType
          BY <1>0
        <5> QED
          BY <5>1 DEF HasFailure, FailureType
      <4>2. HasRecord(p)
        BY <1>3, <2>2, <3>1, <4>1, SettlingFacts
      <4> QED
        BY <1>0, <4>2 DEF ReportedOnce
    <3> QED
      BY <1>0, <2>3, <3>1 DEF ReportedOnce
  <2>4. CASE /\ Len(failures') = Len(failures) + 1
             /\ \A f \in 1..Len(failures) : failures'[f] = failures[f]
             /\ failures'[Len(failures) + 1].items = Asked
             /\ records' = records \/ failures'[Len(failures) + 1].cause = "mismatch"
    <3>1. \A p \in Asked : HasRecord(p)' => failures'[Len(failures) + 1].cause = "mismatch"
      BY <2>2, <2>4 DEF HasRecord
    <3> QED
      BY <1>1, <1>3, <2>1, <2>2, <2>4, <3>1, SettlingFacts
  <2> QED
    BY <1>3, <2>3, <2>4, SettlingFacts
<1>4. CASE ~Validate /\ ~Settling
  BY <1>0, <1>4, QuietSteps DEF ReportedOnce, HasRecord
<1> QED
  BY <1>2, <1>3, <1>4

-------------------------------------------------------------------------------
(* The invariant is inductive: this is what the theorems below rest on. *)
LEMMA Invariance == Spec => []IInv
<1>1. Init => IInv
  BY InitIInv
<1>2. IInv /\ [Next]_vars => IInv'
  BY TypeStep, CutsStep, PackStep, ValidStep, AccountStep, ReportStep DEF IInv
<1> QED
  BY <1>1, <1>2, PTL DEF Spec

(* Every variable of Run keeps its type, for every list of inputs and every client. *)
THEOREM TypeCorrect == Spec => []TypeOK
<1>1. IInv => TypeOK
  BY DEF IInv
<1> QED
  BY <1>1, Invariance, PTL

(* After a cancellation no batch is taken up, and an error of the client ends the run
   instead of a failure or two halves. *)
THEOREM CancellationHonoured == Spec => CancelHonoured
<1>1. ASSUME Next, canceled
      PROVE  /\ pc \in {"next", "embed", "wait", "handle"} => batchEnds' = batchEnds
             /\ pc = "handle" /\ reply.err # "none" =>
                  failures' = failures /\ calls' = calls /\ pc' = "assemble"
  <2>1. CASE RunStep
    <3>1. CASE Validate \/ StartPacking \/ Pack \/ FinishPacking
      BY <3>1 DEF Validate, StartPacking, Pack, FinishPacking
    <3>2. CASE CancelBeforeBatch \/ StartBatch \/ FinishBatches \/ Assemble
      BY <1>1, <3>2 DEF CancelBeforeBatch, StartBatch, FinishBatches, Assemble
    <3>3. CASE CallEmbed \/ AbortCanceled \/ Bisect \/ FailBatch
      BY <1>1, <3>3 DEF CallEmbed, AbortCanceled, Bisect, FailBatch, ClientFailed
    <3>4. CASE RejectResponse \/ RecordResponse
      BY <3>4 DEF RejectResponse, RecordResponse
    <3> QED
      BY <2>1, <3>1, <3>2, <3>3, <3>4 DEF RunStep
  <2>2. CASE ProviderReply \/ CancelContext \/ Terminated
    BY <1>1, <2>2 DEF ProviderReply, CancelContext, Terminated
  <2> QED
    BY <1>1, <2>1, <2>2 DEF Next
<1>2. [Next]_vars => [CancelStep]_vars
  BY <1>1 DEF CancelStep
<1> QED
  BY <1>2, PTL DEF Spec, CancelHonoured

(* The invariant implies that no input is lost. *)
LEMMA InvariantKeepsInputs == IInv => NoInputLost
<1> SUFFICES ASSUME IInv, pc \in {"assemble", "done"}
             PROVE  /\ err = "nil" => \A p \in Positions : Accounted(p)
                    /\ \A p, q \in Positions :
                         inputs[p].wellFormed /\ inputs[q].wellFormed /\ p < q /\ Accounted(q)
                           => Accounted(p)
  BY DEF NoInputLost
<1>0. /\ valid \in Seq(Positions) /\ Len(valid) \in Nat /\ done \in Nat
      /\ Len(inputs) \in Nat /\ Seen = Len(inputs)
  BY DEF IInv, TypeOK, Seen
<1>1. \A p \in Positions : inputs[p].wellFormed => \E k \in 1..Len(valid) : valid[k] = p
  BY <1>0 DEF IInv, ValidInv, Positions
<1>2. ASSUME err = "nil", NEW p \in Positions PROVE Accounted(p)
  <2>1. done = Len(valid)
    BY <1>2 DEF IInv, CutsInv
  <2>2. CASE inputs[p].wellFormed
    <3>1. PICK k \in 1..Len(valid) : valid[k] = p
      BY <1>1, <2>2
    <3>2. Accounted(valid[k])
      BY <1>0, <2>1, <3>1 DEF IInv, AccountInv
    <3> QED
      BY <3>1, <3>2
  <2>3. CASE ~inputs[p].wellFormed
    BY <1>0, <2>3 DEF IInv, AccountInv, Accounted, Positions
  <2> QED
    BY <2>2, <2>3
<1>3. ASSUME NEW p \in Positions, NEW q \in Positions, inputs[p].wellFormed,
             inputs[q].wellFormed, p < q, Accounted(q)
      PROVE  Accounted(p)
  <2>1. PICK j \in 1..Len(valid), k \in 1..Len(valid) : valid[j] = p /\ valid[k] = q
    BY <1>1, <1>3
  <2>2. k <= done
    BY <1>0, <1>3, <2>1 DEF IInv, AccountInv
  <2>3. j < k
    <3>1. ~(j > k) /\ j # k
      BY <1>3, <2>1 DEF IInv, ValidInv, Positions
    <3> QED
      BY <2>1, <3>1
  <2>4. Accounted(valid[j])
    BY <1>0, <2>1, <2>2, <2>3 DEF IInv, AccountInv
  <2> QED
    BY <2>1, <2>4
<1> QED
  BY <1>2, <1>3

(* embed.Run loses no input: a nil error means every input is recorded or reported,
   and a canceled run leaves out exactly a tail of the valid inputs. *)
THEOREM InputsNeverLost == Spec => []NoInputLost
<1> QED
  BY InvariantKeepsInputs, Invariance, PTL

(* No input is reported failed twice, and only a mismatched response leaves one both
   recorded and failed, however a batch was halved. *)
THEOREM InputsReportedOnce == Spec => []ReportedOnce
<1>1. IInv => ReportedOnce
  BY DEF IInv
<1> QED
  BY <1>1, Invariance, PTL

(* No record carries the vector of another input, in whatever order the response
   lists its vectors. *)
THEOREM VectorsNeverSwapped == Spec => []VectorMatchesInput
<1>1. Init => VectorMatchesInput
  BY DEF Init, VectorMatchesInput, HasRecord
<1>2. ASSUME IInv, [Next]_vars, VectorMatchesInput
      PROVE  VectorMatchesInput'
  <2>1. Positions' = Positions
    BY <1>2, ValidateFacts, QuietSteps DEF Positions
  <2>2. CASE RecordResponse
    <3>1. Working /\ StoreVectors
      BY <2>2 DEF RecordResponse, Working
    <3>2. \A p \in Positions :
            records'[p] = IF \E k \in Recorded : valid[k] = p
                          THEN vectorFor(CHOOSE k \in Recorded : valid[k] = p)
                          ELSE records[p]
      BY <3>1 DEF StoreVectors
    <3>3. ASSUME NEW p \in Positions, \E k \in Recorded : valid[k] = p
          PROVE  records'[p] = p
      <4>1. PICK k \in Recorded : k = (CHOOSE j \in Recorded : valid[j] = p) /\ valid[k] = p
        BY <3>3
      <4>2. valid[k] \in Range(reply.ids)
        BY <3>1, PartFacts DEF Recorded, Answered, Part
      <4>3. vectorFor(k) = valid[k]
        BY <4>2 DEF vectorFor
      <4> QED
        BY <3>2, <3>3, <4>1, <4>3
    <3> QED
      BY <1>2, <2>1, <3>2, <3>3 DEF VectorMatchesInput, HasRecord
  <2>3. CASE ~RecordResponse
    <3>1. records' = records
      BY <1>2, <2>3, ValidateFacts, QuietSteps DEF Settling, FailBatch, RejectResponse
    <3> QED
      BY <1>2, <2>1, <3>1 DEF VectorMatchesInput, HasRecord
  <2> QED
    BY <2>2, <2>3
<1> QED
  BY <1>1, <1>2, Invariance, PTL DEF Spec

-------------------------------------------------------------------------------
(* Refinement. *)

(* The status of the contract, as Embed maps it. *)
statusOf == IF pc = "done" THEN err ELSE "running"

(* A step that reports the inputs of S, all of them new, as one group is a Settle
   step of the contract. *)
LEMMA SettleMapped ==
  ASSUME IInv, Positions' = Positions, pc # "done", pc' # "done",
         NEW S \in SUBSET Positions, S # {}, \A p \in S : ~Accounted(p),
         \A p \in Positions : p \notin S =>
            (HasRecord(p)' <=> HasRecord(p)) /\ (HasFailure(p)' <=> HasFailure(p)),
         \/ \A p \in S : HasRecord(p)' /\ ~HasFailure(p)'
         \/ \A p \in S : HasFailure(p)'
  PROVE  Contract!Settle
<1> DEFINE T == {p \in S : HasRecord(p)'}
<1>1. statusOf = "running" /\ statusOf' = "running"
  BY DEF statusOf
<1>2. S \in SUBSET Contract!Unsettled
  BY DEF Contract!Unsettled, Accounted
<1>3. CASE \A p \in S : HasRecord(p)' /\ ~HasFailure(p)'
  <2>1. Contract!SettleEmbedded(S)
    BY <1>3 DEF Contract!SettleEmbedded, Contract!Report
  <2> QED
    BY <1>1, <1>2, <2>1 DEF Contract!Settle, statusOf
<1>4. CASE \A p \in S : HasFailure(p)'
  <2>1. Contract!SettleTorn(S, T)
    BY <1>4 DEF Contract!SettleTorn, Contract!Report
  <2> QED
    BY <1>1, <1>2, <2>1 DEF Contract!Settle, statusOf
<1> QED
  BY <1>3, <1>4

(* Run implements the contract: every step settles one group of new inputs as a
   whole, returns, or is invisible; torn groups come from mismatched responses only. *)
THEOREM RunImplementsContract == Spec => ImplementsContract
<1>1. ASSUME Init PROVE Contract!Init
  <2>1. Len(inputs) \in {Len(list) : list \in InputLists} /\ Positions = 1..Len(inputs)
    BY <1>1 DEF Init, Positions
  <2>2. \A p \in Positions : ~HasRecord(p) /\ ~HasFailure(p)
    BY <1>1 DEF Init, HasRecord, HasFailure
  <2>3. pc # "done"
    BY <1>1 DEF Init
  <2> QED
    BY <2>1, <2>2, <2>3 DEF Contract!Init
<1>2. ASSUME IInv, IInv', [Next]_vars
      PROVE  [Contract!Next]_(Contract!vars)
  <2>0. Positions' = Positions
    BY <1>2, ValidateFacts, QuietSteps DEF Positions
  <2>1. CASE Validate
    <3>1. pc # "done" /\ pc' # "done" /\ i \in Positions /\ {i} \in SUBSET Positions
      BY <2>1, <1>2, ValidateFacts DEF Validate
    <3>2. \A p \in Positions : HasRecord(p)' <=> HasRecord(p)
      BY <1>2, <2>1, ValidateFacts DEF HasRecord
    <3>3. CASE failures' = failures
      BY <2>0, <3>1, <3>2, <3>3 DEF Contract!vars, HasFailure
    <3>4. CASE /\ Len(failures') = Len(failures) + 1
               /\ failures'[Len(failures) + 1].items = {i}
               /\ \A f \in 1..Len(failures) : failures'[f] = failures[f]
      <4>1. /\ DOMAIN failures = 1..Len(failures) /\ Len(failures) \in Nat
            /\ DOMAIN failures' = 1..(Len(failures) + 1)
        <5>1. failures \in Seq(FailureType) /\ failures' \in Seq(FailureType')
          BY <1>2 DEF IInv, TypeOK
        <5> QED
          BY <3>4, <5>1
      <4>2. \A p \in Positions : HasFailure(p)' <=> HasFailure(p) \/ p = i
        <5>1. \A p \in Positions : HasFailure(p) \/ p = i => HasFailure(p)'
          BY <3>4, <4>1 DEF HasFailure
        <5>2. ASSUME NEW p \in Positions, HasFailure(p)' PROVE HasFailure(p) \/ p = i
          <6>1. PICK f \in 1..(Len(failures) + 1) : p \in failures'[f].items
            BY <4>1, <5>2 DEF HasFailure
          <6>2. CASE f = Len(failures) + 1
            BY <3>4, <6>1, <6>2
          <6>3. CASE f \in 1..Len(failures)
            BY <3>4, <4>1, <6>1, <6>3 DEF HasFailure
          <6> QED
            BY <4>1, <6>1, <6>2, <6>3
        <5> QED
          BY <5>1, <5>2
      <4>3. ~Accounted(i)
        BY <1>2, <2>1, ValidateFacts DEF IInv, AccountInv, Accounted, HasFailure
      <4>4. Contract!Settle
        <5>1. PICK S \in SUBSET Positions : S = {i}
          BY <3>1
        <5>2. /\ S # {} /\ \A p \in S : ~Accounted(p) /\ HasFailure(p)'
              /\ \A p \in Positions : p \notin S => (HasFailure(p)' <=> HasFailure(p))
          BY <3>1, <4>2, <4>3, <5>1
        <5> QED
          BY <1>2, <2>0, <3>1, <3>2, <5>2, SettleMapped
      <4> QED
        BY <4>4 DEF Contract!Next
    <3> QED
      BY <1>2, <2>1, <3>3, <3>4, ValidateFacts
  <2>2. CASE Settling
    <3>1. Working /\ Settled /\ pc # "done" /\ pc' # "done"
      BY <1>2, <2>2, SettlingFacts DEF Working, Settled
    <3>2. Asked \in SUBSET Positions /\ Asked # {}
      BY <1>2, <3>1, PartFacts
    <3>3. \A p \in Asked : ~Accounted(p)
      <4>1. ASSUME NEW k \in Part PROVE ~Accounted(valid[k])
        BY <1>2, <3>1, PartFacts DEF IInv, AccountInv, TypeOK
      <4> QED
        BY <4>1 DEF Asked, Slice
    <3>4. \A p \in Positions : p \notin Asked =>
            (HasRecord(p)' <=> HasRecord(p)) /\ (HasFailure(p)' <=> HasFailure(p))
      <4>1. ASSUME NEW p \in Positions, p \notin Asked, HasFailure(p)' PROVE HasFailure(p)
        <5>1. CASE failures' = failures
          BY <4>1, <5>1 DEF HasFailure
        <5>2. CASE /\ Len(failures') = Len(failures) + 1
                   /\ failures'[Len(failures) + 1].items = Asked
                   /\ \A f \in 1..Len(failures) : failures'[f] = failures[f]
          <6>1. failures \in Seq(FailureType) /\ failures' \in Seq(FailureType')
            BY <1>2 DEF IInv, TypeOK
          <6>2. PICK f \in 1..(Len(failures) + 1) : p \in failures'[f].items
            BY <4>1, <5>2, <6>1 DEF HasFailure
          <6>3. f \in 1..Len(failures)
            BY <4>1, <5>2, <6>1, <6>2
          <6> QED
            BY <5>2, <6>1, <6>2, <6>3 DEF HasFailure
        <5> QED
          BY <1>2, <2>2, <5>1, <5>2, SettlingFacts
      <4> QED
        BY <1>2, <2>2, <4>1, SettlingFacts, SettlingAccounts
    <3>5. \/ \A p \in Asked : HasRecord(p)' /\ ~HasFailure(p)'
          \/ \A p \in Asked : HasFailure(p)'
      <4>1. CASE failures' = failures /\ \A p \in Asked : HasRecord(p)'
        <5>1. \A p \in Asked : ~HasFailure(p)'
          BY <3>3, <4>1 DEF HasFailure, Accounted
        <5> QED
          BY <4>1, <5>1
      <4>2. CASE /\ Len(failures') = Len(failures) + 1
                 /\ failures'[Len(failures) + 1].items = Asked
        <5>1. failures \in Seq(FailureType) /\ failures' \in Seq(FailureType')
          BY <1>2 DEF IInv, TypeOK
        <5> QED
          BY <4>2, <5>1 DEF HasFailure
      <4> QED
        BY <1>2, <2>2, <4>1, <4>2, SettlingFacts
    <3>6. Contract!Settle
      BY <1>2, <2>0, <3>1, <3>2, <3>3, <3>4, <3>5, SettleMapped
    <3> QED
      BY <3>6 DEF Contract!Next
  <2>3. CASE Assemble
    <3>1. UNCHANGED <<inputs, records, failures, err>> /\ pc = "assemble" /\ pc' = "done"
      BY <2>3 DEF Assemble, fixedVars
    <3>2. err = "nil" => \A p \in Positions : Accounted(p)
      <4>1. IInv => NoInputLost
        BY InvariantKeepsInputs
      <4> QED
        BY <1>2, <3>1, <4>1 DEF NoInputLost
    <3>3. err \in {"nil", "canceled"}
      BY <1>2 DEF IInv, TypeOK
    <3>4. Contract!Return
      BY <2>0, <3>1, <3>2, <3>3 DEF Contract!Return, Contract!Unsettled, Accounted, HasRecord, HasFailure
    <3> QED
      BY <3>4 DEF Contract!Next
  <2>4. CASE ~Validate /\ ~Settling /\ ~Assemble
    <3>1. UNCHANGED <<records, failures>>
      BY <1>2, <2>4, QuietSteps
    <3>2. (pc' = "done" <=> pc = "done") /\ (pc = "done" => err' = err)
      BY <1>2, <2>4 DEF Next, RunStep, vars, StartPacking, Pack, FinishPacking, CancelBeforeBatch,
           StartBatch, FinishBatches, CallEmbed, AbortCanceled, Bisect, ProviderReply, CancelContext,
           Terminated, Settling, ClientFailed
    <3> QED
      BY <2>0, <3>1, <3>2 DEF Contract!vars, HasRecord, HasFailure
  <2> QED
    BY <2>1, <2>2, <2>3, <2>4
<1> QED
  BY <1>1, <1>2, Invariance, PTL DEF Spec, ImplementsContract, Contract!Spec

-----------------------------------------------------------------------------
(***************************************************************************)
(* What halving a failing batch costs, and what it finds.                  *)
(***************************************************************************)


(* The calls of the client so far.  The calls for a batch form a binary tree whose leaves
   are the parts settled and the cuts still owed, so each settled part pays for itself and
   for the halving that made it. *)
CallsInv ==
  /\ pc \in {"validate", "pack"} => calls = 0
  /\ pc = "next" => calls = 0 \/ calls < 2 * done
  /\ pc = "embed" => calls < 2 * done + Cardinality(cuts)
  /\ pc \in {"wait", "handle"} => calls <= 2 * done + Cardinality(cuts)
  /\ pc \in {"assemble", "done"} => CallsBounded

(* The parts owed are no more than the inputs they hold. *)
LEMMA CutsBound ==
  ASSUME IInv
  PROVE  /\ IsFiniteSet(cuts) /\ Cardinality(cuts) \in Nat
         /\ Cardinality(cuts) <= Len(valid) - done
<1>1. cuts \subseteq (done + 1)..Len(valid) /\ done \in Nat /\ Len(valid) \in Nat /\ done <= Len(valid)
  BY DEF IInv, TypeOK, CutsInv
<1>2. IsFiniteSet((done + 1)..Len(valid)) /\ Cardinality((done + 1)..Len(valid)) = Len(valid) - done
  <2>1. done + 1 \in Int /\ Len(valid) \in Int
    BY <1>1
  <2>2. /\ IsFiniteSet((done + 1)..Len(valid))
        /\ Cardinality((done + 1)..Len(valid)) =
             IF done + 1 > Len(valid) THEN 0 ELSE Len(valid) - (done + 1) + 1
    BY <2>1, FS_Interval
  <2> QED
    BY <1>1, <2>2
<1>3. IsFiniteSet(cuts) /\ Cardinality(cuts) <= Cardinality((done + 1)..Len(valid))
  BY <1>1, <1>2, FS_Subset
<1> QED
  BY <1>2, <1>3, FS_CardinalityType

(* A settling step takes one part from those owed and moves the cursor. *)
LEMMA SettledCalls ==
  ASSUME IInv, CallsInv, pc = "handle", Settled, calls' = calls
  PROVE  CallsInv'
<1>1. /\ calls \in Nat /\ done \in Nat /\ done' \in Nat /\ done' >= done + 1
      /\ pc' = (IF cuts' = {} THEN "next" ELSE "embed")
  BY PartFacts, SettledFacts DEF Settled, Working, IInv, TypeOK
<1>2. cuts' = cuts \ {partEnd} /\ partEnd \in cuts
  BY PartFacts DEF Settled, Working
<1>3. IsFiniteSet(cuts) /\ Cardinality(cuts) \in Nat
  BY CutsBound
<1>4. Cardinality(cuts') = Cardinality(cuts) - 1 /\ IsFiniteSet(cuts')
  BY <1>2, <1>3, FS_RemoveElement
<1>5. cuts' = {} => Cardinality(cuts') = 0
  BY FS_EmptySet
<1>6. calls <= 2 * done + Cardinality(cuts)
  BY DEF CallsInv
<1>7. CASE cuts' = {}
  <2>1. Cardinality(cuts) = 1
    BY <1>2, <1>3, <1>4, <1>5, <1>7
  <2>2. calls <= 2 * done + 1
    BY <1>6, <2>1
  <2>3. calls' < 2 * done'
    <3>1. \A c, d, e \in Nat : c <= 2 * d + 1 /\ e >= d + 1 => c < 2 * e
      OBVIOUS
    <3> QED
      BY <1>1, <2>2, <3>1
  <2> QED
    BY <1>1, <1>7, <2>3 DEF CallsInv
<1>8. CASE cuts' # {}
  <2>1. calls' < 2 * done' + Cardinality(cuts')
    BY <1>1, <1>2, <1>3, <1>4, <1>6
  <2> QED
    BY <1>1, <1>8, <2>1 DEF CallsInv
<1> QED
  BY <1>7, <1>8

(* Every step preserves CallsInv. *)
LEMMA CallsStep ==
  ASSUME IInv, CallsInv, [Next]_vars
  PROVE  CallsInv'
<1>0. /\ calls \in Nat /\ done \in Nat /\ Len(valid) \in Nat /\ done <= Len(valid)
      /\ IsFiniteSet(cuts) /\ Cardinality(cuts) \in Nat /\ Cardinality(cuts) <= Len(valid) - done
      /\ cuts \in SUBSET Nat
  BY CutsBound DEF IInv, TypeOK, CutsInv
<1>1. CASE Validate \/ StartPacking \/ Pack \/ FinishPacking
  BY <1>1 DEF Validate, StartPacking, Pack, FinishPacking, CallsInv, loopVars, fixedVars
<1>2. CASE StartBatch
  <2>1. cuts' = {Min(batchEnds)} /\ pc' = "embed" /\ calls' = calls /\ done' = done /\ pc = "next"
    BY <1>2 DEF StartBatch
  <2>2. Cardinality(cuts') = 1
    BY <2>1, FS_Singleton
  <2>3. calls' < 2 * done' + Cardinality(cuts')
    BY <1>0, <2>1, <2>2 DEF CallsInv
  <2> QED
    BY <2>1, <2>3 DEF CallsInv
<1>3. CASE CancelBeforeBatch \/ FinishBatches
  <2>1. pc = "next" /\ pc' = "assemble" /\ calls' = calls /\ valid' = valid
    BY <1>3 DEF CancelBeforeBatch, FinishBatches, loopVars
  <2>2. calls' = 0 \/ calls' < 2 * Len(valid')
    BY <1>0, <2>1 DEF CallsInv
  <2> QED
    BY <2>1, <2>2 DEF CallsInv, CallsBounded
<1>4. CASE Assemble
  BY <1>4 DEF Assemble, CallsInv, CallsBounded, loopVars
<1>5. CASE CallEmbed
  <2>1. pc = "embed" /\ pc' = "wait" /\ calls' \in {calls, calls + 1} /\ done' = done /\ cuts' = cuts
    BY <1>5 DEF CallEmbed
  <2>2. calls' <= 2 * done' + Cardinality(cuts')
    BY <1>0, <2>1 DEF CallsInv
  <2> QED
    BY <2>1, <2>2 DEF CallsInv
<1>6. CASE AbortCanceled
  <2>1. pc = "handle" /\ pc' = "assemble" /\ calls' = calls /\ valid' = valid
    BY <1>6 DEF AbortCanceled, loopVars
  <2>2. done < Len(valid)
    BY <1>0, <2>1, PartFacts DEF Working
  <2>3. calls' < 2 * Len(valid')
    BY <1>0, <2>1, <2>2 DEF CallsInv
  <2> QED
    BY <2>1, <2>3 DEF CallsInv, CallsBounded
<1>7. CASE Bisect
  <2>1. /\ pc = "handle" /\ pc' = "embed" /\ calls' = calls /\ done' = done /\ PartSize > 1
        /\ cuts' = cuts \union {done + PartSize \div 2}
    BY <1>7 DEF Bisect, ClientFailed, CanBisect
  <2>2. done + PartSize \div 2 \notin cuts
    <3>1. partEnd \in Nat /\ \A c \in cuts : partEnd <= c
      BY <2>1, PartFacts DEF Working
    <3>2. done + PartSize \div 2 \in Nat /\ done + PartSize \div 2 < partEnd
      BY <1>0, <2>1, <3>1 DEF PartSize
    <3>3. \A x \in Nat : x < partEnd => ~(partEnd <= x)
      BY <3>1
    <3> HIDE DEF PartSize
    <3> QED
      BY <3>1, <3>2, <3>3
  <2>3. Cardinality(cuts') = Cardinality(cuts) + 1
    BY <1>0, <2>1, <2>2, FS_AddElement
  <2>4. calls' < 2 * done' + Cardinality(cuts')
    BY <1>0, <2>1, <2>3 DEF CallsInv
  <2> QED
    BY <2>1, <2>4 DEF CallsInv
<1>8. CASE FailBatch \/ RejectResponse \/ RecordResponse
  <2>1. pc = "handle" /\ Settled /\ calls' = calls
    BY <1>8 DEF FailBatch, ClientFailed, RejectResponse, RecordResponse
  <2> QED
    BY <2>1, SettledCalls
<1>9. CASE ProviderReply
  BY <1>9 DEF ProviderReply, CallsInv
<1>10. CASE CancelContext \/ Terminated \/ UNCHANGED vars
  BY <1>10 DEF CancelContext, Terminated, vars, CallsInv, CallsBounded, loopVars
<1> QED
  BY <1>1, <1>2, <1>3, <1>4, <1>5, <1>6, <1>7, <1>8, <1>9, <1>10 DEF Next, RunStep

(* A run asks the client less than twice as often as it has valid inputs, however the
   client fails and however often batches are halved. *)
THEOREM CallsStayBounded == Spec => []CallsBounded
<1>1. Init => CallsInv
  BY DEF Init, CallsInv
<1>2. ASSUME IInv, CallsInv PROVE CallsBounded
  <2>0. /\ calls \in Nat /\ done \in Nat /\ Len(valid) \in Nat /\ done <= Len(valid)
        /\ Cardinality(cuts) \in Nat /\ Cardinality(cuts) <= Len(valid) - done
    BY <1>2, CutsBound DEF IInv, TypeOK, CutsInv
  <2>1. pc \in {"validate", "pack", "next", "embed", "wait", "handle", "assemble", "done"}
    BY <1>2 DEF IInv, TypeOK
  <2>2. Working => done < Len(valid)
    BY <1>2, <2>0, PartFacts
  <2> QED
    BY <1>2, <2>0, <2>1, <2>2 DEF CallsInv, CallsBounded, Working
<1> QED
  BY <1>1, <1>2, CallsStep, Invariance, PTL DEF Spec

-------------------------------------------------------------------------------
(* A client that fails for poison only, and a run that may halve. *)
OnlyPoison == provider = {} /\ ~cfg.disableBisect

(* The response to a request without poison: a vector for each input, in some order. *)
Complete == Range(reply.ids) = Asked /\ OneForEach

(* With such a client, no poison is recorded, a well-formed input fails only as poison and
   on its own, and the reply at hand is the whole answer or is due to poison. *)
PoisonInv ==
  OnlyPoison =>
    /\ \A p \in Positions : HasRecord(p) => ~inputs[p].poison
    /\ \A f \in DOMAIN failures : \A p \in failures[f].items :
         inputs[p].wellFormed => inputs[p].poison /\ failures[f].items = {p}
    /\ pc = "handle" =>
         \/ reply.err = "none" /\ ~Poisoned /\ Complete
         \/ reply.err = "permanent" /\ Poisoned
         \/ reply.err = "canceled"

(* As many inputs are asked for as the part has, for no input is twice in valid. *)
LEMMA AskedSize ==
  ASSUME IInv, Working
  PROVE  IsFiniteSet(Asked) /\ Cardinality(Asked) = PartSize /\ PartSize \in Nat
<1>1. /\ partEnd \in Nat /\ done \in Nat /\ done < partEnd /\ Part \subseteq 1..Len(valid)
      /\ Part = (done + 1)..partEnd /\ PartSize = partEnd - done
  BY PartFacts DEF IInv, TypeOK, Part, PartSize
<1>2. IsFiniteSet(Part) /\ Cardinality(Part) = PartSize
  <2>1. done + 1 \in Int /\ partEnd \in Int
    BY <1>1
  <2>2. /\ IsFiniteSet((done + 1)..partEnd)
        /\ Cardinality((done + 1)..partEnd) = IF done + 1 > partEnd THEN 0 ELSE partEnd - (done + 1) + 1
    BY <2>1, FS_Interval
  <2> QED
    BY <1>1, <2>2
<1> DEFINE f == [k \in Part |-> valid[k]]
<1>3. f \in Bijection(Part, Asked)
  <2>1. \A j, k \in Part : valid[j] = valid[k] => j = k
    <3>1. ASSUME NEW j \in Part, NEW k \in Part, j < k PROVE valid[j] # valid[k]
      <4>1. j \in 1..Len(valid) /\ k \in 1..Len(valid) /\ valid \in Seq(Positions) /\ Len(valid) \in Nat
        BY <1>1 DEF IInv, TypeOK
      <4>2. valid[j] < valid[k] /\ valid[j] \in Int /\ valid[k] \in Int
        BY <3>1, <4>1 DEF IInv, ValidInv, Positions
      <4> QED
        BY <4>2
    <3>2. \A j, k \in Part : j = k \/ j < k \/ k < j
      BY <1>1
    <3> QED
      BY <3>1, <3>2
  <2>2. f \in [Part -> Asked]
    BY DEF Asked, Slice
  <2>3. \A p \in Asked : \E k \in Part : f[k] = p
    BY DEF Asked, Slice
  <2> QED
    BY <2>1, <2>2, <2>3 DEF Bijection, Injection, Surjection, IsInjective
<1>4. ExistsBijection(Part, Asked)
  BY <1>3 DEF ExistsBijection
<1> QED
  BY <1>1, <1>2, <1>4, FS_Bijection

(* An ordering of the vectors asked for is a complete response. *)
LEMMA OrderingsComplete ==
  ASSUME IInv, Working, NEW r \in Orderings(Asked)
  PROVE  r.err = "none" /\ Range(r.ids) = Asked /\ IsInjective(r.ids) /\ Len(r.ids) = PartSize
<1>1. IsFiniteSet(Asked) /\ Cardinality(Asked) = PartSize /\ PartSize \in Nat
  BY AskedSize
<1>2. PICK ids \in SetToSeqs(Asked) : r = [err |-> "none", ids |-> ids]
  BY DEF Orderings, Success
<1>3. ids \in [1..PartSize -> Asked] /\ IsInjective(ids)
  BY <1>1, <1>2 DEF SetToSeqs, IsInjective
<1>4. Len(ids) = PartSize
  BY <1>1, <1>3
<1>5. ids \in Injection(1..PartSize, Asked)
  BY <1>3 DEF Injection
<1>6. IsFiniteSet(1..PartSize) /\ Cardinality(1..PartSize) = PartSize
  <2>1. 1 \in Int /\ PartSize \in Int
    BY <1>1
  <2>2. /\ IsFiniteSet(1..PartSize)
        /\ Cardinality(1..PartSize) = IF 1 > PartSize THEN 0 ELSE PartSize - 1 + 1
    BY <2>1, FS_Interval
  <2> QED
    BY <1>1, <2>2
<1>7. ids \in Surjection(1..PartSize, Asked)
  BY <1>1, <1>5, <1>6, FS_Injection
<1>8. Range(ids) = Asked
  BY <1>3, <1>7 DEF Surjection, Range
<1> QED
  BY <1>2, <1>3, <1>4, <1>8

(* What is recorded and reported of poison so far. *)
Sorted ==
  /\ \A p \in Positions : HasRecord(p) => ~inputs[p].poison
  /\ \A f \in DOMAIN failures : \A p \in failures[f].items :
       inputs[p].wellFormed => inputs[p].poison /\ failures[f].items = {p}

(* The client answers as PoisonInv says. *)
LEMMA PoisonReply ==
  ASSUME IInv, OnlyPoison, ProviderReply
  PROVE  \/ reply'.err = "none" /\ ~Poisoned /\ Range(reply'.ids) = Asked
            /\ IsInjective(reply'.ids) /\ Len(reply'.ids) = PartSize
         \/ reply'.err = "permanent" /\ Poisoned
         \/ reply'.err = "canceled"
<1>1. Working /\ reply' \in Replies
  BY DEF ProviderReply, Working
<1>2. \/ Poisoned /\ reply' = Failed("permanent")
      \/ ~Poisoned /\ reply' \in Orderings(Asked)
      \/ reply' = Failed("canceled")
  BY <1>1 DEF Replies, OnlyPoison
<1>3. Failed("permanent").err = "permanent" /\ Failed("canceled").err = "canceled"
  BY DEF Failed
<1> QED
  BY <1>1, <1>2, <1>3, OrderingsComplete

(* A response without poison settles its part with records alone. *)
LEMMA PoisonRecord ==
  ASSUME IInv, PoisonInv, OnlyPoison, pc = "handle", reply.err = "none"
  PROVE  /\ ~RejectResponse
         /\ RecordResponse => /\ failures' = failures /\ inputs' = inputs
                              /\ \A p \in Positions : HasRecord(p)' => HasRecord(p) \/ ~inputs[p].poison
<1>1. ~Poisoned /\ Complete
  BY DEF PoisonInv
<1>2. ~RejectResponse
  BY <1>1 DEF RejectResponse, Complete
<1>3. Recorded = Part
  <2>1. \A k \in Part : Answered(k)
    BY <1>1 DEF Complete, Answered, Asked, Slice
  <2>2. ASSUME NEW k \in Part, NEW j \in (done + 1)..k PROVE j \in Part
    BY PartFacts DEF Part, Working, IInv, TypeOK
  <2> QED
    BY <2>1, <2>2 DEF Recorded
<1>4. ASSUME RecordResponse
      PROVE  /\ failures' = failures /\ inputs' = inputs
             /\ \A p \in Positions : HasRecord(p)' => HasRecord(p) \/ ~inputs[p].poison
  <2>1. failures' = failures /\ inputs' = inputs
    BY <1>3, <1>4 DEF RecordResponse, StoreVectors, fixedVars
  <2>2. \A p \in Positions : (\E k \in Recorded : valid[k] = p) \/ records'[p] = records[p]
    BY <1>4 DEF RecordResponse, StoreVectors
  <2>3. \A p \in Positions : HasRecord(p)' => HasRecord(p) \/ p \in Asked
    BY <1>3, <2>2 DEF HasRecord, Asked, Slice
  <2> QED
    BY <1>1, <2>1, <2>3 DEF Poisoned
<1> QED
  BY <1>2, <1>4

(* A part the client refuses is halved unless it is one poison input. *)
LEMMA PoisonFailure ==
  ASSUME IInv, PoisonInv, OnlyPoison, FailBatch
  PROVE  \E p \in Positions : Asked = {p} /\ inputs[p].poison
<1>1. Working /\ reply.err = "permanent" /\ Poisoned
  BY DEF FailBatch, ClientFailed, PoisonInv, Working
<1>2. IsFiniteSet(Asked) /\ Cardinality(Asked) = PartSize /\ PartSize = 1
  <2>1. ~(PartSize > 1)
    BY DEF FailBatch, CanBisect, OnlyPoison
  <2>2. PartSize > 0
    BY <1>1, PartFacts DEF PartSize, IInv, TypeOK
  <2>3. PartSize \in Nat /\ IsFiniteSet(Asked) /\ Cardinality(Asked) = PartSize
    BY <1>1, AskedSize
  <2> QED
    BY <2>1, <2>2, <2>3
<1>3. PICK p : Asked = {p}
  BY <1>2, FS_Singleton
<1>4. p \in Positions
  BY <1>1, <1>3, PartFacts
<1> QED
  BY <1>1, <1>3, <1>4 DEF Poisoned

(* Every step preserves PoisonInv. *)
LEMMA PoisonStep ==
  ASSUME IInv, PoisonInv, [Next]_vars
  PROVE  PoisonInv'
<1> SUFFICES ASSUME OnlyPoison'
             PROVE  /\ Sorted'
                    /\ (pc = "handle" => \/ reply.err = "none" /\ ~Poisoned /\ Complete
                                         \/ reply.err = "permanent" /\ Poisoned
                                         \/ reply.err = "canceled")'
  BY DEF PoisonInv, Sorted
<1>0. /\ UNCHANGED fixedVars /\ OnlyPoison /\ Sorted /\ inputs' = inputs /\ Positions' = Positions
      /\ failures \in Seq(FailureType) /\ Len(failures) \in Nat /\ DOMAIN failures = 1..Len(failures)
      /\ failures' \in Seq(FailureType')
  <2>1. UNCHANGED fixedVars
    BY Zenon DEF Next, RunStep, vars, fixedVars, Validate, StartPacking, Pack, FinishPacking,
       CancelBeforeBatch, StartBatch, FinishBatches, Assemble, CallEmbed, AbortCanceled, Bisect,
       FailBatch, RejectResponse, RecordResponse, ProviderReply, CancelContext, Terminated
  <2>2. OnlyPoison
    BY <2>1 DEF OnlyPoison, fixedVars
  <2> QED
    BY <2>1, <2>2, TypeStep DEF PoisonInv, Sorted, IInv, TypeOK, Positions, fixedVars
<1>1. ASSUME NEW S, Len(failures') = Len(failures) + 1,
             \A f \in 1..Len(failures) : failures'[f] = failures[f],
             failures'[Len(failures) + 1].items = S, records' = records,
             \A p \in S : inputs[p].wellFormed => inputs[p].poison /\ S = {p}
      PROVE  Sorted'
  <2>1. DOMAIN failures' = 1..(Len(failures) + 1)
    BY <1>0, <1>1
  <2>2. \A f \in DOMAIN failures' : f = Len(failures) + 1 \/ f \in 1..Len(failures)
    BY <1>0, <2>1
  <2>3. \A f \in DOMAIN failures' : \A p \in failures'[f].items :
          inputs[p].wellFormed => inputs[p].poison /\ failures'[f].items = {p}
    BY <1>0, <1>1, <2>2 DEF Sorted
  <2> QED
    BY <1>0, <1>1, <2>3 DEF Sorted, HasRecord
<1>2. ASSUME failures' = failures, records' = records PROVE Sorted'
  BY <1>0, <1>2 DEF Sorted, HasRecord
<1>3. CASE Validate
  <2>1. CASE inputs[i].wellFormed
    BY <1>2, <1>3, <2>1 DEF Validate
  <2>2. CASE ~inputs[i].wellFormed
    <3>1. /\ Len(failures') = Len(failures) + 1 /\ records' = records
          /\ \A f \in 1..Len(failures) : failures'[f] = failures[f]
          /\ failures'[Len(failures) + 1].items = {i}
      BY <1>3, <2>2, ValidateFacts
    <3>2. Sorted'
      BY <1>1, <2>2, <3>1
    <3> QED
      BY <1>3, <3>2 DEF Validate
  <2> QED
    BY <1>3, <2>1, <2>2 DEF Validate
<1>4. CASE FailBatch
  <2>1. PICK p \in Positions : Asked = {p} /\ inputs[p].poison
    BY <1>0, <1>4, PoisonFailure
  <2>2. Working /\ records' = records /\ addBatchFailure("error", reply.err = "retryable")
    BY <1>4 DEF FailBatch, ClientFailed, Working
  <2>3. pc' \in {"next", "embed"}
    BY <1>4 DEF FailBatch, Settled
  <2> QED
    BY <1>1, <2>1, <2>2, <2>3, FailureFacts
<1>5. CASE RejectResponse \/ RecordResponse
  <2>1. pc = "handle" /\ reply.err = "none" /\ pc' \in {"next", "embed"}
    BY <1>5 DEF RejectResponse, RecordResponse, Settled
  <2> QED
    BY <1>0, <1>5, <2>1, PoisonRecord DEF Sorted
<1>6. CASE ProviderReply
  <2>1. /\ UNCHANGED <<valid, done, cuts, failures, records>>
    BY <1>6 DEF ProviderReply, loopVars
  <2>2. UNCHANGED <<Asked, Poisoned, PartSize>>
    BY <1>0, <2>1 DEF Asked, Poisoned, PartSize, Part, partEnd, Slice
  <2> QED
    BY <1>0, <1>2, <1>6, <2>1, <2>2, PoisonReply DEF Complete, OneForEach
<1>7. CASE CancelContext \/ Terminated \/ UNCHANGED vars
  <2>1. UNCHANGED <<valid, done, cuts, failures, records, reply, pc>>
    BY <1>7 DEF CancelContext, Terminated, vars, loopVars
  <2>2. UNCHANGED <<Asked, Poisoned, PartSize>>
    BY <1>0, <2>1 DEF Asked, Poisoned, PartSize, Part, partEnd, Slice
  <2> QED
    BY <1>0, <1>2, <2>1, <2>2 DEF Complete, OneForEach, PoisonInv
<1>8. CASE \/ StartPacking \/ Pack \/ FinishPacking \/ CancelBeforeBatch \/ StartBatch
           \/ FinishBatches \/ Assemble \/ CallEmbed \/ AbortCanceled \/ Bisect
  <2>1. failures' = failures /\ records' = records /\ pc' # "handle"
    BY <1>8 DEF StartPacking, Pack, FinishPacking, CancelBeforeBatch, StartBatch,
                FinishBatches, Assemble, CallEmbed, AbortCanceled, Bisect
  <2> QED
    BY <1>2, <2>1
<1> QED
  BY <1>3, <1>4, <1>5, <1>6, <1>7, <1>8 DEF Next, RunStep

(* With a client that fails for poison only, a run that is not canceled ends with each poison
   input as a failure of its own and with a vector for every other valid one. *)
THEOREM PoisonAlwaysIsolated == Spec => []PoisonIsolated
<1>1. Init => PoisonInv
  BY DEF Init, PoisonInv, HasRecord
<1>2. ASSUME IInv, PoisonInv PROVE PoisonIsolated
  <2> SUFFICES ASSUME pc = "done", err = "nil", OnlyPoison, NEW p \in Positions, inputs[p].wellFormed
               PROVE  /\ HasRecord(p) <=> ~inputs[p].poison
                      /\ inputs[p].poison => \E f \in DOMAIN failures : failures[f].items = {p}
    BY DEF PoisonIsolated, OnlyPoison
  <2>1. Accounted(p)
    BY <1>2, InvariantKeepsInputs DEF NoInputLost
  <2>2. inputs[p].poison \in BOOLEAN
    <3>1. inputs \in Seq(InputKinds) /\ p \in 1..Len(inputs)
      BY <1>2 DEF IInv, TypeOK, Positions
    <3>2. inputs[p] \in InputKinds
      BY <3>1
    <3> QED
      BY <3>2 DEF InputKinds
  <2>3. HasRecord(p) => ~inputs[p].poison
    BY <1>2 DEF PoisonInv
  <2>4. HasFailure(p) => inputs[p].poison /\ \E f \in DOMAIN failures : failures[f].items = {p}
    BY <1>2 DEF PoisonInv, HasFailure
  <2> QED
    BY <2>1, <2>2, <2>3, <2>4 DEF Accounted
<1> QED
  BY <1>1, <1>2, PoisonStep, Invariance, PTL DEF Spec

-----------------------------------------------------------------------------
(* The limits of a request, and the tokens of consecutive inputs. *)

TokensAt(k) == tokensFor(inputs[valid[k]])

(* g is the running total of the tokens of the valid inputs behind x, up to each up to y. *)
RunningTotal(g, x, y) == g = [k \in x..y |-> IF k = x THEN 0 ELSE g[k - 1] + TokensAt(k)]

(* There is a running total. *)
LEMMA TotalExists ==
  ASSUME NEW x \in Nat, NEW y \in Nat, x <= y
  PROVE  \E g : RunningTotal(g, x, y)
<1> DEFINE bad == {m \in Nat : x <= m /\ ~\E g : RunningTotal(g, x, m)}
<1>1. SUFFICES ASSUME bad # {} PROVE FALSE
  OBVIOUS
<1>2. bad \in SUBSET Nat
  OBVIOUS
<1>3. PICK m \in bad : \A k \in bad : m <= k
  <2> HIDE DEF bad
  <2> QED
    BY <1>1, <1>2, MinOfNats
<1>4. m \in Nat /\ x <= m /\ ~\E g : RunningTotal(g, x, m)
  OBVIOUS
<1>5. CASE m = x
  <2> DEFINE g == [k \in x..m |-> 0]
  <2>1. \A k \in x..m : k = x
    BY <1>4, <1>5
  <2>2. g = [k \in x..m |-> IF k = x THEN 0 ELSE g[k - 1] + TokensAt(k)]
    BY <2>1
  <2> HIDE DEF g
  <2>3. RunningTotal(g, x, m)
    BY <2>2 DEF RunningTotal
  <2> QED
    BY <1>4, <2>3
<1>6. CASE m # x
  <2>1. m - 1 \in Nat /\ x <= m - 1 /\ ~(m <= m - 1) /\ m \in x..m
    BY <1>4, <1>6
  <2>2. m - 1 \notin bad
    <3> HIDE DEF bad
    <3> QED
      BY <1>3, <2>1
  <2>3. PICK f : RunningTotal(f, x, m - 1)
    BY <2>1, <2>2
  <2> DEFINE g == [k \in x..m |-> IF k = m THEN f[m - 1] + TokensAt(m) ELSE f[k]]
  <2>4. ASSUME NEW k \in x..m PROVE g[k] = IF k = x THEN 0 ELSE g[k - 1] + TokensAt(k)
    <3>1. CASE k = m
      <4>1. m - 1 \in x..m /\ m - 1 # m
        BY <2>1
      <4>2. g[m - 1] = f[m - 1] /\ g[m] = f[m - 1] + TokensAt(m)
        BY <2>1, <4>1
      <4> HIDE DEF g
      <4> QED
        BY <1>6, <2>1, <3>1, <4>2
    <3>2. CASE k # m
      <4>1. k \in x..(m - 1) /\ (k # x => k - 1 \in x..m /\ k - 1 # m)
        BY <2>1, <3>2
      <4>2. f[k] = IF k = x THEN 0 ELSE f[k - 1] + TokensAt(k)
        BY <2>3, <4>1 DEF RunningTotal
      <4>3. g[k] = f[k] /\ (k # x => g[k - 1] = f[k - 1])
        BY <3>2, <4>1
      <4> HIDE DEF g
      <4> QED
        BY <4>2, <4>3
    <3> QED
      BY <3>1, <3>2
  <2>5. RunningTotal(g, x, m)
    <3>1. g = [k \in x..m |-> g[k]]
      OBVIOUS
    <3> HIDE DEF g
    <3> QED
      BY <2>4, <3>1 DEF RunningTotal
  <2> QED
    BY <1>4, <2>5
<1> QED
  BY <1>5, <1>6

(* Two running totals agree where both are defined. *)
LEMMA TotalsAgree ==
  ASSUME NEW x \in Nat, NEW y \in Nat, NEW z \in Nat, x <= y, y <= z,
         NEW g, NEW h, RunningTotal(g, x, y), RunningTotal(h, x, z)
  PROVE  g[y] = h[y]
<1> DEFINE bad == {k \in x..y : g[k] # h[k]}
<1>1. SUFFICES ASSUME bad # {} PROVE FALSE
  <2>1. y \in x..y
    OBVIOUS
  <2> QED
    BY <2>1
<1>2. bad \in SUBSET Nat
  OBVIOUS
<1>3. PICK k \in bad : \A l \in bad : k <= l
  <2> HIDE DEF bad
  <2> QED
    BY <1>1, <1>2, MinOfNats
<1>4. k \in x..y /\ k \in x..z /\ k \in Nat /\ g[k] # h[k]
  OBVIOUS
<1>5. /\ g[k] = IF k = x THEN 0 ELSE g[k - 1] + TokensAt(k)
      /\ h[k] = IF k = x THEN 0 ELSE h[k - 1] + TokensAt(k)
  BY <1>4 DEF RunningTotal
<1>6. k # x
  BY <1>4, <1>5
<1>7. k - 1 \in x..y /\ ~(k <= k - 1)
  BY <1>4, <1>6
<1>8. k - 1 \notin bad
  <2> HIDE DEF bad
  <2> QED
    BY <1>3, <1>7
<1> QED
  BY <1>4, <1>5, <1>6, <1>7, <1>8

(* A sum of tokens is the last value of a running total. *)
LEMMA SumIsTotal ==
  ASSUME NEW x \in Nat, NEW y \in Nat, x <= y
  PROVE  \E g : RunningTotal(g, x, y) /\ TokenSum(x, y) = g[y]
<1> DEFINE g == CHOOSE g : RunningTotal(g, x, y)
<1>1. RunningTotal(g, x, y)
  BY TotalExists
<1>2. TokenSum(x, y) = g[y]
  BY DEF TokenSum, RunningTotal, TokensAt
<1> QED
  BY <1>1, <1>2

(* The sum of no inputs is zero, and each further one adds its tokens. *)
LEMMA TokenSumSteps ==
  ASSUME NEW x \in Nat
  PROVE  /\ TokenSum(x, x) = 0
         /\ \A y \in Nat : x < y => TokenSum(x, y) = TokenSum(x, y - 1) + TokensAt(y)
<1>1. TokenSum(x, x) = 0
  <2>1. PICK g : RunningTotal(g, x, x) /\ TokenSum(x, x) = g[x]
    BY SumIsTotal
  <2>2. x \in x..x
    OBVIOUS
  <2> QED
    BY <2>1, <2>2 DEF RunningTotal
<1>2. ASSUME NEW y \in Nat, x < y
      PROVE  TokenSum(x, y) = TokenSum(x, y - 1) + TokensAt(y)
  <2>1. y - 1 \in Nat /\ x <= y - 1 /\ x <= y /\ y - 1 <= y /\ y # x /\ y \in x..y
    BY <1>2
  <2>2. PICK g : RunningTotal(g, x, y) /\ TokenSum(x, y) = g[y]
    BY <2>1, SumIsTotal
  <2>3. PICK h : RunningTotal(h, x, y - 1) /\ TokenSum(x, y - 1) = h[y - 1]
    BY <2>1, SumIsTotal
  <2>4. h[y - 1] = g[y - 1]
    BY <2>1, <2>2, <2>3, TotalsAgree
  <2>5. g[y] = g[y - 1] + TokensAt(y)
    BY <2>1, <2>2 DEF RunningTotal
  <2> QED
    BY <2>2, <2>3, <2>4, <2>5
<1> QED
  BY <1>1, <1>2

(* The tokens of a valid input are a number. *)
LEMMA TokensAreNumbers ==
  ASSUME TypeOK, NEW k \in 1..Len(valid)
  PROVE  TokensAt(k) \in Nat
<1>1. valid[k] \in 1..Len(inputs) /\ inputs \in Seq(InputKinds)
  BY DEF TypeOK, Positions
<1>2. inputs[valid[k]] \in InputKinds
  BY <1>1
<1>3. inputs[valid[k]].tokenCount \in Int /\ inputs[valid[k]].estimate \in Nat
  BY <1>2 DEF InputKinds
<1> QED
  BY <1>3 DEF TokensAt, tokensFor

(* The sum of the tokens of valid inputs is a number. *)
LEMMA TokenSumType ==
  ASSUME TypeOK, NEW x \in Nat, NEW y \in Nat, x <= y, y <= Len(valid)
  PROVE  TokenSum(x, y) \in Nat
<1> DEFINE bad == {m \in Nat : x <= m /\ m <= Len(valid) /\ ~(TokenSum(x, m) \in Nat)}
<1>1. SUFFICES ASSUME bad # {} PROVE FALSE
  OBVIOUS
<1>2. bad \in SUBSET Nat
  OBVIOUS
<1>3. PICK m \in bad : \A k \in bad : m <= k
  <2> HIDE DEF bad
  <2> QED
    BY <1>1, <1>2, MinOfNats
<1>4. m \in Nat /\ x <= m /\ m <= Len(valid) /\ ~(TokenSum(x, m) \in Nat)
  OBVIOUS
<1>5. Len(valid) \in Nat
  BY DEF TypeOK
<1>6. m # x
  BY <1>4, TokenSumSteps
<1>7. m - 1 \in Nat /\ x <= m - 1 /\ m - 1 <= Len(valid) /\ ~(m <= m - 1) /\ m \in 1..Len(valid) /\ x < m
  BY <1>4, <1>5, <1>6
<1>8. m - 1 \notin bad
  <2> HIDE DEF bad
  <2> QED
    BY <1>3, <1>7
<1>9. TokenSum(x, m - 1) \in Nat /\ TokensAt(m) \in Nat
  BY <1>7, <1>8, TokensAreNumbers
<1>10. TokenSum(x, m) = TokenSum(x, m - 1) + TokensAt(m)
  BY <1>4, <1>7, TokenSumSteps
<1> QED
  BY <1>4, <1>9, <1>10

(* The inputs behind x up to y keep to the limits of a batch. *)
Fits(x, y) == y - x <= cfg.maxInputs /\ (y - x > 1 => TokenSum(x, y) <= cfg.maxTokens)

(* No mark lies between x and y. *)
Unbroken(x, y, marks) == \A m \in marks : ~(x < m /\ m < y)

(* Every stretch of valid inputs that no end of a batch or part breaks keeps to the limits,
   so halving a batch, or settling the first part of one, leaves only stretches that do. *)
AllFit(x, y, marks) ==
  \A p, q \in x..y : p < q /\ Unbroken(p, q, marks) => Fits(p, q)

(* The open batch has no more tokens, from any place in it, than curTok. *)
LimitsInv ==
  /\ pc = "validate" => curTok = 0
  /\ pc = "pack" =>
       /\ packed = 0 \/ packed \in batchEnds
       /\ \A x \in packed..(i - 1) : TokenSum(x, i - 1) <= curTok
       /\ AllFit(0, i - 1, batchEnds)
  /\ pc = "next" \/ Working => AllFit(done, Len(valid), batchEnds \union cuts)

(* The open batch and its tokens when an item is packed beside the others, or alone. *)
LEMMA PackLimits ==
  ASSUME IInv, LimitsInv, Pack
  PROVE  LimitsInv'
<1>1. /\ pc = "pack" /\ pc' = "pack" /\ i' = i + 1 /\ valid' = valid /\ cfg' = cfg /\ inputs' = inputs
  BY DEF Pack, fixedVars
<1>2. /\ i \in 1..Len(valid) /\ Len(valid) \in Nat /\ packed \in Nat /\ packed <= i - 1 /\ curTok \in Nat
      /\ batchEnds \in SUBSET Nat /\ cfg.maxInputs \in Nat \ {0} /\ cfg.maxTokens \in Nat
  <2>1. i <= Len(valid)
    BY DEF Pack
  <2> QED
    BY <1>1, <2>1 DEF IInv, TypeOK, PackInv
<1> DEFINE t == tokensFor(inputs[valid[i]])
           open == i - 1 - packed
<1>3. t \in Nat /\ t = TokensAt(i)
  BY <1>2, TokensAreNumbers DEF IInv, TokensAt
<1>4. ASSUME NEW x, NEW y PROVE TokenSum(x, y)' = TokenSum(x, y)
  BY <1>1 DEF TokenSum, tokensFor
<1>5. ASSUME NEW x \in 0..(i - 1)
      PROVE  /\ TokenSum(x, i) = TokenSum(x, i - 1) + t /\ TokenSum(x, i - 1) \in Nat
             /\ x \in Nat /\ TokenSum(x, i) \in Nat
  <2>1. x \in Nat /\ i \in Nat /\ x < i /\ i - 1 \in Nat /\ x <= i - 1 /\ i - 1 <= Len(valid)
    BY <1>2
  <2>2. TokenSum(x, i) = TokenSum(x, i - 1) + TokensAt(i)
    BY <2>1, TokenSumSteps
  <2>3. TokenSum(x, i - 1) \in Nat
    BY <2>1, TokenSumType DEF IInv
  <2> HIDE DEF t
  <2> QED
    BY <1>3, <2>1, <2>2, <2>3
<1>6. TokenSum(i, i) = 0 /\ TokenSum(i - 1, i) = t
  <2>1. i \in Nat /\ i - 1 \in Nat /\ i - 1 < i /\ i - 1 \in 0..(i - 1)
    BY <1>2
  <2>2. TokenSum(i, i) = 0 /\ TokenSum(i - 1, i - 1) = 0
    BY <2>1, TokenSumSteps
  <2>3. TokenSum(i - 1, i) = TokenSum(i - 1, i - 1) + t
    BY <1>5, <2>1
  <2> HIDE DEF t
  <2> QED
    BY <1>3, <2>2, <2>3
<1>7. \A x \in packed..(i - 1) : TokenSum(x, i - 1) <= curTok
  BY <1>1 DEF LimitsInv
<1>8. AllFit(0, i - 1, batchEnds)
  BY <1>1 DEF LimitsInv
<1>9. packed' = 0 \/ packed' \in batchEnds'
  BY <1>1 DEF LimitsInv, Pack
<1> HIDE DEF t
<1>10. \A x \in packed'..i : TokenSum(x, i) <= curTok'
  <2>1. CASE BatchFull(open, t)
    <3>1. packed' = i - 1 /\ curTok' = t
      BY <2>1 DEF Pack, t
    <3>2. \A x \in packed'..i : x = i - 1 \/ x = i
      BY <1>2, <3>1
    <3> QED
      BY <1>3, <1>6, <3>1, <3>2
  <2>2. CASE ~BatchFull(open, t)
    <3>1. packed' = packed /\ curTok' = curTok + t
      BY <2>2 DEF Pack, t
    <3>2. ASSUME NEW x \in packed'..i PROVE TokenSum(x, i) <= curTok'
      <4>1. CASE x = i
        BY <1>2, <1>3, <1>6, <3>1, <4>1
      <4>2. CASE x # i
        <5>1. x \in packed..(i - 1) /\ x \in 0..(i - 1)
          BY <1>2, <3>1, <4>2
        <5>2. TokenSum(x, i - 1) <= curTok
          BY <1>7, <5>1
        <5> QED
          BY <1>2, <1>3, <1>5, <3>1, <5>1, <5>2
      <4> QED
        BY <4>1, <4>2
    <3> QED
      BY <3>2
  <2> QED
    BY <2>1, <2>2
<1>11. ASSUME NEW p \in 0..i, NEW q \in 0..i, p < q, Unbroken(p, q, batchEnds') PROVE Fits(p, q)
  <2>1. batchEnds \subseteq batchEnds'
    BY DEF Pack
  <2>2. CASE q # i
    <3>1. p \in 0..(i - 1) /\ q \in 0..(i - 1) /\ Unbroken(p, q, batchEnds)
      BY <1>2, <1>11, <2>1, <2>2 DEF Unbroken
    <3> QED
      BY <1>8, <1>11, <3>1 DEF AllFit
  <2>3. CASE q = i
    <3>1. packed' = 0 \/ ~(p < packed' /\ packed' < i)
      BY <1>9, <1>11, <2>3 DEF Unbroken
    <3>2. packed' \in Nat /\ packed' < i
      BY <1>2 DEF Pack
    <3>3. p \in packed'..(i - 1) /\ p \in 0..(i - 1) /\ p \in Nat
      BY <1>2, <1>11, <2>3, <3>1, <3>2
    <3>4. CASE p = i - 1
      BY <1>2, <2>3, <3>4 DEF Fits
    <3>5. CASE p # i - 1
      <4>1. ~BatchFull(open, t)
        <5>1. BatchFull(open, t) => packed' = i - 1
          BY DEF Pack, t
        <5> QED
          BY <1>2, <3>3, <3>5, <5>1
      <4>2. packed' = packed /\ curTok' = curTok + t
        BY <4>1 DEF Pack, t
      <4>3. open > 0 /\ open \in Nat
        BY <1>2, <3>3, <3>5, <4>2
      <4>4. ~(open >= cfg.maxInputs) /\ ~(curTok + t > cfg.maxTokens)
        BY <4>1, <4>3 DEF BatchFull
      <4> HIDE DEF open
      <4>5. open = i - 1 - packed
        BY DEF open
      <4>6. i - p <= cfg.maxInputs
        BY <1>2, <3>3, <4>2, <4>3, <4>4, <4>5
      <4>7. TokenSum(p, i) <= curTok'
        <5>1. p \in packed'..i
          BY <1>2, <3>2, <3>3
        <5> QED
          BY <1>10, <5>1
      <4>8. TokenSum(p, i) <= cfg.maxTokens
        <5>1. TokenSum(p, i) \in Nat
          BY <1>5, <3>3
        <5> QED
          BY <1>2, <1>3, <4>2, <4>4, <4>7, <5>1
      <4> QED
        BY <2>3, <4>6, <4>8 DEF Fits
    <3> QED
      BY <3>4, <3>5
  <2> QED
    BY <2>2, <2>3
<1>12. i' - 1 = i
  BY <1>1, <1>2
<1>13. (\A x \in packed..(i - 1) : TokenSum(x, i - 1) <= curTok)'
  BY <1>4, <1>10, <1>12
<1>14. AllFit(0, i - 1, batchEnds)'
  <2>1. ASSUME NEW p, NEW q PROVE Fits(p, q)' <=> Fits(p, q)
    BY <1>1, <1>4 DEF Fits
  <2> QED
    BY <1>11, <1>12, <2>1 DEF AllFit, Unbroken
<1> QED
  BY <1>1, <1>9, <1>13, <1>14 DEF LimitsInv, Working

(* Every step keeps the limits. *)
LEMMA LimitsStep ==
  ASSUME IInv, LimitsInv, [Next]_vars
  PROVE  LimitsInv'
<1> USE DEF fixedVars, loopVars
<1>0. /\ valid \in Seq(Positions) /\ Len(valid) \in Nat /\ done \in Nat /\ i \in Nat
      /\ batchEnds \in SUBSET Nat /\ cuts \in SUBSET Nat
  BY DEF IInv, TypeOK
<1>1. CASE Validate
  BY <1>1 DEF Validate, LimitsInv, Working
<1>2. CASE StartPacking
  <2>1. /\ pc = "validate" /\ pc' = "pack" /\ i' = 1 /\ packed' = 0 /\ curTok' = 0 /\ packed = 0
        /\ valid' = valid /\ inputs' = inputs
    BY <1>2 DEF StartPacking, IInv, PackInv, LimitsInv
  <2>2. \A x \in 0..0 : TokenSum(x, 0) = 0
    <3>1. TokenSum(0, 0) = 0 /\ \A x \in 0..0 : x = 0
      BY TokenSumSteps
    <3> QED
      BY <3>1
  <2>3. i' - 1 = 0 /\ packed' = 0
    BY <2>1
  <2>4. (\A x \in packed..(i - 1) : TokenSum(x, i - 1) <= curTok)'
    <3>1. \A x, y : TokenSum(x, y)' = TokenSum(x, y)
      BY <2>1 DEF TokenSum, tokensFor
    <3> QED
      BY <2>1, <2>2, <2>3, <3>1
  <2>5. AllFit(0, i - 1, batchEnds)'
    <3>1. \A p, q \in 0..0 : ~(p < q)
      OBVIOUS
    <3> QED
      BY <2>3, <3>1 DEF AllFit
  <2> QED
    BY <2>1, <2>3, <2>4, <2>5 DEF LimitsInv, Working
<1>3. CASE Pack
  BY <1>3, PackLimits
<1>4. CASE ~Validate /\ ~StartPacking /\ ~Pack
  <2>1. valid' = valid /\ inputs' = inputs /\ cfg' = cfg
    BY <1>4 DEF Next, RunStep, vars, FinishPacking, CancelBeforeBatch, StartBatch, FinishBatches,
         Assemble, CallEmbed, AbortCanceled, Bisect, FailBatch, RejectResponse, RecordResponse, Settled,
         ProviderReply, CancelContext, Terminated
  <2>2. \A x, y : TokenSum(x, y)' = TokenSum(x, y)
    BY <2>1 DEF TokenSum, tokensFor
  <2>3. \A p, q : Fits(p, q)' <=> Fits(p, q)
    BY <2>1, <2>2 DEF Fits
  <2>4. \A x, y, marks : AllFit(x, y, marks)' <=> AllFit(x, y, marks)
    BY <2>3 DEF AllFit, Unbroken
  <2>5. CASE FinishPacking
    <3>1. /\ pc = "pack" /\ pc' = "next" /\ i - 1 = Len(valid) /\ done = 0 /\ done' = 0 /\ cuts' = {}
          /\ batchEnds \subseteq batchEnds'
      BY <1>0, <2>5 DEF FinishPacking, IInv, PackInv, CutsInv
    <3>2. AllFit(0, Len(valid), batchEnds)
      BY <3>1 DEF LimitsInv
    <3>3. AllFit(0, Len(valid), batchEnds' \union cuts')
      BY <3>1, <3>2 DEF AllFit, Unbroken
    <3> QED
      BY <2>1, <2>4, <3>1, <3>3 DEF LimitsInv
  <2>6. CASE Settling
    <3>1. Working /\ Settled /\ batchEnds' = batchEnds
      BY <2>6, SettlingFacts DEF Settling, FailBatch, RejectResponse, RecordResponse
    <3>2. partEnd \in cuts /\ done < partEnd /\ partEnd \in Nat
      BY <3>1, PartFacts
    <3>3. done' = partEnd /\ cuts' = cuts \ {partEnd} /\ pc' \in {"next", "embed"}
      BY <3>1 DEF Settled
    <3>4. AllFit(done, Len(valid), batchEnds \union cuts)
      BY <3>1 DEF LimitsInv
    <3>5. ASSUME NEW p \in partEnd..Len(valid), NEW q \in partEnd..Len(valid), p < q,
                 Unbroken(p, q, batchEnds' \union cuts')
          PROVE  Fits(p, q)
      <4>1. ~(p < partEnd)
        BY <1>0, <3>2
      <4>2. Unbroken(p, q, batchEnds \union cuts)
        BY <3>1, <3>3, <3>5, <4>1 DEF Unbroken
      <4>3. p \in done..Len(valid) /\ q \in done..Len(valid)
        BY <1>0, <3>2
      <4> QED
        BY <3>4, <3>5, <4>2, <4>3 DEF AllFit
    <3>6. AllFit(done', Len(valid'), batchEnds' \union cuts')
      BY <2>1, <3>3, <3>5 DEF AllFit
    <3> QED
      BY <2>4, <3>3, <3>6 DEF LimitsInv
  <2>7. CASE /\ pc = "next" \/ Working
             /\ done' = done /\ batchEnds \union cuts \subseteq batchEnds' \union cuts' /\ pc' \notin {"validate", "pack"}
    <3>1. AllFit(done, Len(valid), batchEnds \union cuts)
      BY <2>7 DEF LimitsInv
    <3>2. AllFit(done', Len(valid'), batchEnds' \union cuts')
      BY <2>1, <2>7, <3>1 DEF AllFit, Unbroken
    <3> QED
      BY <2>4, <2>7, <3>2 DEF LimitsInv
  <2>8. CASE pc' \in {"assemble", "done"}
    BY <2>8 DEF LimitsInv, Working
  <2>9. CASE UNCHANGED <<pc, done, batchEnds, cuts, i, packed, curTok>>
    BY <2>1, <2>2, <2>4, <2>9 DEF LimitsInv, Working
  <2>10. \/ FinishPacking \/ Settling
         \/ /\ pc = "next" \/ Working
            /\ done' = done /\ batchEnds \union cuts \subseteq batchEnds' \union cuts' /\ pc' \notin {"validate", "pack"}
         \/ pc' \in {"assemble", "done"}
         \/ UNCHANGED <<pc, done, batchEnds, cuts, i, packed, curTok>>
    <3>1. CASE StartBatch
      <4>1. cuts = {} /\ pc = "next" /\ done' = done /\ pc' = "embed"
        BY <3>1 DEF StartBatch, IInv, CutsInv
      <4>2. cuts' = {Min(batchEnds)} /\ batchEnds' = batchEnds \ {Min(batchEnds)}
        BY <3>1 DEF StartBatch
      <4> QED
        BY <4>1, <4>2
    <3>2. CASE Bisect
      BY <3>2 DEF Bisect, ClientFailed, Working
    <3>3. CASE CallEmbed \/ ProviderReply
      BY <3>3 DEF CallEmbed, ProviderReply, Working
    <3> QED
      BY <1>4, <3>1, <3>2, <3>3 DEF Next, RunStep, vars, Settling, CancelBeforeBatch, FinishBatches, Assemble,
         AbortCanceled, CancelContext, Terminated
  <2> QED
    BY <2>5, <2>6, <2>7, <2>8, <2>9, <2>10
<1> QED
  BY <1>1, <1>2, <1>3, <1>4

(* Every request keeps to the limits of a batch, however batches are halved, and is never empty;
   one input over the token limit goes out alone. *)
THEOREM RequestsKeepLimits == Spec => []RequestWithinLimits
<1>1. Init => LimitsInv
  BY DEF Init, LimitsInv, Working
<1>2. IInv /\ LimitsInv /\ [Next]_vars => LimitsInv'
  BY LimitsStep
<1>3. IInv /\ LimitsInv => RequestWithinLimits
  <2> SUFFICES ASSUME IInv, LimitsInv, pc = "wait" PROVE
        /\ PartSize \in 1..cfg.maxInputs
        /\ PartSize > 1 => TokenSum(done, partEnd) <= cfg.maxTokens
    BY DEF RequestWithinLimits
  <2>1. Working
    BY DEF Working
  <2>2. /\ partEnd \in cuts /\ partEnd \in Nat /\ done \in Nat /\ done < partEnd /\ partEnd <= Len(valid)
        /\ Len(valid) \in Nat /\ cfg.maxInputs \in Nat /\ \A c \in cuts : partEnd <= c
    <3>1. cuts # {} /\ cuts \in SUBSET Nat
      BY <2>1 DEF IInv, CutsInv, TypeOK
    <3>2. partEnd \in cuts /\ \A c \in cuts : partEnd <= c
      BY <3>1, MinOfNats DEF partEnd
    <3> QED
      BY <3>1, <3>2 DEF IInv, TypeOK, CutsInv
  <2>3. Unbroken(done, partEnd, batchEnds \union cuts)
    <3>1. ASSUME NEW m \in batchEnds \union cuts PROVE ~(m < partEnd)
      <4>1. m \in cuts => partEnd <= m /\ m \in Nat
        BY <2>2 DEF IInv, TypeOK
      <4>2. m \in batchEnds => partEnd < m /\ m \in Nat
        BY <2>2 DEF IInv, TypeOK, CutsInv
      <4> QED
        BY <2>2, <4>1, <4>2
    <3> QED
      BY <3>1 DEF Unbroken
  <2>4. done \in done..Len(valid) /\ partEnd \in done..Len(valid)
    BY <2>2
  <2>5. Fits(done, partEnd)
    BY <2>1, <2>2, <2>3, <2>4 DEF LimitsInv, AllFit
  <2> QED
    BY <2>2, <2>5 DEF Fits, PartSize
<1> QED
  BY <1>1, <1>2, <1>3, Invariance, PTL DEF Spec

-----------------------------------------------------------------------------
(* The order of the result. *)

(* g gathers the positions with a vector, up to each position up to n. *)
Gathers(g, n) ==
  g = [p \in 0..n |-> IF p = 0 THEN <<>>
                      ELSE IF records[p] # NoVector THEN Append(g[p - 1], p)
                      ELSE g[p - 1]]

(* The records can be gathered up to any position. *)
LEMMA GathersExists ==
  ASSUME NEW n \in Nat
  PROVE  \E g : Gathers(g, n)
<1> DEFINE bad == {m \in Nat : ~\E g : Gathers(g, m)}
<1>1. SUFFICES ASSUME bad # {} PROVE FALSE
  OBVIOUS
<1>2. bad \in SUBSET Nat
  OBVIOUS
<1>3. PICK m \in bad : \A k \in bad : m <= k
  <2> HIDE DEF bad
  <2> QED
    BY <1>1, <1>2, MinOfNats
<1>4. m \in Nat /\ ~\E g : Gathers(g, m)
  OBVIOUS
<1>5. CASE m = 0
  <2> DEFINE g == [p \in 0..m |-> <<>>]
  <2>1. \A p \in 0..m : p = 0
    BY <1>5
  <2>2. g = [p \in 0..m |-> IF p = 0 THEN <<>>
                            ELSE IF records[p] # NoVector THEN Append(g[p - 1], p)
                            ELSE g[p - 1]]
    BY <2>1
  <2> HIDE DEF g
  <2>3. Gathers(g, m)
    BY <2>2 DEF Gathers
  <2> QED
    BY <1>4, <2>3
<1>6. CASE m # 0
  <2>1. m - 1 \in Nat /\ ~(m <= m - 1) /\ m \in 0..m
    BY <1>4, <1>6
  <2>2. m - 1 \notin bad
    <3> HIDE DEF bad
    <3> QED
      BY <1>3, <2>1
  <2>3. PICK f : Gathers(f, m - 1)
    BY <2>1, <2>2
  <2> DEFINE g == [p \in 0..m |-> IF p # m THEN f[p]
                                  ELSE IF records[m] # NoVector THEN Append(f[m - 1], m)
                                  ELSE f[m - 1]]
  <2>4. ASSUME NEW p \in 0..m
        PROVE  g[p] = IF p = 0 THEN <<>>
                      ELSE IF records[p] # NoVector THEN Append(g[p - 1], p)
                      ELSE g[p - 1]
    <3>1. CASE p = m
      <4>1. m - 1 \in 0..m /\ m - 1 # m
        BY <2>1
      <4>2. g[m - 1] = f[m - 1] /\ g[m] = IF records[m] # NoVector THEN Append(f[m - 1], m) ELSE f[m - 1]
        BY <2>1, <4>1
      <4> HIDE DEF g
      <4> QED
        BY <1>6, <3>1, <4>2
    <3>2. CASE p # m
      <4>1. p \in 0..(m - 1) /\ (p # 0 => p - 1 \in 0..m /\ p - 1 # m)
        BY <2>1, <3>2
      <4>2. f[p] = IF p = 0 THEN <<>>
                   ELSE IF records[p] # NoVector THEN Append(f[p - 1], p)
                   ELSE f[p - 1]
        BY <2>3, <4>1 DEF Gathers
      <4>3. g[p] = f[p] /\ (p # 0 => g[p - 1] = f[p - 1])
        BY <3>2, <4>1
      <4> HIDE DEF g
      <4> QED
        BY <4>2, <4>3
    <3> QED
      BY <3>1, <3>2
  <2>5. Gathers(g, m)
    <3>1. g = [p \in 0..m |-> g[p]]
      OBVIOUS
    <3> HIDE DEF g
    <3> QED
      BY <2>4, <3>1 DEF Gathers
  <2> QED
    BY <1>4, <2>5
<1> QED
  BY <1>5, <1>6

(* A sequence of exactly the positions with a vector up to p, in ascending order. *)
InOrder(s, p) ==
  /\ s \in Seq(Nat)
  /\ \A k \in 1..Len(s) : s[k] \in 1..p /\ HasRecord(s[k])
  /\ \A q \in 1..p : HasRecord(q) => \E k \in 1..Len(s) : s[k] = q
  /\ \A j, k \in 1..Len(s) : j < k => s[j] < s[k]

(* Going on by one position keeps the order. *)
LEMMA GatherOne ==
  ASSUME NEW p \in Nat, p # 0, NEW s, InOrder(s, p - 1)
  PROVE  /\ HasRecord(p) => InOrder(Append(s, p), p)
         /\ ~HasRecord(p) => InOrder(s, p)
<1>1. /\ s \in Seq(Nat) /\ Len(s) \in Nat /\ p - 1 \in Nat
      /\ \A q \in 1..p : q \in 1..(p - 1) \/ q = p
      /\ \A q \in 1..(p - 1) : q \in 1..p /\ q < p
  BY DEF InOrder
<1>2. /\ Append(s, p) \in Seq(Nat) /\ Len(Append(s, p)) = Len(s) + 1 /\ Append(s, p)[Len(s) + 1] = p
      /\ \A k \in 1..Len(s) : Append(s, p)[k] = s[k]
  BY <1>1
<1>3. /\ \A k \in 1..(Len(s) + 1) : k \in 1..Len(s) \/ k = Len(s) + 1
      /\ \A k \in 1..Len(s) : k \in 1..(Len(s) + 1) /\ ~(Len(s) + 1 < k)
      /\ Len(s) + 1 \in 1..(Len(s) + 1) /\ ~(Len(s) + 1 < Len(s) + 1) /\ p \in 1..p
  BY <1>1
<1>4. ASSUME HasRecord(p) PROVE InOrder(Append(s, p), p)
  <2> DEFINE t == Append(s, p)
  <2>1. \A k \in 1..Len(t) : t[k] \in 1..p /\ HasRecord(t[k])
    BY <1>1, <1>2, <1>3, <1>4 DEF InOrder
  <2>2. \A q \in 1..p : HasRecord(q) => \E k \in 1..Len(t) : t[k] = q
    <3>1. ASSUME NEW q \in 1..p, HasRecord(q) PROVE \E k \in 1..Len(t) : t[k] = q
      <4>1. CASE q = p
        BY <1>2, <1>3, <4>1
      <4>2. CASE q # p
        <5>1. PICK k \in 1..Len(s) : s[k] = q
          BY <1>1, <3>1, <4>2 DEF InOrder
        <5> QED
          BY <1>2, <1>3, <5>1
      <4> QED
        BY <4>1, <4>2
    <3> QED
      BY <3>1
  <2>3. ASSUME NEW j \in 1..Len(t), NEW k \in 1..Len(t), j < k PROVE t[j] < t[k]
    <3>1. j \in 1..Len(s)
      BY <1>1, <1>2, <2>3
    <3>2. s[j] < p /\ t[j] = s[j]
      BY <1>1, <1>2, <3>1 DEF InOrder
    <3>3. k \in 1..Len(s) => s[j] < s[k] /\ t[k] = s[k]
      BY <1>2, <2>3, <3>1 DEF InOrder
    <3> QED
      BY <1>2, <1>3, <3>2, <3>3
  <2> HIDE DEF t
  <2>4. t \in Seq(Nat)
    BY <1>2 DEF t
  <2>5. InOrder(t, p)
    BY <2>1, <2>2, <2>3, <2>4 DEF InOrder
  <2> QED
    BY <2>5 DEF t
<1>5. ASSUME ~HasRecord(p) PROVE InOrder(s, p)
  BY <1>1, <1>5 DEF InOrder
<1> QED
  BY <1>4, <1>5

(* The records are gathered in order, whatever the batches did. *)
LEMMA RecordsInOrder ==
  ASSUME Len(inputs) \in Nat
  PROVE  InOrder(recordsInOrder, Len(inputs))
<1> DEFINE n == Len(inputs)
           g == CHOOSE f : Gathers(f, n)
<1>1. Gathers(g, n)
  BY GathersExists
<1>2. recordsInOrder = g[n]
  BY DEF recordsInOrder, Gathers
<1> HIDE DEF g
<1> DEFINE bad == {m \in Nat : m <= n /\ ~InOrder(g[m], m)}
<1>3. bad = {}
  <2>1. SUFFICES ASSUME bad # {} PROVE FALSE
    OBVIOUS
  <2>2. bad \in SUBSET Nat
    OBVIOUS
  <2>3. PICK m \in bad : \A k \in bad : m <= k
    <3> HIDE DEF bad
    <3> QED
      BY <2>1, <2>2, MinOfNats
  <2>4. m \in Nat /\ m <= n /\ ~InOrder(g[m], m) /\ m \in 0..n
    OBVIOUS
  <2>5. g[m] = IF m = 0 THEN <<>>
               ELSE IF records[m] # NoVector THEN Append(g[m - 1], m)
               ELSE g[m - 1]
    BY <1>1, <2>4 DEF Gathers
  <2>6. m # 0
    <3>1. InOrder(<<>>, 0)
      <4>1. <<>> \in Seq(Nat) /\ Len(<<>>) = 0 /\ \A k \in 1..0 : FALSE
        OBVIOUS
      <4> QED
        BY <4>1 DEF InOrder
    <3> QED
      BY <2>4, <2>5, <3>1
  <2>7. m - 1 \in Nat /\ m - 1 <= n /\ ~(m <= m - 1)
    BY <2>4, <2>6
  <2>8. m - 1 \notin bad
    <3> HIDE DEF bad
    <3> QED
      BY <2>3, <2>7
  <2>9. InOrder(g[m - 1], m - 1)
    BY <2>7, <2>8
  <2>10. /\ HasRecord(m) => InOrder(Append(g[m - 1], m), m)
         /\ ~HasRecord(m) => InOrder(g[m - 1], m)
    BY <2>4, <2>6, <2>9, GatherOne
  <2> HIDE DEF bad
  <2> QED
    BY <2>4, <2>5, <2>6, <2>10 DEF HasRecord
<1>4. n \in Nat /\ n <= n
  OBVIOUS
<1> QED
  BY <1>2, <1>3, <1>4

(* A failure is at the first position it covers. *)
PosInv == \A f \in DOMAIN failures : failures[f].pos \in failures[f].items

(* The places of the failures are 1, 2, ... without a gap, and follow the positions. *)
LEMMA Places ==
  ASSUME failures \in Seq(FailureType)
  PROVE  /\ \A f \in DOMAIN failures : Place(f) \in DOMAIN failures
         /\ \A n \in DOMAIN failures : \E f \in DOMAIN failures : Place(f) = n
         /\ \A f, g \in DOMAIN failures : Place(f) = Place(g) => f = g
         /\ \A f, g \in DOMAIN failures : Place(f) < Place(g) => failures[f].pos <= failures[g].pos
<1> DEFINE D == DOMAIN failures
           Before(f) == {g \in D : NotBehind(g, f)}
<1>1. Len(failures) \in Nat /\ D = 1..Len(failures)
  OBVIOUS
<1>2. \A f \in D : failures[f].pos \in Nat /\ f \in Nat
  <2>1. ASSUME NEW f \in D PROVE failures[f].pos \in Nat /\ f \in Nat
    <3>1. failures[f] \in FailureType
      OBVIOUS
    <3> QED
      BY <1>1, <3>1 DEF FailureType
  <2> QED
    BY <2>1
<1>3. IsFiniteSet(D) /\ Cardinality(D) = Len(failures)
  <2>1. 1 \in Int /\ Len(failures) \in Int
    BY <1>1
  <2>2. /\ IsFiniteSet(1..Len(failures))
        /\ Cardinality(1..Len(failures)) = IF 1 > Len(failures) THEN 0 ELSE Len(failures) - 1 + 1
    BY <2>1, FS_Interval
  <2>3. (IF 1 > Len(failures) THEN 0 ELSE Len(failures) - 1 + 1) = Len(failures)
    BY <1>1
  <2> QED
    BY <1>1, <2>2, <2>3
<1>4. \A f, g \in D : NotBehind(f, g) => Before(f) \in SUBSET Before(g)
  <2>1. \A f, g, h \in D : NotBehind(h, f) /\ NotBehind(f, g) => NotBehind(h, g)
    BY <1>2 DEF NotBehind
  <2> QED
    BY <2>1
<1>5. \A f, g \in D : NotBehind(f, g) \/ NotBehind(g, f)
  BY <1>2 DEF NotBehind
<1>6. \A f, g \in D : NotBehind(f, g) /\ NotBehind(g, f) => f = g
  BY <1>2 DEF NotBehind
<1>7. \A f \in D : f \in Before(f) /\ Before(f) \in SUBSET D
  BY <1>5
<1>8. \A f \in D : Place(f) = Cardinality(Before(f))
  BY DEF Place
<1>9. \A f, g \in D : g \in Before(f) <=> NotBehind(g, f)
  OBVIOUS
<1> HIDE DEF Before
<1>10. ASSUME NEW f \in D
       PROVE  /\ IsFiniteSet(Before(f)) /\ Cardinality(Before(f)) \in Nat
              /\ Cardinality(Before(f)) <= Cardinality(D) /\ Cardinality(Before(f)) # 0
  <2>1. IsFiniteSet(Before(f)) /\ Cardinality(Before(f)) <= Cardinality(D)
    BY <1>3, <1>7, FS_Subset
  <2> QED
    BY <1>7, <2>1, FS_CardinalityType, FS_EmptySet
<1>11. \A f \in D : Place(f) \in 1..Len(failures)
  <2>1. ASSUME NEW f \in D PROVE Place(f) \in 1..Len(failures)
    <3>1. Place(f) \in Nat /\ Place(f) <= Len(failures) /\ Place(f) # 0
      BY <1>3, <1>8, <1>10
    <3> QED
      BY <1>1, <3>1
  <2> QED
    BY <2>1
<1>12. \A f, g \in D : NotBehind(f, g) => Place(f) <= Place(g)
  <2>1. ASSUME NEW f \in D, NEW g \in D, NotBehind(f, g) PROVE Place(f) <= Place(g)
    <3>1. Before(f) \in SUBSET Before(g) /\ IsFiniteSet(Before(g))
      BY <1>4, <1>10, <2>1
    <3>2. Cardinality(Before(f)) <= Cardinality(Before(g))
      BY <3>1, FS_Subset
    <3> QED
      BY <1>8, <3>2
  <2> QED
    BY <2>1
<1>13. \A f, g \in D : NotBehind(f, g) /\ f # g => Place(f) # Place(g)
  <2>1. ASSUME NEW f \in D, NEW g \in D, NotBehind(f, g), f # g PROVE Place(f) # Place(g)
    <3>1. Before(f) \in SUBSET Before(g) /\ IsFiniteSet(Before(g))
      BY <1>4, <1>10, <2>1
    <3>2. g \in Before(g) /\ g \notin Before(f)
      BY <1>6, <1>7, <1>9, <2>1
    <3>3. Cardinality(Before(f)) # Cardinality(Before(g))
      BY <3>1, <3>2, FS_Subset
    <3> QED
      BY <1>8, <3>3
  <2> QED
    BY <2>1
<1> DEFINE place == [f \in D |-> Place(f)]
<1>14. place \in Injection(D, 1..Len(failures))
  <2>1. \A f, g \in D : Place(f) = Place(g) => f = g
    BY <1>5, <1>13
  <2> QED
    BY <1>11, <2>1 DEF Injection, IsInjective
<1>15. place \in Surjection(D, 1..Len(failures))
  <2>1. IsFiniteSet(1..Len(failures)) /\ Cardinality(1..Len(failures)) = Cardinality(D) /\ IsFiniteSet(D)
    BY <1>1, <1>3
  <2> HIDE DEF place
  <2> QED
    BY <1>14, <2>1, FS_Injection
<1>16. \A n \in 1..Len(failures) : \E f \in D : Place(f) = n
  BY <1>15 DEF Surjection
<1>17. ASSUME NEW f \in D, NEW g \in D, Place(f) < Place(g) PROVE failures[f].pos <= failures[g].pos
  <2>1. ~NotBehind(g, f)
    <3>1. Place(f) \in Nat /\ Place(g) \in Nat
      BY <1>11
    <3> QED
      BY <1>12, <1>17, <3>1
  <2>2. NotBehind(f, g)
    BY <1>5, <2>1
  <2> QED
    BY <1>2, <2>2 DEF NotBehind
<1>18. \A f, g \in D : Place(f) = Place(g) => f = g
  BY <1>5, <1>13
<1> QED
  BY <1>1, <1>11, <1>16, <1>17, <1>18

(* The failures that a run returns are those gathered, by first position. *)
LEMMA FailuresInOrder ==
  ASSUME failures \in Seq(FailureType), PosInv, ReportedOnce
  PROVE  /\ Len(failuresInOrder) = Len(failures) /\ DOMAIN failuresInOrder = DOMAIN failures
         /\ Range(failuresInOrder) = Range(failures)
         /\ \A j, k \in DOMAIN failuresInOrder :
              j < k => failuresInOrder[j].pos < failuresInOrder[k].pos
<1> DEFINE D == DOMAIN failures
           at(n) == CHOOSE f \in D : Place(f) = n
<1>1. D = 1..Len(failures) /\ Len(failures) \in Nat
  OBVIOUS
<1>2. \A n \in D : at(n) \in D /\ Place(at(n)) = n
  BY Places
<1>3. failuresInOrder = [n \in D |-> failures[at(n)]]
  BY DEF failuresInOrder
<1>4. \A f \in D : at(Place(f)) \in D /\ Place(at(Place(f))) = Place(f) /\ Place(f) \in D
  BY Places
<1> HIDE DEF at
<1>5. \A f, g \in D : f # g => failures[f].pos # failures[g].pos
  BY DEF PosInv, ReportedOnce
<1>6. \A f \in D : failures[f].pos \in Nat
  <2>1. ASSUME NEW f \in D PROVE failures[f].pos \in Nat
    <3>1. failures[f] \in FailureType
      OBVIOUS
    <3> QED
      BY <3>1 DEF FailureType
  <2> QED
    BY <2>1
<1>7. \A f \in D : at(Place(f)) = f
  BY <1>4, Places
<1>8. Len(failuresInOrder) = Len(failures) /\ DOMAIN failuresInOrder = D
  BY <1>1, <1>3
<1>9. Range(failuresInOrder) = Range(failures)
  <2>1. Range(failuresInOrder) \subseteq Range(failures)
    BY <1>2, <1>3 DEF Range
  <2>2. Range(failures) \subseteq Range(failuresInOrder)
    BY <1>3, <1>4, <1>7 DEF Range
  <2> QED
    BY <2>1, <2>2
<1>10. ASSUME NEW j \in D, NEW k \in D, j < k PROVE failuresInOrder[j].pos < failuresInOrder[k].pos
  <2>1. failures[at(j)].pos <= failures[at(k)].pos /\ at(j) # at(k)
    <3>1. at(j) \in D /\ at(k) \in D /\ Place(at(j)) = j /\ Place(at(k)) = k
      BY <1>2
    <3>2. Place(at(j)) < Place(at(k)) /\ j # k
      BY <1>1, <1>10, <3>1
    <3>3. at(j) # at(k)
      BY <3>1, <3>2
    <3>4. \A f, g \in D : Place(f) < Place(g) => failures[f].pos <= failures[g].pos
      BY Places
    <3> QED
      BY <3>1, <3>2, <3>3, <3>4
  <2>2. failures[at(j)].pos # failures[at(k)].pos
    BY <1>2, <1>5, <2>1
  <2>3. failures[at(j)].pos \in Nat /\ failures[at(k)].pos \in Nat
    BY <1>2, <1>6
  <2>4. failuresInOrder[j] = failures[at(j)] /\ failuresInOrder[k] = failures[at(k)]
    BY <1>3
  <2> QED
    BY <2>1, <2>2, <2>3, <2>4
<1> QED
  BY <1>8, <1>9, <1>10

(* Failures are at the first position they cover, and a result is what was gathered. *)
ResultInv == PosInv /\ (pc = "done" => result = assemble)

(* A failure that is added is at the least of the positions it covers. *)
LEMMA PosAdded ==
  ASSUME failures \in Seq(FailureType), PosInv, NEW S \in SUBSET Nat, S # {}, NEW why, NEW retry,
         posFailure(S, why, retry) \in FailureType,
         failures' = Append(failures, posFailure(S, why, retry))
  PROVE  PosInv'
<1> DEFINE x == posFailure(S, why, retry)
<1>1. x.pos \in x.items
  BY MinOfNats DEF posFailure
<1> HIDE DEF x
<1>2. /\ DOMAIN failures' = 1..(Len(failures) + 1) /\ Len(failures) \in Nat
      /\ failures'[Len(failures) + 1] = x
      /\ \A f \in 1..Len(failures) : failures'[f] = failures[f]
      /\ DOMAIN failures = 1..Len(failures)
  BY DEF x
<1>3. \A f \in 1..(Len(failures) + 1) : f \in 1..Len(failures) \/ f = Len(failures) + 1
  BY <1>2
<1> QED
  BY <1>1, <1>2, <1>3 DEF PosInv

(* Every step keeps the failures at their positions, and the result what it is. *)
LEMMA ResultStep ==
  ASSUME IInv, ResultInv, [Next]_vars
  PROVE  ResultInv'
<1> USE DEF fixedVars, loopVars
<1>0. failures \in Seq(FailureType) /\ PosInv
  BY DEF IInv, TypeOK, ResultInv
<1>1. CASE Validate
  <2>1. pc' # "done"
    BY <1>1 DEF Validate
  <2>2. CASE inputs[i].wellFormed
    <3>1. failures' = failures
      BY <1>1, <2>2 DEF Validate
    <3> QED
      BY <1>0, <2>1, <3>1 DEF ResultInv, PosInv
  <2>3. CASE ~inputs[i].wellFormed
    <3>1. failures' = Append(failures, posFailure({i}, "invalid", FALSE)) /\ i \in Nat /\ i \in Positions
      BY <1>1, <2>3 DEF Validate, IInv, TypeOK
    <3>2. {i} \in SUBSET Nat /\ {i} # {} /\ {i} \in SUBSET Positions
      BY <3>1
    <3>3. posFailure({i}, "invalid", FALSE) \in FailureType
      BY <3>2, MinOfNats DEF posFailure, FailureType
    <3>4. PosInv'
      BY <1>0, <3>1, <3>2, <3>3, PosAdded
    <3> QED
      BY <2>1, <3>4 DEF ResultInv
  <2> QED
    BY <2>2, <2>3
<1>2. CASE Settling
  <2>1. Working /\ Settled
    BY <1>2, SettlingFacts
  <2>2. pc' # "done"
    BY <2>1 DEF Settled
  <2>3. \/ failures' = failures
        \/ \E why \in {"invalid", "error", "mismatch"}, retry \in BOOLEAN : addBatchFailure(why, retry)
    BY <1>2 DEF Settling, FailBatch, RejectResponse, RecordResponse, StoreVectors
  <2>4. CASE failures' = failures
    BY <1>0, <2>2, <2>4 DEF ResultInv, PosInv
  <2>5. ASSUME NEW why \in {"invalid", "error", "mismatch"}, NEW retry \in BOOLEAN, addBatchFailure(why, retry)
        PROVE  PosInv'
    <3>1. failures' = Append(failures, posFailure(Asked, why, retry))
      BY <2>5 DEF addBatchFailure, Asked
    <3>2. Asked \in SUBSET Positions /\ Asked \in SUBSET Nat /\ Asked # {}
      BY <2>1, PartFacts DEF Positions
    <3>3. posFailure(Asked, why, retry) \in FailureType
      BY <2>5, <3>2, MinOfNats DEF posFailure, FailureType
    <3> QED
      BY <1>0, <3>1, <3>2, <3>3, PosAdded
  <2> QED
    BY <2>2, <2>3, <2>4, <2>5 DEF ResultInv
<1>3. CASE Assemble
  <2>1. UNCHANGED <<failures, records, inputs>> /\ result' = assemble
    BY <1>3 DEF Assemble
  <2>2. assemble' = assemble
    <3>1. recordsInOrder' = recordsInOrder
      BY <2>1 DEF recordsInOrder
    <3>3. failuresInOrder' = failuresInOrder
      BY <2>1 DEF failuresInOrder, Place, NotBehind
    <3> QED
      BY <3>1, <3>3 DEF assemble
  <2>3. PosInv'
    BY <1>0, <2>1 DEF PosInv
  <2> QED
    BY <2>1, <2>2, <2>3 DEF ResultInv
<1>4. CASE ~Validate /\ ~Settling /\ ~Assemble
  <2>1. UNCHANGED <<records, failures>>
    BY <1>4, QuietSteps
  <2>2. PosInv'
    BY <1>0, <2>1 DEF PosInv
  <2>3. CASE pc' # "done"
    BY <2>2, <2>3 DEF ResultInv
  <2>4. CASE pc' = "done"
    <3>1. pc = "done" /\ result' = result /\ inputs' = inputs
      BY <1>4, <2>4 DEF Next, RunStep, vars, StartPacking, Pack, FinishPacking, CancelBeforeBatch,
           StartBatch, FinishBatches, CallEmbed, AbortCanceled, Bisect, ProviderReply, CancelContext,
           Terminated, Settling
    <3>2. recordsInOrder' = recordsInOrder
      BY <2>1, <3>1 DEF recordsInOrder
    <3>4. failuresInOrder' = failuresInOrder
      BY <2>1 DEF failuresInOrder, Place, NotBehind
    <3>5. assemble' = assemble
      BY <3>2, <3>4 DEF assemble
    <3> QED
      BY <2>2, <3>1, <3>5 DEF ResultInv
  <2> QED
    BY <2>3, <2>4
<1> QED
  BY <1>1, <1>2, <1>3, <1>4

(* A run returns its records in input order and its failures by their first input, and all
   that was gathered, in whatever order validation and the halves of batches reported them. *)
THEOREM ResultAlwaysOrdered == Spec => []ResultInInputOrder
<1>1. Init => ResultInv
  <2>1. Init => failures = <<>> /\ pc = "validate"
    BY DEF Init
  <2> QED
    BY <2>1 DEF ResultInv, PosInv
<1>2. IInv /\ ResultInv /\ [Next]_vars => ResultInv'
  BY ResultStep
<1>3. IInv /\ ResultInv => ResultInInputOrder
  <2> SUFFICES ASSUME IInv, ResultInv, pc = "done" PROVE ResultInInputOrder
    BY DEF ResultInInputOrder
  <2>1. /\ failures \in Seq(FailureType) /\ Len(inputs) \in Nat /\ PosInv /\ ReportedOnce
        /\ Positions = 1..Len(inputs)
    BY DEF IInv, TypeOK, ResultInv, Positions
  <2>2. result.records = recordsInOrder /\ result.failures = failuresInOrder
    BY DEF ResultInv, assemble
  <2>3. InOrder(recordsInOrder, Len(inputs))
    BY <2>1, RecordsInOrder
  <2>4. recordsInOrder \in Seq(Nat) /\ DOMAIN recordsInOrder = 1..Len(recordsInOrder)
    BY <2>3 DEF InOrder
  <2>5. Range(recordsInOrder) = {p \in Positions : HasRecord(p)}
    BY <2>1, <2>3, <2>4 DEF InOrder, Range
  <2>6. \A j, k \in DOMAIN recordsInOrder : j < k => recordsInOrder[j] < recordsInOrder[k]
    BY <2>3, <2>4 DEF InOrder
  <2> QED
    BY <2>1, <2>2, <2>5, <2>6, FailuresInOrder DEF ResultInInputOrder
<1> QED
  BY <1>1, <1>2, <1>3, Invariance, PTL DEF Spec
==============================================================================
