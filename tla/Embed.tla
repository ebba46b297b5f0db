-------------------------------- MODULE Embed --------------------------------
(***************************************************************************)
(* embed.Run: the runner that validates a list of inputs, packs the valid  *)
(* ones greedily into batches, embeds the batches one after the other      *)
(* through an all-or-nothing client, halves a failing batch to isolate the *)
(* input that makes it fail, and returns records and failures in order.    *)
(*                                                                         *)
(* Positions are 1..Len(inputs).  A batch or a half of one is a contiguous *)
(* slice of `valid`, so the recursion of embedBatch is kept as a set of    *)
(* right ends: the part being embedded is valid[done+1 .. Min(cuts)] and   *)
(* the larger cuts are the halves the callers on the Go stack still owe.   *)
(* The embedding client and the caller's context are the environment.      *)
(***************************************************************************)
EXTENDS Integers, SequencesExt

CONSTANTS
  InputLists,               \* the input lists a run may be given
  Configs,                  \* the configurations a run may be given
  Providers,                \* sets of misbehaviours the client may show, besides poison inputs
  DefaultMaxBatchInputs,
  DefaultMaxBatchTokens,
  NoVector, UnknownID       \* "not recorded"; the ID of a vector nobody asked for

Faults == {"transient", "canceled", "count", "duplicate", "unknown"}

(* wellFormed abstracts the four checks of validate; poison marks a text the
   client refuses in every request that carries it. *)
InputKinds ==
  [wellFormed : BOOLEAN, tokenCount : Int, estimate : Nat, poison : BOOLEAN]

ASSUME EmbedAssumption ==
  /\ InputLists \subseteq Seq(InputKinds)
  /\ Configs \subseteq [maxInputs : Int, maxTokens : Int, disableBisect : BOOLEAN]
  /\ Providers \subseteq SUBSET Faults
  /\ DefaultMaxBatchInputs \in Nat \ {0}
  /\ DefaultMaxBatchTokens \in Nat \ {0}
  /\ NoVector \notin Nat
  /\ UnknownID \notin Nat
  /\ NoVector # UnknownID

VARIABLES
  inputs, cfg, provider,    \* fixed for the run
  pc,
  i,                        \* loop index of the validation and of the packing loop
  valid,                    \* positions of the valid inputs, in order
  packed, curTok,           \* items in closed batches; token sum of the open one
  batchEnds,                \* right ends of the batches not yet started
  cuts,                     \* right ends of the parts of the current batch still to embed
  done,                     \* items of valid already settled
  records,                  \* recordsByPos: the response ID of the vector stored for a position
  failures,                 \* *[]posFailure, in the order they were appended
  reply,                    \* what client.Embed returned
  calls,                    \* number of client.Embed calls (for the properties only)
  canceled,                 \* ctx.Err() # nil
  err,                      \* runErr
  result                    \* what Run returned

vars == <<inputs, cfg, provider, pc, i, valid, packed, curTok, batchEnds, cuts, done,
          records, failures, reply, calls, canceled, err, result>>

loopVars == <<i, valid, packed, curTok>>
fixedVars == <<inputs, cfg, provider>>

Positions == 1..Len(inputs)

-------------------------------------------------------------------------------
(* Operators. *)

withDefaults(c) ==
  [c EXCEPT !.maxInputs = IF @ <= 0 THEN DefaultMaxBatchInputs ELSE @,
            !.maxTokens = IF @ <= 0 THEN DefaultMaxBatchTokens ELSE @]

tokensFor(in) == IF in.tokenCount > 0 THEN in.tokenCount ELSE in.estimate

(* Mutant: an item is packed by the sum before it. *)
BatchFullIgnoresItem(open, tokens) ==
  open > 0 /\ (open >= cfg.maxInputs \/ curTok > cfg.maxTokens)

(* The open batch is closed before an item that does not fit beside the others;
   an item too large on its own still goes out alone. *)
BatchFull(open, tokens) ==
  open > 0 /\ (open >= cfg.maxInputs \/ curTok + tokens > cfg.maxTokens)

partEnd == Min(cuts)

Part == (done + 1)..partEnd

PartSize == partEnd - done

Slice(S) == {valid[k] : k \in S}

(* Mutant: the vector of the k-th input is taken to be the k-th of the response. *)
vectorForByOrder(k) == reply.ids[k - done]

(* byID[requestID(pos)], the ID standing for the vector that carries it. *)
vectorFor(k) == CHOOSE id \in Range(reply.ids) : id = valid[k]

posFailure(S, why, retry) == [pos |-> Min(S), items |-> S, cause |-> why, retryable |-> retry]

addBatchFailure(why, retry) ==
  failures' = Append(failures, posFailure(Slice(Part), why, retry))

(* The positions with a vector, in input order. *)
recordsInOrder ==
  LET upTo[p \in 0..Len(inputs)] ==
        IF p = 0 THEN <<>>
        ELSE IF records[p] # NoVector THEN Append(upTo[p - 1], p)
        ELSE upTo[p - 1]
  IN  upTo[Len(inputs)]

(* The stable order of failures: g is f, or is sorted before it. *)
NotBehind(g, f) ==
  failures[g].pos < failures[f].pos \/ (failures[g].pos = failures[f].pos /\ g <= f)

Place(f) == Cardinality({g \in DOMAIN failures : NotBehind(g, f)})

failuresInOrder ==
  [n \in DOMAIN failures |-> failures[CHOOSE f \in DOMAIN failures : Place(f) = n]]

(* Mutant: failures in the order they were appended. *)
assembleUnsorted == [records |-> recordsInOrder, failures |-> failures]

assemble == [records |-> recordsInOrder, failures |-> failuresInOrder]

(* The history counter of calls stops one past the bound the properties state. *)
CallCap == 2 * Len(inputs) + 1

NoReply == [err |-> "none", ids |-> <<>>]
NoResult == [records |-> <<>>, failures |-> <<>>]

-------------------------------------------------------------------------------
(* Run: the validation loop and packBatches. *)

Init ==
  /\ inputs \in InputLists
  /\ \E c \in Configs : cfg = withDefaults(c)
  /\ provider \in Providers
  /\ pc = "validate" /\ i = 1 /\ valid = <<>>
  /\ packed = 0 /\ curTok = 0 /\ batchEnds = {} /\ cuts = {} /\ done = 0
  /\ records = [p \in Positions |-> NoVector]
  /\ failures = <<>> /\ reply = NoReply /\ calls = 0
  /\ canceled = FALSE /\ err = "nil" /\ result = NoResult

Validate ==
  /\ pc = "validate" /\ i \in Positions
  /\ i' = i + 1
  /\ \/ /\ inputs[i].wellFormed
        /\ valid' = Append(valid, i)
        /\ UNCHANGED failures
     \/ /\ ~inputs[i].wellFormed
        /\ failures' = Append(failures, posFailure({i}, "invalid", FALSE))
        /\ UNCHANGED valid
  /\ UNCHANGED <<fixedVars, pc, packed, curTok, batchEnds, cuts, done, records, reply, calls,
                 canceled, err, result>>

StartPacking ==
  /\ pc = "validate" /\ i > Len(inputs)
  /\ pc' = "pack" /\ i' = 1
  /\ UNCHANGED <<fixedVars, valid, packed, curTok, batchEnds, cuts, done, records, failures,
                 reply, calls, canceled, err, result>>

Pack ==
  /\ pc = "pack" /\ i <= Len(valid)
  /\ i' = i + 1
  /\ LET tokens == tokensFor(inputs[valid[i]]) IN
       \/ /\ BatchFull(i - 1 - packed, tokens)
          /\ batchEnds' = batchEnds \union {i - 1}
          /\ packed' = i - 1
          /\ curTok' = tokens
       \/ /\ ~BatchFull(i - 1 - packed, tokens)
          /\ curTok' = curTok + tokens
          /\ UNCHANGED <<batchEnds, packed>>
  /\ UNCHANGED <<fixedVars, pc, valid, cuts, done, records, failures, reply, calls,
                 canceled, err, result>>

(* The last, still open batch is appended unless it is empty. *)
FinishPacking ==
  /\ pc = "pack" /\ i > Len(valid)
  /\ pc' = "next"
  /\ batchEnds' = IF packed < Len(valid) THEN batchEnds \union {Len(valid)} ELSE batchEnds
  /\ UNCHANGED <<fixedVars, loopVars, cuts, done, records, failures, reply, calls,
                 canceled, err, result>>

-------------------------------------------------------------------------------
(* Run: the batch loop. *)

CancelBeforeBatch ==
  /\ pc = "next" /\ batchEnds # {} /\ canceled
  /\ err' = "canceled" /\ pc' = "assemble"
  /\ UNCHANGED <<fixedVars, loopVars, batchEnds, cuts, done, records, failures, reply, calls,
                 canceled, result>>

(* Mutant: the next batch starts whatever the state of the context. *)
StartBatchUnchecked ==
  /\ pc = "next" /\ batchEnds # {}
  /\ cuts' = {Min(batchEnds)}
  /\ batchEnds' = batchEnds \ {Min(batchEnds)}
  /\ pc' = "embed"
  /\ UNCHANGED <<fixedVars, loopVars, done, records, failures, reply, calls, canceled, err,
                 result>>

StartBatch ==
  /\ pc = "next" /\ batchEnds # {} /\ ~canceled
  /\ cuts' = {Min(batchEnds)}
  /\ batchEnds' = batchEnds \ {Min(batchEnds)}
  /\ pc' = "embed"
  /\ UNCHANGED <<fixedVars, loopVars, done, records, failures, reply, calls, canceled, err,
                 result>>

FinishBatches ==
  /\ pc = "next" /\ batchEnds = {}
  /\ pc' = "assemble"
  /\ UNCHANGED <<fixedVars, loopVars, batchEnds, cuts, done, records, failures, reply, calls,
                 canceled, err, result>>

Assemble ==
  /\ pc = "assemble"
  /\ result' = assemble
  /\ pc' = "done"
  /\ UNCHANGED <<fixedVars, loopVars, batchEnds, cuts, done, records, failures, reply, calls,
                 canceled, err>>

-------------------------------------------------------------------------------
(* embedBatch. *)

CallEmbed ==
  /\ pc = "embed"
  /\ pc' = "wait"
  /\ calls' = IF calls < CallCap THEN calls + 1 ELSE calls
  /\ UNCHANGED <<fixedVars, loopVars, batchEnds, cuts, done, records, failures, reply,
                 canceled, err, result>>

(* The part is settled: the call returns to the half that is still owed, or to
   the batch loop of Run. *)
Settled ==
  /\ done' = partEnd
  /\ cuts' = cuts \ {partEnd}
  /\ pc' = IF cuts' = {} THEN "next" ELSE "embed"

AbortCanceled ==
  /\ pc = "handle" /\ reply.err # "none"
  /\ canceled \/ reply.err = "canceled"
  /\ err' = "canceled" /\ pc' = "assemble"
  /\ UNCHANGED <<fixedVars, loopVars, batchEnds, cuts, done, records, failures, reply, calls,
                 canceled, result>>

ClientFailed ==
  pc = "handle" /\ reply.err \in {"retryable", "permanent"} /\ ~canceled

(* Mutant: a failing batch is never halved. *)
CanBisectNever == FALSE

CanBisect == ~cfg.disableBisect /\ PartSize > 1

(* Mutant: a batch that failed for the moment goes out again as it is. *)
BisectRetrying ==
  /\ ClientFailed /\ CanBisect
  /\ cuts' = IF reply.err = "retryable" THEN cuts ELSE cuts \union {done + PartSize \div 2}
  /\ pc' = "embed"
  /\ UNCHANGED <<fixedVars, loopVars, batchEnds, done, records, failures, reply, calls,
                 canceled, err, result>>

Bisect ==
  /\ ClientFailed /\ CanBisect
  /\ cuts' = cuts \union {done + PartSize \div 2}
  /\ pc' = "embed"
  /\ UNCHANGED <<fixedVars, loopVars, batchEnds, done, records, failures, reply, calls,
                 canceled, err, result>>

FailBatch ==
  /\ ClientFailed /\ ~CanBisect
  /\ addBatchFailure("error", reply.err = "retryable")
  /\ Settled
  /\ UNCHANGED <<fixedVars, loopVars, batchEnds, records, reply, calls, canceled, err, result>>

OneForEach == IsInjective(reply.ids) /\ Len(reply.ids) = PartSize

(* Mutant: a refused response goes on to the recording loop, which reports the batch
   again for the vector it misses. *)
RejectResponseTwice ==
  /\ pc = "handle" /\ reply.err = "none"
  /\ ~OneForEach
  /\ LET failure == posFailure(Slice(Part), "mismatch", FALSE)
     IN  failures' = failures \o <<failure, failure>>
  /\ Settled
  /\ UNCHANGED <<fixedVars, loopVars, batchEnds, records, reply, calls, canceled, err, result>>

RejectResponse ==
  /\ pc = "handle" /\ reply.err = "none"
  /\ ~OneForEach
  /\ addBatchFailure("mismatch", FALSE)
  /\ Settled
  /\ UNCHANGED <<fixedVars, loopVars, batchEnds, records, reply, calls, canceled, err, result>>

Answered(k) == valid[k] \in Range(reply.ids)

(* The inputs the recording loop passes before it meets one without a vector. *)
Recorded == {k \in Part : \A j \in (done + 1)..k : Answered(j)}

(* Mutant: the recording loop skips an input without a vector. *)
StoreVectorsSkipping ==
  /\ records' = [p \in Positions |->
                   IF \E k \in Part : valid[k] = p /\ Answered(k)
                   THEN p ELSE records[p]]
  /\ UNCHANGED failures

(* Records are stored one by one; the first input without a vector ends the loop
   and reports the whole batch failed, the records already stored included. *)
StoreVectors ==
  /\ records' = [p \in Positions |->
                   IF \E k \in Recorded : valid[k] = p
                   THEN vectorFor(CHOOSE k \in Recorded : valid[k] = p)
                   ELSE records[p]]
  /\ IF Recorded = Part THEN UNCHANGED failures ELSE addBatchFailure("mismatch", FALSE)

RecordResponse ==
  /\ pc = "handle" /\ reply.err = "none"
  /\ OneForEach
  /\ StoreVectors
  /\ Settled
  /\ UNCHANGED <<fixedVars, loopVars, batchEnds, reply, calls, canceled, err, result>>

-------------------------------------------------------------------------------
(* The environment: the embedding client (with its retry middleware) and the caller. *)

Asked == Slice(Part)

Poisoned == \E p \in Asked : inputs[p].poison

Success(ids) == [err |-> "none", ids |-> ids]

Failed(kind) == [err |-> kind, ids |-> <<>>]

Orderings(S) == {Success(ids) : ids \in SetToSeqs(S)}

WithExtra(S, id) == {Success(Append(ids, id)) : ids \in SetToSeqs(S)}

(* What the client may answer the request that is out: the vectors, in any order,
   unless an input is poison, or one of the misbehaviours it may show. *)
Replies ==
  (IF Poisoned THEN {Failed("permanent")} ELSE Orderings(Asked))
  \union (IF "transient" \in provider THEN {Failed("retryable")} ELSE {})
  \union (IF canceled \/ "canceled" \in provider THEN {Failed("canceled")} ELSE {})
  \union (IF "count" \in provider
          THEN (UNION {Orderings(Asked \ {p}) : p \in Asked}) \union WithExtra(Asked, UnknownID)
          ELSE {})
  \union (IF "duplicate" \in provider
          THEN UNION {WithExtra(Asked, p) : p \in Asked}
          ELSE {})
  \union (IF "unknown" \in provider
          THEN UNION {WithExtra(Asked \ {p}, UnknownID) : p \in Asked}
          ELSE {})

ProviderReply ==
  /\ pc = "wait"
  /\ reply' \in Replies
  /\ pc' = "handle"
  /\ UNCHANGED <<fixedVars, loopVars, batchEnds, cuts, done, records, failures, calls,
                 canceled, err, result>>

CancelContext ==
  /\ ~canceled /\ pc # "done"
  /\ canceled' = TRUE
  /\ UNCHANGED <<fixedVars, pc, loopVars, batchEnds, cuts, done, records, failures, reply,
                 calls, err, result>>

-------------------------------------------------------------------------------
RunStep ==
  \/ Validate \/ StartPacking \/ Pack \/ FinishPacking
  \/ CancelBeforeBatch \/ StartBatch \/ FinishBatches \/ Assemble
  \/ CallEmbed \/ AbortCanceled \/ Bisect \/ FailBatch \/ RejectResponse \/ RecordResponse

(* Run has returned. *)
Terminated == pc = "done" /\ UNCHANGED vars

Next == RunStep \/ ProviderReply \/ CancelContext \/ Terminated

Spec == Init /\ [][Next]_vars

(* Run is ordinary sequential code, and a call of the client returns: the runner
   sets no deadline of its own, it relies on the client's timeouts.  Nobody has
   to cancel the context. *)
FairSpec == Spec /\ WF_vars(RunStep) /\ WF_vars(ProviderReply)
-------------------------------------------------------------------------------
(* Properties. *)

ReplyType == [err : {"none", "retryable", "permanent", "canceled"}, ids : Seq(Nat \union {UnknownID})]

FailureType ==
  [pos : Nat, items : SUBSET Positions, cause : {"invalid", "error", "mismatch"},
   retryable : BOOLEAN]

(* Every variable of the run has its type. *)
TypeOK ==
  /\ inputs \in Seq(InputKinds)
  /\ cfg \in [maxInputs : Nat \ {0}, maxTokens : Nat \ {0}, disableBisect : BOOLEAN]
  /\ provider \in SUBSET Faults
  /\ pc \in {"validate", "pack", "next", "embed", "wait", "handle", "assemble", "done"}
  /\ i \in Nat /\ packed \in Nat /\ curTok \in Nat /\ done \in Nat /\ calls \in Nat
  /\ valid \in Seq(Positions)
  /\ batchEnds \in SUBSET Nat /\ cuts \in SUBSET Nat
  /\ records \in [Positions -> Nat \union {UnknownID, NoVector}]
  /\ failures \in Seq(FailureType)
  /\ reply \in ReplyType
  /\ canceled \in BOOLEAN
  /\ err \in {"nil", "canceled"}

HasRecord(p) == records[p] # NoVector

HasFailure(p) == \E f \in DOMAIN failures : p \in failures[f].items

Accounted(p) == HasRecord(p) \/ HasFailure(p)

(* Run loses no input: when it returns nil every input is in the records or in a
   failure, and when it is canceled the inputs in neither are the tail of the
   valid ones, so re-running from the first missing input re-runs exactly them
   (the promise of Run's comment, whatever batches, halves and replies it met). *)
NoInputLost ==
  pc \in {"assemble", "done"} =>
    /\ err = "nil" => \A p \in Positions : Accounted(p)
    /\ \A p, q \in Positions :
         inputs[p].wellFormed /\ inputs[q].wellFormed /\ p < q /\ Accounted(q) => Accounted(p)

(* No input is reported in two failures, and only a mismatched response leaves an
   input both embedded and failed: bisection, retries of halves and cancellation
   never report an input twice. *)
ReportedOnce ==
  /\ \A f, g \in DOMAIN failures : f # g => failures[f].items \intersect failures[g].items = {}
  /\ \A f \in DOMAIN failures : \A p \in failures[f].items :
       HasRecord(p) => failures[f].cause = "mismatch"

(* What the comment of embedBatch says of a mismatched response, that the batch
   fails as a unit: no input is both a record and a failure. *)
RecordsAndFailuresDisjoint ==
  \A p \in Positions : ~(HasRecord(p) /\ HasFailure(p))

(* The vector recorded for an input is the one the response tagged with that
   input's request ID, in whatever order the vectors came back. *)
VectorMatchesInput == \A p \in Positions : HasRecord(p) => records[p] = p

(* Bisection isolates durable poison exactly: with a client that fails only for
   poison, each poison input ends as a failure of its own and all of its
   batch-mates are embedded. *)
PoisonIsolated ==
  pc = "done" /\ err = "nil" /\ provider = {} /\ ~cfg.disableBisect =>
    \A p \in Positions : inputs[p].wellFormed =>
      /\ HasRecord(p) <=> ~inputs[p].poison
      /\ inputs[p].poison => \E f \in DOMAIN failures : failures[f].items = {p}

(* Isolating poison costs less than two calls for each valid input, so a failing
   provider is not hammered. *)
CallsBounded == calls = 0 \/ calls < 2 * Len(valid)

(* The tokens of the valid inputs behind x, up to and with y. *)
TokenSum(x, y) ==
  LET sum[k \in x..y] == IF k = x THEN 0 ELSE sum[k - 1] + tokensFor(inputs[valid[k]])
  IN  sum[y]

(* Every request keeps to both batch limits, unless a single input is over the
   token limit on its own, and is never empty. *)
RequestWithinLimits ==
  pc = "wait" =>
    /\ PartSize \in 1..cfg.maxInputs
    /\ PartSize > 1 => TokenSum(done, partEnd) <= cfg.maxTokens

(* The result lists the records in input order and the failures by the first
   input they cover, and is all that was gathered. *)
ResultInInputOrder ==
  pc = "done" =>
    /\ Range(result.records) = {p \in Positions : HasRecord(p)}
    /\ \A j, k \in DOMAIN result.records : j < k => result.records[j] < result.records[k]
    /\ Len(result.failures) = Len(failures)
    /\ Range(result.failures) = Range(failures)
    /\ \A j, k \in DOMAIN result.failures :
         j < k => result.failures[j].pos < result.failures[k].pos

CancelStep ==
  canceled =>
    /\ pc \in {"next", "embed", "wait", "handle"} => batchEnds' = batchEnds
    /\ pc = "handle" /\ reply.err # "none" =>
         failures' = failures /\ calls' = calls /\ pc' = "assemble"

(* After the context is canceled no further batch is taken up, and a client error
   is never turned into a failure or into further halves. *)
CancelHonoured == [][CancelStep]_vars

(* Run returns, whatever the client answers and whether or not it is canceled. *)
RunReturns == <>(pc = "done")

(* Run implements the contract of module EmbedContract. *)
Contract == INSTANCE EmbedContract WITH
  Lengths <- {Len(list) : list \in InputLists},
  outcome <- [p \in Positions |-> (IF HasRecord(p) THEN {"record"} ELSE {})
                                  \union (IF HasFailure(p) THEN {"failure"} ELSE {})],
  status <- IF pc = "done" THEN err ELSE "running"

ImplementsContract == Contract!Spec
==============================================================================
