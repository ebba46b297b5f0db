---------------------------- MODULE StoresProofs ----------------------------
(* The proofs that both stores implement the store contract, that they read ranges alike and
   as it says, and that their listings are faithful: for every set of callers, keys and
   bodies, with every failure the two models have. *)
EXTENDS Stores, TLAPS, FiniteSetTheorems, SequenceTheorems, NaturalsInduction, WellFoundedInduction

None == [op |-> "none"]

Calls == Contract!Calls

(* The places of a caller at which a call of its own or of its callback runs. *)
Busy == {"copying", "closing", "aborting", "requested", "served", "refused",
         "reading", "locking", "locked", "unlocked"}

Places == Busy \union {"idle", "listLocking", "listLocked", "listing", "callback", "aborted"}

(* What is so of a caller at place p with call o, the store's decision r and the writer's
   buffer b: it has a call where one runs, the decision is made once and kept until the call
   returns, and what the service commits is the body. *)
Caller(p, o, r, b) ==
  /\ p \in Places /\ o \in Calls \union {None} /\ r \in {"none", "ok", "notfound"} /\ b \in Seq(STRING)
  /\ o # None <=> p \in Busy
  /\ r # "none" <=> p \in {"served", "unlocked"}
  /\ p \in {"copying", "closing", "aborting", "reading"} => o.op = "put"
  /\ p = "copying" => Len(b) <= Len(o.body) /\ \A j \in 1..Len(b) : b[j] = o.body[j]
  /\ p = "closing" => b = o.body
  /\ p = "requested" => o.op # "put"
  /\ p \in {"requested", "locking", "locked"} /\ o.op = "compose" => Len(o.srcs) \in 1..MaxComposeSources
  /\ p \notin {"copying", "closing", "aborting", "served"} => b = <<>>

Whole(f) == f = [c \in Clients |-> f[c]]

IInv ==
  /\ Whole(pc) /\ Whole(call) /\ Whole(reply) /\ Whole(buf)
  /\ \A c \in Clients : Caller(pc[c], call[c], reply[c], buf[c])

(* One caller moves from state to state, the others stay. *)
Moves(c, p, o, r, b) ==
  /\ pc' = [pc EXCEPT ![c] = p] /\ call' = [call EXCEPT ![c] = o]
  /\ reply' = [reply EXCEPT ![c] = r] /\ buf' = [buf EXCEPT ![c] = b]

(* A function that changes at one place at most. *)
LEMMA Same ==
  ASSUME NEW f, Whole(f), NEW c \in Clients
  PROVE  [f EXCEPT ![c] = f[c]] = f
  BY DEF Whole

(* One caller that moves to a state that may be keeps the invariant. *)
LEMMA MovePreserves ==
  ASSUME IInv, NEW c \in Clients, NEW p, NEW o, NEW r, NEW b, Moves(c, p, o, r, b), Caller(p, o, r, b)
  PROVE  IInv'
<1>1. Whole(pc)' /\ Whole(call)' /\ Whole(reply)' /\ Whole(buf)'
  BY DEF IInv, Moves, Whole
<1>2. ASSUME NEW d \in Clients PROVE Caller(pc'[d], call'[d], reply'[d], buf'[d])
  <2>1. CASE d = c
    <3>1. pc'[d] = p /\ call'[d] = o /\ reply'[d] = r /\ buf'[d] = b
      BY <2>1 DEF IInv, Moves, Whole
    <3> QED
      BY <3>1
  <2>2. CASE d # c
    <3>1. pc'[d] = pc[d] /\ call'[d] = call[d] /\ reply'[d] = reply[d] /\ buf'[d] = buf[d]
      BY <2>2 DEF IInv, Moves, Whole
    <3> QED
      BY <3>1 DEF IInv
  <2> QED
    BY <2>1, <2>2
<1> QED
  BY <1>1, <1>2 DEF IInv

-------------------------------------------------------------------------------
(* What the contract sees of a caller's moves. *)

Answers == [c \in Clients |-> Gcs!answerOf(call[c].op, reply[c])]

(* A decision is none only before it is made. *)
LEMMA AnswerKinds ==
  ASSUME NEW op, NEW r
  PROVE  /\ Gcs!answerOf(op, r) = "none" <=> r = "none"
         /\ Mem!answerOf(op, r) = Gcs!answerOf(op, r)
  BY DEF Gcs!answerOf, Mem!answerOf

(* A call starts. *)
LEMMA StartMaps ==
  ASSUME IInv, NEW c \in Clients, NEW o \in Calls, call[c] = None,
         call' = [call EXCEPT ![c] = o], res' = [res EXCEPT ![c] = [op |-> "none", kind |-> "none"]],
         UNCHANGED <<objects, reply>>
  PROVE  Contract!Invoke(c)
<1>1. call'[c] = o /\ \A d \in Clients : d # c => call'[d] = call[d]
  BY DEF IInv, Whole
<1>2. reply[c] = "none"
  BY DEF IInv, Caller, Busy
<1>3. ASSUME NEW d \in Clients PROVE Gcs!answerOf(call'[d].op, reply[d]) = Gcs!answerOf(call[d].op, reply[d])
  BY <1>1, <1>2 DEF Gcs!answerOf
<1>4. Answers' = Answers
  BY <1>3 DEF Answers
<1> QED
  BY <1>1, <1>4 DEF Contract!Invoke, Contract!NoCall, Contract!NoResult, Answers, None, Calls

(* The store decides. *)
LEMMA ServeMaps ==
  ASSUME IInv, NEW c \in Clients, NEW r \in {"ok", "notfound"},
         call[c] # None, reply[c] = "none", reply' = [reply EXCEPT ![c] = r],
         UNCHANGED <<call, res>>,
         \/ Contract!ServePut(call[c], Gcs!answerOf(call[c].op, r))
         \/ Contract!ServeDelete(call[c], Gcs!answerOf(call[c].op, r))
         \/ Contract!ServeCompose(call[c], Gcs!answerOf(call[c].op, r))
  PROVE  Contract!Serve(c)
<1> DEFINE kind == Gcs!answerOf(call[c].op, r)
<1>1. reply'[c] = r /\ \A d \in Clients : d # c => reply'[d] = reply[d]
  BY DEF IInv, Whole
<1>2. kind \in {"ok", "notfound"}
  BY DEF Gcs!answerOf
<1>3. Answers' = [Answers EXCEPT ![c] = kind]
  <2>1. ASSUME NEW d \in Clients
        PROVE  Gcs!answerOf(call'[d].op, reply'[d]) = IF d = c THEN kind ELSE Answers[d]
    BY <1>1 DEF Answers
  <2> HIDE DEF kind
  <2> QED
    BY <2>1 DEF Answers
<1>4. Answers[c] = "none"
  BY AnswerKinds DEF Answers
<1> QED
  BY <1>2, <1>3, <1>4 DEF Contract!Serve, Contract!NoCall, Answers, None

(* A call returns. *)
LEMMA RespondMaps ==
  ASSUME IInv, NEW c \in Clients, call[c] # None,
         NEW kind, kind = "error" \/ (reply[c] # "none" /\ kind = Gcs!answerOf(call[c].op, reply[c])),
         res' = [res EXCEPT ![c] = [op |-> call[c].op, kind |-> kind]],
         call' = [call EXCEPT ![c] = None], reply' = [reply EXCEPT ![c] = "none"],
         UNCHANGED objects
  PROVE  Contract!Respond(c)
<1>1. reply'[c] = "none" /\ \A d \in Clients : d # c => reply'[d] = reply[d] /\ call'[d] = call[d]
  BY DEF IInv, Whole
<1>2. Answers' = [Answers EXCEPT ![c] = "none"]
  <2>1. Gcs!answerOf(call'[c].op, reply'[c]) = "none"
    BY <1>1, AnswerKinds
  <2>2. ASSUME NEW d \in Clients
        PROVE  Gcs!answerOf(call'[d].op, reply'[d]) = IF d = c THEN "none" ELSE Answers[d]
    BY <1>1, <2>1 DEF Answers
  <2> QED
    BY <2>2 DEF Answers
<1>3. kind \in {"error", Answers[c]} \ {"none"}
  BY AnswerKinds DEF Answers
<1> QED
  BY <1>2, <1>3 DEF Contract!Respond, Contract!NoCall, Answers, None

(* Everything else is a stutter. *)
LEMMA QuietMaps ==
  ASSUME UNCHANGED <<objects, call, reply, res>>
  PROVE  UNCHANGED Contract!vars
  BY DEF Contract!vars

-------------------------------------------------------------------------------
(* The steps of the two stores. *)

(* A step of caller c keeps the invariant and is one of the contract. *)
Sound(c) ==
  /\ IInv'
  /\ Contract!Invoke(c) \/ Contract!Serve(c) \/ Contract!Respond(c) \/ UNCHANGED Contract!vars

(* A caller starts a call, of its own or in a callback. *)
LEMMA StartSound ==
  ASSUME IInv, NEW c \in Clients, pc[c] \in {"idle", "callback"}, NEW o \in Calls,
         NEW p \in {"copying", "requested", "refused", "reading", "locking"},
         pc' = [pc EXCEPT ![c] = p], call' = [call EXCEPT ![c] = o],
         res' = [res EXCEPT ![c] = [op |-> "none", kind |-> "none"]], UNCHANGED <<objects, reply, buf>>,
         p \in {"copying", "reading"} <=> o.op = "put",
         p \in {"requested", "locking"} /\ o.op = "compose" => Len(o.srcs) \in 1..MaxComposeSources
  PROVE  Sound(c)
<1>1. call[c] = None /\ reply[c] = "none" /\ buf[c] = <<>>
  BY DEF IInv, Caller, Busy
<1>2. Moves(c, p, o, reply[c], buf[c])
  BY Same DEF IInv, Moves
<1>3. o # None
  BY DEF Calls, Contract!Calls, None
<1>4. o.op = "put" => o.body \in Seq(STRING)
  BY StoresAssumption DEF Calls, Contract!Calls
<1>5. Len(<<>>) = 0 /\ <<>> \in Seq(STRING)
  OBVIOUS
<1>6. o.op = "put" => Len(o.body) \in Nat
  BY <1>4
<1>7. Caller(p, o, "none", <<>>)
  BY <1>3, <1>4, <1>5, <1>6 DEF Caller, Busy, Places
<1>8. IInv'
  BY <1>1, <1>2, <1>7, MovePreserves
<1> QED
  BY <1>1, <1>8, StartMaps DEF Sound

(* A caller's call returns, and to a listing if a callback made it. *)
LEMMA ReturnSound ==
  ASSUME IInv, NEW c \in Clients, pc[c] \in Busy, NEW p \in {"idle", "listing", "aborted"},
         NEW kind, kind = "error" \/ (reply[c] # "none" /\ kind = Gcs!answerOf(call[c].op, reply[c])),
         pc' = [pc EXCEPT ![c] = p], call' = [call EXCEPT ![c] = None],
         reply' = [reply EXCEPT ![c] = "none"],
         res' = [res EXCEPT ![c] = [op |-> call[c].op, kind |-> kind]],
         buf' = [buf EXCEPT ![c] = <<>>], UNCHANGED objects
  PROVE  Sound(c)
<1>1. call[c] # None
  BY DEF IInv, Caller
<1>2. Moves(c, p, None, "none", <<>>)
  BY DEF Moves
<1>3. <<>> \in Seq(STRING)
  OBVIOUS
<1>4. Caller(p, None, "none", <<>>)
  BY <1>3 DEF Caller, Busy, Places, None
<1>5. IInv'
  BY <1>2, <1>4, MovePreserves
<1> QED
  BY <1>1, <1>5, RespondMaps DEF Sound

(* The store decides about a call. *)
LEMMA ServeSound ==
  ASSUME IInv, NEW c \in Clients, pc[c] \in {"closing", "requested", "locked"},
         NEW p \in {"served", "unlocked"}, NEW r \in {"ok", "notfound"},
         p = "unlocked" => pc[c] = "locked",
         pc' = [pc EXCEPT ![c] = p], reply' = [reply EXCEPT ![c] = r], UNCHANGED <<call, buf, res>>,
         \/ Contract!ServePut(call[c], Gcs!answerOf(call[c].op, r))
         \/ Contract!ServeDelete(call[c], Gcs!answerOf(call[c].op, r))
         \/ Contract!ServeCompose(call[c], Gcs!answerOf(call[c].op, r))
  PROVE  Sound(c)
<1>1. call[c] # None /\ reply[c] = "none"
  BY DEF IInv, Caller, Busy
<1>2. Moves(c, p, call[c], r, buf[c])
  BY Same DEF IInv, Moves
<1>3. Caller(pc[c], call[c], reply[c], buf[c])
  BY DEF IInv
<1>4. p = "unlocked" => buf[c] = <<>>
  BY <1>3 DEF Caller
<1>5. Caller(p, call[c], r, buf[c])
  BY <1>1, <1>3, <1>4 DEF Caller, Busy, Places
<1>6. IInv'
  BY <1>2, <1>5, MovePreserves
<1> QED
  BY <1>1, <1>6, ServeMaps DEF Sound

(* A step between two places the contract does not see. *)
LEMMA QuietSound ==
  ASSUME IInv, NEW c \in Clients, NEW p, NEW b,
         pc' = [pc EXCEPT ![c] = p], buf' = [buf EXCEPT ![c] = b],
         UNCHANGED <<objects, call, reply, res>>, Caller(p, call[c], reply[c], b)
  PROVE  Sound(c)
<1>1. Moves(c, p, call[c], reply[c], b)
  BY Same DEF IInv, Moves
<1> QED
  BY <1>1, MovePreserves, QuietMaps DEF Sound

-------------------------------------------------------------------------------
(* The Cloud Storage adapter. *)

(* Its calls start as the contract's. *)
LEMMA GcsStartSound ==
  ASSUME IInv, NEW c \in Clients, Gcs!StartStep(c) \/ Gcs!FnDeletes(c)
  PROVE  Sound(c)
<1> USE DEF Gcs!Start, Gcs!Goto, Gcs!NoResult
<1>1. ASSUME NEW k \in Keys, NEW b \in Bodies, Gcs!PutStart(c, k, b) PROVE Sound(c)
  <2> DEFINE o == [op |-> "put", key |-> k, body |-> b]
  <2>1. o \in Calls /\ o.op = "put"
    BY DEF Calls, Contract!Calls
  <2> QED
    BY <1>1, <2>1, StartSound DEF Gcs!PutStart
<1>2. ASSUME NEW k \in Keys, NEW op \in {"delete", "deleteIfExists"}, pc[c] \in {"idle", "callback"},
             Gcs!Start(c, [op |-> op, key |-> k], "requested")
      PROVE  Sound(c)
  <2> DEFINE o == [op |-> op, key |-> k]
  <2>1. o \in Calls /\ o.op \notin {"put", "compose"}
    BY DEF Calls, Contract!Calls
  <2> QED
    BY <1>2, <2>1, StartSound
<1>3. ASSUME NEW k \in Keys, NEW srcs \in SourceLists, Gcs!ComposeStart(c, k, srcs) PROVE Sound(c)
  <2> DEFINE o == [op |-> "compose", key |-> k, srcs |-> srcs]
             p == IF Len(srcs) \in 1..MaxComposeSources THEN "requested" ELSE "refused"
  <2>1. o \in Calls /\ o.op = "compose" /\ o.srcs = srcs
    BY StoresAssumption DEF Calls, Contract!Calls
  <2>2. p \in {"requested", "refused"} /\ (p = "requested" => Len(srcs) \in 1..MaxComposeSources)
    OBVIOUS
  <2>3. /\ pc[c] = "idle" /\ pc' = [pc EXCEPT ![c] = p] /\ call' = [call EXCEPT ![c] = o]
        /\ res' = [res EXCEPT ![c] = [op |-> "none", kind |-> "none"]] /\ UNCHANGED <<objects, reply, buf>>
    BY <1>3 DEF Gcs!ComposeStart
  <2> HIDE DEF o, p
  <2> QED
    BY <2>1, <2>2, <2>3, StartSound
<1>4. ASSUME NEW prefix \in PrefixSets, Gcs!ListStart(c, prefix) PROVE Sound(c)
  <2>1. Caller("listing", call[c], reply[c], buf[c])
    BY <1>4 DEF IInv, Gcs!ListStart, Caller, Busy, Places
  <2>2. buf' = [buf EXCEPT ![c] = buf[c]]
    BY <1>4, Same DEF IInv, Gcs!ListStart
  <2> QED
    BY <1>4, <2>1, <2>2, QuietSound DEF Gcs!ListStart
<1> QED
  BY <1>1, <1>2, <1>3, <1>4 DEF Gcs!StartStep, Gcs!FnDeletes, Gcs!DeleteStart

(* It puts a body block by block, and commits it as a whole or not at all. *)
LEMMA GcsPutSound ==
  ASSUME IInv, NEW c \in Clients, Gcs!PutStep(c)
  PROVE  Sound(c)
<1> USE DEF Gcs!Goto
<1>1. Caller(pc[c], call[c], reply[c], buf[c])
  BY DEF IInv
<1>2. CASE Gcs!CopyBlock(c)
  <2> DEFINE b == Append(buf[c], call[c].body[Len(buf[c]) + 1])
  <2>1. call[c] \in Calls /\ call[c].op = "put" /\ pc[c] = "copying" /\ buf[c] \in Seq(STRING)
        /\ Len(buf[c]) < Len(call[c].body)
    BY <1>1, <1>2 DEF Caller, Busy, Gcs!CopyBlock, None
  <2>2. call[c].body \in Seq(STRING)
    BY <2>1, StoresAssumption DEF Calls, Contract!Calls
  <2>3. b \in Seq(STRING) /\ Len(b) <= Len(call[c].body)
        /\ \A j \in 1..Len(b) : b[j] = call[c].body[j]
    BY <1>1, <2>1, <2>2 DEF Caller
  <2>4. Caller("copying", call[c], reply[c], b)
    BY <1>1, <2>1, <2>3 DEF Caller, Busy, Places
  <2>5. buf' = [buf EXCEPT ![c] = b] /\ UNCHANGED <<objects, pc, call, reply, res>>
    BY <1>2 DEF Gcs!CopyBlock
  <2>6. pc' = [pc EXCEPT ![c] = "copying"]
    BY <2>1, <2>5, Same DEF IInv
  <2> HIDE DEF b
  <2> QED
    BY <2>4, <2>5, <2>6, QuietSound
<1>3. CASE Gcs!CopyDone(c)
  <2>1. call[c] \in Calls /\ call[c].op = "put" /\ pc[c] = "copying" /\ buf[c] \in Seq(STRING)
        /\ Len(buf[c]) = Len(call[c].body)
    BY <1>1, <1>3 DEF Caller, Busy, Gcs!CopyDone, None
  <2>2. call[c].body \in Seq(STRING)
    BY <2>1, StoresAssumption DEF Calls, Contract!Calls
  <2>3. buf[c] = call[c].body
    BY <1>1, <2>1, <2>2 DEF Caller
  <2>4. Caller("closing", call[c], reply[c], buf[c])
    BY <1>1, <2>1, <2>3 DEF Caller, Busy, Places
  <2>5. buf' = [buf EXCEPT ![c] = buf[c]]
    BY <1>3, Same DEF IInv, Gcs!CopyDone
  <2> QED
    BY <1>3, <2>4, <2>5, QuietSound DEF Gcs!CopyDone
<1>4. CASE Gcs!CopyFails(c)
  <2>1. Caller("aborting", call[c], reply[c], buf[c])
    BY <1>1, <1>4 DEF Caller, Busy, Places, Gcs!CopyFails
  <2>2. buf' = [buf EXCEPT ![c] = buf[c]]
    BY <1>4, Same DEF IInv, Gcs!CopyFails
  <2> QED
    BY <1>4, <2>1, <2>2, QuietSound DEF Gcs!CopyFails
<1>5. CASE Gcs!CloseAborted(c)
  BY <1>5, ReturnSound DEF Gcs!CloseAborted, Gcs!Return, Gcs!NoCall, None, Busy
<1>6. CASE Gcs!Finalize(c)
  <2>1. call[c].op = "put" /\ buf[c] = call[c].body /\ pc[c] = "closing"
    BY <1>1, <1>6 DEF Caller, Gcs!Finalize
  <2>2. Contract!With(call[c].key, call[c].body) = Gcs!With(call[c].key, call[c].body)
    BY Zenon DEF Contract!With, Gcs!With
  <2>3. Contract!ServePut(call[c], Gcs!answerOf(call[c].op, "ok"))
    BY <1>6, <2>1, <2>2 DEF Gcs!Finalize, Gcs!answerOf, Contract!ServePut
  <2> QED
    BY <1>6, <2>1, <2>3, ServeSound DEF Gcs!Finalize
<1> QED
  BY <1>2, <1>3, <1>4, <1>5, <1>6 DEF Gcs!PutStep

(* A deletion or a composition takes effect once, or it is lost. *)
LEMMA GcsRequestSound ==
  ASSUME IInv, NEW c \in Clients,
         Gcs!RequestStep(c) \/ Gcs!RequestLost(c) \/ Gcs!Answered(c)
  PROVE  Sound(c)
<1> USE DEF Gcs!Goto
<1>1. Caller(pc[c], call[c], reply[c], buf[c])
  BY DEF IInv
<1>2. ASSUME NEW kind, pc[c] \in Busy, Gcs!Return(c, kind), UNCHANGED objects,
             kind = "error" \/ (reply[c] # "none" /\ kind = Gcs!answerOf(call[c].op, reply[c]))
      PROVE  Sound(c)
  <2> DEFINE p == IF ~listing[c].active THEN "idle" ELSE IF kind = "ok" THEN "listing" ELSE "aborted"
  <2>1. p \in {"idle", "listing", "aborted"}
    OBVIOUS
  <2>2. pc' = [pc EXCEPT ![c] = p]
    BY <1>2 DEF Gcs!Return
  <2> HIDE DEF p
  <2> QED
    BY <1>2, <2>1, <2>2, ReturnSound DEF Gcs!Return, Gcs!NoCall, None
<1>3. CASE Gcs!Refuse(c)
  BY <1>2, <1>3 DEF Gcs!Refuse, Busy
<1>4. CASE Gcs!RequestLost(c)
  BY <1>2, <1>4 DEF Gcs!RequestLost, Busy
<1>5. CASE Gcs!Answered(c)
  BY <1>1, <1>2, <1>5 DEF Gcs!Answered, Busy, Caller
<1>6. CASE Gcs!ServeDelete(c)
  <2> DEFINE r == IF Gcs!Stored(call[c].key) THEN "ok" ELSE "notfound"
  <2>1. Contract!Without(call[c].key) = Gcs!Without(call[c].key)
    BY Zenon DEF Contract!Without, Gcs!Without, Contract!Restrict, Gcs!Restrict
  <2>2. Contract!ServeDelete(call[c], Gcs!answerOf(call[c].op, r))
    BY <1>6, <2>1 DEF Gcs!ServeDelete, Gcs!answerOf, Gcs!Stored, Contract!ServeDelete, Contract!Missing
  <2>3. r \in {"ok", "notfound"}
    OBVIOUS
  <2>4. pc[c] = "requested" /\ pc' = [pc EXCEPT ![c] = "served"] /\ reply' = [reply EXCEPT ![c] = r]
        /\ UNCHANGED <<call, buf, res>>
    BY <1>6 DEF Gcs!ServeDelete
  <2> HIDE DEF r
  <2> QED
    BY <2>2, <2>3, <2>4, ServeSound
<1>7. CASE Gcs!ServeCompose(c)
  <2>1. pc[c] = "requested" /\ call[c].op = "compose" /\ Len(call[c].srcs) \in 1..MaxComposeSources
    BY <1>1, <1>7 DEF Gcs!ServeCompose, Caller
  <2>2. \A s : Contract!FlattenSeq(s) = Gcs!FlattenSeq(s)
    BY Zenon DEF Contract!FlattenSeq, Gcs!FlattenSeq
  <2>3. \A k, d : Contract!With(k, d) = Gcs!With(k, d)
    BY Zenon DEF Contract!With, Gcs!With
  <2>4. PICK r \in {"ok", "notfound"} :
          reply' = [reply EXCEPT ![c] = r] /\ Contract!ServeCompose(call[c], r)
    <3>1. CASE Gcs!ToSet(call[c].srcs) \subseteq DOMAIN objects
      <4>1. \A i \in DOMAIN call[c].srcs : ~Contract!Missing(call[c].srcs[i])
        BY <3>1 DEF Gcs!ToSet, Contract!Missing
      <4>2. /\ objects' = Contract!With(call[c].key, Contract!FlattenSeq([i \in DOMAIN call[c].srcs |-> objects[call[c].srcs[i]]]))
            /\ reply' = [reply EXCEPT ![c] = "ok"]
        BY <1>7, <2>2, <2>3, <3>1 DEF Gcs!ServeCompose
      <4> QED
        BY <2>1, <4>1, <4>2 DEF Contract!ServeCompose
    <3>2. CASE ~(Gcs!ToSet(call[c].srcs) \subseteq DOMAIN objects)
      <4>1. \E i \in DOMAIN call[c].srcs : Contract!Missing(call[c].srcs[i])
        BY <3>2 DEF Gcs!ToSet, Contract!Missing
      <4>2. reply' = [reply EXCEPT ![c] = "notfound"] /\ UNCHANGED objects
        BY <1>7, <3>2 DEF Gcs!ServeCompose
      <4> QED
        BY <2>1, <4>1, <4>2 DEF Contract!ServeCompose
    <3> QED
      BY <3>1, <3>2
  <2>5. Gcs!answerOf(call[c].op, r) = r
    BY <2>1 DEF Gcs!answerOf
  <2> QED
    BY <1>7, <2>1, <2>4, <2>5, ServeSound DEF Gcs!ServeCompose
<1> QED
  BY <1>3, <1>4, <1>5, <1>6, <1>7 DEF Gcs!RequestStep

(* The contract does not see a listing. *)
LEMMA GcsListSound ==
  ASSUME IInv, NEW c \in Clients, Gcs!ListStep(c), ~Gcs!FnDeletes(c)
  PROVE  Sound(c)
<1>1. CASE Gcs!NextPage(c)
  <2>1. UNCHANGED <<objects, pc, call, buf, reply, res>>
    BY <1>1, Zenon DEF Gcs!NextPage
  <2> QED
    BY <2>1, MovePreserves, QuietMaps, Same DEF IInv, Sound, Moves
<1>2. ASSUME NEW p \in {"listing", "callback", "aborted", "idle"}, pc' = [pc EXCEPT ![c] = p],
             UNCHANGED <<objects, call, buf, reply, res>>, pc[c] \in {"listing", "callback", "aborted"}
      PROVE  Sound(c)
  <2>1. Caller(p, call[c], reply[c], buf[c])
    BY <1>2 DEF IInv, Caller, Busy, Places
  <2>2. buf' = [buf EXCEPT ![c] = buf[c]]
    BY <1>2, Same DEF IInv
  <2> QED
    BY <1>2, <2>1, <2>2, QuietSound
<1>3. CASE Gcs!ListTells(c)
  BY <1>2, <1>3 DEF Gcs!ListTells, Gcs!Goto
<1>4. CASE Gcs!FnReturns(c)
  BY <1>2, <1>4 DEF Gcs!FnReturns, Gcs!Goto
<1>5. CASE Gcs!ListDone(c)
  BY <1>2, <1>5 DEF Gcs!ListDone, Gcs!ListReturns, Gcs!Goto
<1>6. CASE Gcs!ListFails(c)
  BY <1>2, <1>6 DEF Gcs!ListFails, Gcs!ListReturns, Gcs!Goto
<1> QED
  BY <1>1, <1>3, <1>4, <1>5, <1>6 DEF Gcs!ListStep

-------------------------------------------------------------------------------
(* The in-memory store, whose callers never touch a writer's buffer. *)

(* Its calls start as the contract's. *)
LEMMA MemStartSound ==
  ASSUME IInv, NEW c \in Clients, Mem!StartStep(c) \/ Mem!FnDeletes(c), UNCHANGED buf
  PROVE  Sound(c)
<1> USE DEF Mem!Start, Mem!Goto, Mem!NoResult
<1>1. ASSUME NEW k \in Keys, NEW b \in Bodies, Mem!PutStart(c, k, b) PROVE Sound(c)
  <2> DEFINE o == [op |-> "put", key |-> k, body |-> b]
  <2>1. o \in Calls /\ o.op = "put"
    BY DEF Calls, Contract!Calls
  <2> QED
    BY <1>1, <2>1, StartSound DEF Mem!PutStart
<1>2. ASSUME NEW k \in Keys, NEW op \in {"delete", "deleteIfExists"}, pc[c] \in {"idle", "callback"},
             Mem!Start(c, [op |-> op, key |-> k], "locking")
      PROVE  Sound(c)
  <2> DEFINE o == [op |-> op, key |-> k]
  <2>1. o \in Calls /\ o.op \notin {"put", "compose"}
    BY DEF Calls, Contract!Calls
  <2> QED
    BY <1>2, <2>1, StartSound
<1>3. ASSUME NEW k \in Keys, NEW srcs \in SourceLists, Mem!ComposeStart(c, k, srcs) PROVE Sound(c)
  <2> DEFINE o == [op |-> "compose", key |-> k, srcs |-> srcs]
             p == IF Len(srcs) \in 1..MaxComposeSources THEN "locking" ELSE "refused"
  <2>1. o \in Calls /\ o.op = "compose" /\ o.srcs = srcs
    BY StoresAssumption DEF Calls, Contract!Calls
  <2>2. p \in {"locking", "refused"} /\ (p = "locking" => Len(srcs) \in 1..MaxComposeSources)
    OBVIOUS
  <2>3. /\ pc[c] = "idle" /\ pc' = [pc EXCEPT ![c] = p] /\ call' = [call EXCEPT ![c] = o]
        /\ res' = [res EXCEPT ![c] = [op |-> "none", kind |-> "none"]] /\ UNCHANGED <<objects, reply, buf>>
    BY <1>3 DEF Mem!ComposeStart
  <2> HIDE DEF o, p
  <2> QED
    BY <2>1, <2>2, <2>3, StartSound
<1>4. ASSUME NEW prefix \in PrefixSets, Mem!ListStart(c, prefix) PROVE Sound(c)
  <2>1. Caller("listLocking", call[c], reply[c], buf[c])
    BY <1>4 DEF IInv, Mem!ListStart, Caller, Busy, Places
  <2>2. buf' = [buf EXCEPT ![c] = buf[c]]
    BY Same DEF IInv
  <2> QED
    BY <1>4, <2>1, <2>2, QuietSound DEF Mem!ListStart
<1> QED
  BY <1>1, <1>2, <1>3, <1>4 DEF Mem!StartStep, Mem!FnDeletes, Mem!DeleteStart

(* A call returns what its critical section found. *)
LEMMA MemReturnSound ==
  ASSUME IInv, NEW c \in Clients, NEW kind, pc[c] \in {"reading", "refused", "unlocked"},
         Mem!Return(c, kind), UNCHANGED buf,
         kind = "error" \/ (reply[c] # "none" /\ kind = Gcs!answerOf(call[c].op, reply[c]))
  PROVE  Sound(c)
<1> DEFINE p == IF ~listing[c].active THEN "idle" ELSE IF kind = "ok" THEN "listing" ELSE "aborted"
<1>1. p \in {"idle", "listing", "aborted"}
  OBVIOUS
<1>2. pc' = [pc EXCEPT ![c] = p]
  BY DEF Mem!Return, Mem!Goto
<1>3. buf[c] = <<>>
  BY DEF IInv, Caller
<1>4. buf' = [buf EXCEPT ![c] = <<>>]
  BY <1>3, Same DEF IInv
<1> HIDE DEF p
<1> QED
  BY <1>1, <1>2, <1>4, ReturnSound DEF Mem!Return, Mem!NoCall, None, Busy

(* A critical section is the one moment a call takes effect. *)
LEMMA MemSectionSound ==
  ASSUME IInv, NEW c \in Clients, Mem!CriticalSection(c), UNCHANGED buf
  PROVE  Sound(c)
<1> USE DEF Mem!Goto, Mem!Unlock
<1>1. Caller(pc[c], call[c], reply[c], buf[c])
  BY DEF IInv
<1>2. \A k, d : Contract!With(k, d) = [x \in DOMAIN objects \union {k} |-> IF x = k THEN d ELSE objects[x]]
  BY Zenon DEF Contract!With
<1>3. CASE Mem!Put(c)
  <2>1. pc[c] = "locked" /\ call[c].op = "put" /\ objects' = Contract!With(call[c].key, call[c].body)
    BY <1>3, Zenon DEF Mem!Put, Mem!Store, Contract!With
  <2>2. Contract!ServePut(call[c], Gcs!answerOf(call[c].op, "ok"))
    BY <2>1 DEF Gcs!answerOf, Contract!ServePut
  <2> QED
    BY <1>3, <2>1, <2>2, ServeSound DEF Mem!Put
<1>4. CASE Mem!Delete(c)
  <2> DEFINE r == IF Mem!Stored(call[c].key) THEN "ok" ELSE "notfound"
  <2>1. objects' = Contract!Without(call[c].key)
    BY <1>4, Zenon DEF Mem!Delete, Contract!Without, Contract!Restrict, Mem!Restrict
  <2>2. Contract!ServeDelete(call[c], Gcs!answerOf(call[c].op, r))
    BY <1>4, <2>1 DEF Mem!Delete, Gcs!answerOf, Mem!Stored, Contract!ServeDelete, Contract!Missing
  <2>3. r \in {"ok", "notfound"}
    OBVIOUS
  <2>4. pc[c] = "locked" /\ pc' = [pc EXCEPT ![c] = "unlocked"] /\ reply' = [reply EXCEPT ![c] = r]
        /\ UNCHANGED <<call, res>>
    BY <1>4 DEF Mem!Delete
  <2> HIDE DEF r
  <2> QED
    BY <2>2, <2>3, <2>4, ServeSound
<1>5. CASE Mem!Compose(c)
  <2>1. pc[c] = "locked" /\ call[c].op = "compose" /\ Len(call[c].srcs) \in 1..MaxComposeSources
    BY <1>1, <1>5 DEF Mem!Compose, Caller
  <2>2. \A s : Contract!FlattenSeq(s) = Mem!FlattenSeq(s)
    BY Zenon DEF Contract!FlattenSeq, Mem!FlattenSeq
  <2>3. PICK r \in {"ok", "notfound"} : Mem!Unlock(c, r) /\ Contract!ServeCompose(call[c], r)
    <3>1. CASE /\ \E i \in DOMAIN call[c].srcs : ~Mem!Stored(call[c].srcs[i])
               /\ Mem!Unlock(c, "notfound") /\ UNCHANGED objects
      BY <2>1, <3>1 DEF Contract!ServeCompose, Contract!Missing, Mem!Stored
    <3>2. CASE /\ \A i \in DOMAIN call[c].srcs : Mem!Stored(call[c].srcs[i])
               /\ Mem!Store(call[c].key, Mem!FlattenSeq([i \in DOMAIN call[c].srcs |-> objects[call[c].srcs[i]]]))
               /\ Mem!Unlock(c, "ok")
      <4>1. objects' = Contract!With(call[c].key, Contract!FlattenSeq([i \in DOMAIN call[c].srcs |-> objects[call[c].srcs[i]]]))
        BY <2>2, <3>2, Zenon DEF Mem!Store, Contract!With
      <4> QED
        BY <2>1, <3>2, <4>1 DEF Contract!ServeCompose, Contract!Missing, Mem!Stored
    <3> QED
      BY <1>5, <3>1, <3>2, Zenon DEF Mem!Compose
  <2>4. Gcs!answerOf(call[c].op, r) = r
    BY <2>1 DEF Gcs!answerOf
  <2> QED
    BY <2>1, <2>3, <2>4, ServeSound
<1> QED
  BY <1>3, <1>4, <1>5 DEF Mem!CriticalSection

(* The contract sees neither the mutex nor a listing. *)
LEMMA MemQuietSound ==
  ASSUME IInv, NEW c \in Clients, UNCHANGED buf,
         \/ Mem!Lock(c) \/ Mem!Snapshot(c) \/ Mem!ListTells(c) \/ Mem!FnReturns(c)
         \/ Mem!ListDone(c) \/ Mem!ListAborts(c)
         \/ pc[c] = "reading" /\ Mem!Goto(c, "locking") /\ UNCHANGED <<objects, mu, call, reply, res, listing>>
  PROVE  Sound(c)
<1> USE DEF Mem!Goto
<1>1. buf' = [buf EXCEPT ![c] = buf[c]]
  BY Same DEF IInv
<1>2. ASSUME NEW p, pc' = [pc EXCEPT ![c] = p], UNCHANGED <<objects, call, reply, res>>,
             \/ pc[c] \in Places \ Busy /\ p \in Places \ Busy
             \/ pc[c] = "reading" /\ p = "locking"
             \/ pc[c] = "locking" /\ p = "locked"
      PROVE  Sound(c)
  <2>1. Caller(p, call[c], reply[c], buf[c])
    BY <1>2 DEF IInv, Caller, Busy, Places
  <2> QED
    BY <1>1, <1>2, <2>1, QuietSound
<1>3. CASE Mem!Lock(c)
  <2> DEFINE p == IF pc[c] = "locking" THEN "locked" ELSE "listLocked"
  <2>1. pc' = [pc EXCEPT ![c] = p] /\ UNCHANGED <<objects, call, reply, res>> /\ pc[c] \in {"locking", "listLocking"}
    BY <1>3 DEF Mem!Lock
  <2> QED
    BY <1>2, <2>1 DEF Busy, Places
<1>4. CASE Mem!Snapshot(c)
  <2>1. pc[c] = "listLocked" /\ pc' = [pc EXCEPT ![c] = "listing"] /\ UNCHANGED <<objects, call, reply, res>>
    BY <1>4, Zenon DEF Mem!Snapshot
  <2> QED
    BY <1>2, <2>1 DEF Busy, Places
<1>5. CASE Mem!ListTells(c)
  BY <1>2, <1>5 DEF Mem!ListTells, Busy, Places
<1>6. CASE Mem!FnReturns(c)
  BY <1>2, <1>6 DEF Mem!FnReturns, Busy, Places
<1>7. CASE Mem!ListDone(c)
  BY <1>2, <1>7 DEF Mem!ListDone, Mem!ListReturns, Busy, Places
<1>8. CASE Mem!ListAborts(c)
  BY <1>2, <1>8 DEF Mem!ListAborts, Mem!ListReturns, Busy, Places
<1>9. CASE pc[c] = "reading" /\ Mem!Goto(c, "locking") /\ UNCHANGED <<objects, mu, call, reply, res, listing>>
  BY <1>2, <1>9
<1> QED
  BY <1>3, <1>4, <1>5, <1>6, <1>7, <1>8, <1>9

-------------------------------------------------------------------------------
(* Callers begin without a call, and the contract with the same objects. *)
LEMMA InitMaps == Init => IInv /\ Contract!Init
<1> SUFFICES ASSUME Init PROVE IInv /\ Contract!Init
  OBVIOUS
<1>1. /\ pc = [c \in Clients |-> "idle"] /\ call = [c \in Clients |-> None]
      /\ buf = [c \in Clients |-> <<>>] /\ reply = [c \in Clients |-> "none"]
      /\ res = [c \in Clients |-> [op |-> "none", kind |-> "none"]]
      /\ objects \in UNION {[stored -> Bodies] : stored \in SUBSET Keys}
  BY DEF Init, Gcs!Init, Gcs!NoCall, Gcs!NoResult, None
<1>2. Whole(pc) /\ Whole(call) /\ Whole(reply) /\ Whole(buf)
  BY <1>1 DEF Whole
<1>3. Caller("idle", None, "none", <<>>)
  BY DEF Caller, Busy, Places, None
<1>4. Answers = [c \in Clients |-> "none"]
  BY <1>1, AnswerKinds DEF Answers
<1> QED
  BY <1>1, <1>2, <1>3, <1>4 DEF IInv, Contract!Init, Contract!NoCall, Contract!NoResult, Answers, None

(* Every step of either store is one of the contract, and keeps the invariant. *)
LEMMA StepMaps == IInv /\ [Next]_vars => IInv' /\ [Contract!Next]_Contract!vars
<1> SUFFICES ASSUME IInv, [Next]_vars PROVE IInv' /\ [Contract!Next]_Contract!vars
  OBVIOUS
<1>1. ASSUME NEW c \in Clients, Sound(c) PROVE IInv' /\ [Contract!Next]_Contract!vars
  BY <1>1 DEF Sound, Contract!Next
<1>2. ASSUME NEW c \in Clients, Gcs!StartStep(c) \/ Gcs!RunStep(c) PROVE Sound(c)
  BY <1>2, GcsStartSound, GcsPutSound, GcsRequestSound, GcsListSound DEF Gcs!RunStep
<1>3. ASSUME NEW c \in Clients, UNCHANGED buf, Mem!StartStep(c) \/ Mem!RunStep(c) \/ Mem!Lock(c)
      PROVE  Sound(c)
  <2>1. CASE Mem!ReadBody(c)
    BY <1>3, <2>1, MemQuietSound, MemReturnSound DEF Mem!ReadBody
  <2>2. CASE Mem!Refuse(c)
    BY <1>3, <2>2, MemReturnSound DEF Mem!Refuse
  <2>3. CASE Mem!Answered(c)
    <3>1. reply[c] # "none"
      BY <2>3 DEF IInv, Caller, Mem!Answered
    <3> QED
      BY <1>3, <2>3, <3>1, AnswerKinds, MemReturnSound DEF Mem!Answered
  <2>4. CASE Mem!StartStep(c) \/ Mem!FnDeletes(c)
    BY <1>3, <2>4, MemStartSound
  <2>5. CASE Mem!CriticalSection(c)
    BY <1>3, <2>5, MemSectionSound
  <2>6. CASE Mem!Lock(c) \/ (Mem!ListStep(c) /\ ~Mem!FnDeletes(c))
    BY <1>3, <2>6, MemQuietSound DEF Mem!ListStep
  <2> QED
    BY <1>3, <2>1, <2>2, <2>3, <2>4, <2>5, <2>6 DEF Mem!RunStep
<1>4. CASE Next
  <2>1. PICK c \in Clients : StartStep(c) \/ RunStep(c) \/ MemLock(c)
    BY <1>4 DEF Next
  <2>2. \/ Gcs!StartStep(c) \/ Gcs!RunStep(c)
        \/ UNCHANGED buf /\ (Mem!StartStep(c) \/ Mem!RunStep(c) \/ Mem!Lock(c))
    BY <2>1 DEF StartStep, RunStep, MemLock, ByGcs, ByMemory
  <2> QED
    BY <1>1, <1>2, <1>3, <2>2
<1>5. CASE UNCHANGED vars
  BY <1>5, QuietMaps DEF vars, IInv, Whole
<1> QED
  BY <1>4, <1>5

(* Whatever callers do at the same time, and whatever fails or is lost, the adapter and the
   in-memory store are both the store the contract describes. *)
THEOREM StoresImplementContract == Spec => ImplementsStore
<1>1. Spec => []IInv
  BY InitMaps, StepMaps, PTL DEF Spec
<1> QED
  BY <1>1, InitMaps, StepMaps, PTL DEF Spec, ImplementsStore, Contract!Spec

(* A non-empty set of naturals has a least element. *)
LEMMA Least ==
  ASSUME NEW S \in SUBSET Nat, S # {}
  PROVE  \E x \in S : \A y \in S : x <= y
<1>1. PICK x \in S : \A y \in S : <<y, x>> \notin OpToRel(<, Nat)
  BY WFMin, NatLessThanWellFounded
<1>2. ASSUME NEW y \in S PROVE x <= y
  <2>1. x \in Nat /\ y \in Nat /\ <<y, x>> \notin {ss \in Nat \X Nat : ss[1] < ss[2]}
    BY <1>1 DEF OpToRel
  <2>2. ~(y < x)
    BY <2>1
  <2> QED
    BY <2>1, <2>2
<1> QED
  BY <1>2

(* f joins the sequences of seqs from the first to each of the first n. *)
Joins(f, seqs, n) == f = [i \in 1..n |-> IF i = 1 THEN seqs[i] ELSE f[i - 1] \o seqs[i]]

(* Sequences can be joined, and joined they are a sequence of the same elements. *)
LEMMA JoinsExist ==
  ASSUME NEW S, NEW seqs \in Seq(Seq(S)), NEW n \in 0..Len(seqs)
  PROVE  \E f : Joins(f, seqs, n)
<1> DEFINE bad == {m \in 0..Len(seqs) : ~\E f : Joins(f, seqs, m)}
<1>1. SUFFICES ASSUME bad # {} PROVE FALSE
  OBVIOUS
<1>2. bad \in SUBSET Nat
  OBVIOUS
<1>3. PICK m \in bad : \A k \in bad : m <= k
  <2> HIDE DEF bad
  <2> QED
    BY <1>1, <1>2, Least
<1>4. m \in 0..Len(seqs) /\ m \in Nat /\ ~\E f : Joins(f, seqs, m)
  OBVIOUS
<1>5. CASE m = 0
  <2>1. Joins(<<>>, seqs, 0)
    BY DEF Joins
  <2> QED
    BY <1>4, <1>5, <2>1
<1>6. CASE m # 0
  <2>1. m - 1 \in 0..Len(seqs) /\ m - 1 \in Nat /\ ~(m <= m - 1)
    BY <1>4, <1>6
  <2>2. m - 1 \notin bad
    <3> HIDE DEF bad
    <3> QED
      BY <1>3, <2>1
  <2>3. PICK f : Joins(f, seqs, m - 1)
    BY <2>1, <2>2
  <2> DEFINE last == IF m = 1 THEN seqs[m] ELSE f[m - 1] \o seqs[m]
             g == [i \in 1..m |-> IF i = m THEN last ELSE f[i]]
  <2>4. ASSUME NEW i \in 1..m PROVE g[i] = IF i = 1 THEN seqs[i] ELSE g[i - 1] \o seqs[i]
    <3>1. CASE i = m
      <4>1. i # 1 => i - 1 \in 1..m /\ i - 1 # m
        BY <1>4, <3>1
      <4>2. i # 1 => g[i - 1] = f[i - 1]
        BY <4>1
      <4> QED
        BY <3>1, <4>2
    <3>2. CASE i # m
      <4>1. i \in 1..(m - 1) /\ (i # 1 => i - 1 \in 1..m /\ i - 1 # m)
        BY <1>4, <3>2
      <4>2. f[i] = IF i = 1 THEN seqs[i] ELSE f[i - 1] \o seqs[i]
        BY <2>3, <4>1 DEF Joins
      <4>3. g[i] = f[i] /\ (i # 1 => g[i - 1] = f[i - 1])
        BY <3>2, <4>1
      <4> QED
        BY <4>2, <4>3
    <3> QED
      BY <3>1, <3>2
  <2>5. Joins(g, seqs, m)
    <3>1. g = [i \in 1..m |-> g[i]]
      OBVIOUS
    <3> HIDE DEF g
    <3> QED
      BY <2>4, <3>1 DEF Joins
  <2> QED
    BY <1>4, <2>5
<1> QED
  BY <1>5, <1>6

(* Joining sequences gives a sequence of the same elements. *)
LEMMA FlattenType ==
  ASSUME NEW S, NEW seqs \in Seq(Seq(S))
  PROVE  FlattenSeq(seqs) \in Seq(S)
<1> DEFINE n == Len(seqs)
<1>1. CASE n = 0
  <2>1. seqs = <<>>
    BY <1>1
  <2>2. FlattenSeq(seqs) = <<>>
    BY <1>1, <2>1 DEF FlattenSeq
  <2> QED
    BY <2>2
<1>2. CASE n # 0
  <2>1. n \in Nat /\ n \in 1..n
    BY <1>2
  <2>2. \E f : Joins(f, seqs, n)
    BY <2>1, JoinsExist
  <2> DEFINE f == CHOOSE f : Joins(f, seqs, n)
  <2>3. Joins(f, seqs, n)
    BY <2>2
  <2>4. FlattenSeq(seqs) = f[n]
    BY <1>2 DEF FlattenSeq, Joins
  <2> HIDE DEF f
  <2> DEFINE bad == {m \in 1..n : f[m] \notin Seq(S)}
  <2>5. bad = {}
    <3>1. SUFFICES ASSUME bad # {} PROVE FALSE
      OBVIOUS
    <3>2. bad \in SUBSET Nat
      OBVIOUS
    <3>3. PICK m \in bad : \A k \in bad : m <= k
      <4> HIDE DEF bad
      <4> QED
        BY <3>1, <3>2, Least
    <3>4. m \in 1..n /\ f[m] \notin Seq(S) /\ seqs[m] \in Seq(S)
      BY <2>1
    <3>5. f[m] = IF m = 1 THEN seqs[m] ELSE f[m - 1] \o seqs[m]
      BY <2>3, <3>4 DEF Joins
    <3>6. m # 1 => f[m - 1] \in Seq(S)
      <4>1. m # 1 => m - 1 \in 1..n /\ ~(m <= m - 1)
        BY <2>1, <3>4
      <4>2. m # 1 => m - 1 \notin bad
        <5> HIDE DEF bad
        <5> QED
          BY <3>3, <4>1
      <4> QED
        BY <4>1, <4>2
    <3> QED
      BY <3>4, <3>5, <3>6
  <2> QED
    BY <2>1, <2>4, <2>5
<1> QED
  BY <1>1, <1>2

-------------------------------------------------------------------------------
(* What is stored: whole bodies, of a size an offset can name. *)
Objects ==
  /\ DOMAIN objects \subseteq Keys
  /\ objects = [k \in DOMAIN objects |-> objects[k]]
  /\ \A k \in DOMAIN objects : objects[k] \in Seq(STRING) /\ Len(objects[k]) <= MaxInt

With(k, data) == [x \in DOMAIN objects \union {k} |-> IF x = k THEN data ELSE objects[x]]

(* A body is stored under a key. *)
LEMMA StoreKeeps ==
  ASSUME Objects, NEW k \in Keys, NEW data \in Seq(STRING), Len(data) <= MaxInt,
         objects' = With(k, data)
  PROVE  Objects'
<1>1. objects' = [x \in {k} \union DOMAIN objects |-> IF x = k THEN data ELSE objects[x]]
  BY DEF With
<1>2. DOMAIN objects' = {k} \union DOMAIN objects
  BY <1>1
<1>3. ASSUME NEW x \in DOMAIN objects'
      PROVE  objects'[x] = IF x = k THEN data ELSE objects[x]
  BY <1>1, <1>2
<1>4. objects' = [x \in DOMAIN objects' |-> objects'[x]]
  BY <1>1
<1> QED
  BY <1>2, <1>3, <1>4 DEF Objects

(* A key is removed. *)
LEMMA RemoveKeeps ==
  ASSUME Objects, NEW k, objects' = [x \in DOMAIN objects \ {k} |-> objects[x]]
  PROVE  Objects'
  BY DEF Objects

(* The objects a composition joins are a body. *)
LEMMA JoinedType ==
  ASSUME Objects, NEW srcs \in Seq(Keys), \A i \in DOMAIN srcs : srcs[i] \in DOMAIN objects
  PROVE  FlattenSeq([i \in DOMAIN srcs |-> objects[srcs[i]]]) \in Seq(STRING)
<1>1. DOMAIN srcs = 1..Len(srcs) /\ Len(srcs) \in Nat
  OBVIOUS
<1>2. [i \in DOMAIN srcs |-> objects[srcs[i]]] \in Seq(Seq(STRING))
  BY <1>1, IsASeq DEF Objects
<1> QED
  BY <1>2, FlattenType

(* Every step of either store keeps what is stored a set of bodies. *)
LEMMA ObjectsKept == IInv /\ Objects /\ [Next]_vars => Objects'
<1> SUFFICES ASSUME IInv, Objects, [Next]_vars PROVE Objects'
  OBVIOUS
<1>0. ASSUME UNCHANGED objects PROVE Objects'
  BY <1>0 DEF Objects
<1>1. CASE UNCHANGED vars
  BY <1>0, <1>1 DEF vars
<1>2. ASSUME NEW c \in Clients, pc[c] \in {"closing", "requested", "locked"}
      PROVE  /\ call[c].key \in Keys
             /\ call[c].op = "put" => call[c].body \in Seq(STRING) /\ Len(call[c].body) <= MaxInt
             /\ call[c].op = "compose" => call[c].srcs \in Seq(Keys)
             /\ pc[c] = "closing" => call[c].op = "put" /\ buf[c] = call[c].body
  <2>1. Caller(pc[c], call[c], reply[c], buf[c])
    BY DEF IInv
  <2>2. call[c] \in Calls
    BY <1>2, <2>1 DEF Caller, Busy
  <2> QED
    BY <1>2, <2>1, <2>2, StoresAssumption DEF Caller, Calls, Contract!Calls
<1>3. ASSUME NEW c \in Clients, Gcs!StartStep(c) \/ Gcs!RunStep(c) PROVE Objects'
  <2>1. CASE Gcs!Finalize(c)
    <3>1. objects' = With(call[c].key, buf[c]) /\ pc[c] = "closing"
      BY <2>1, Zenon DEF Gcs!Finalize, Gcs!With, With
    <3> QED
      BY <1>2, <3>1, StoreKeeps
  <2>2. CASE Gcs!ServeDelete(c)
    BY <2>2, RemoveKeeps DEF Gcs!ServeDelete, Gcs!Without, Gcs!Restrict
  <2>3. CASE Gcs!ServeCompose(c)
    <3> DEFINE data == FlattenSeq([i \in DOMAIN call[c].srcs |-> objects[call[c].srcs[i]]])
    <3>1. CASE UNCHANGED objects
      BY <1>0, <3>1
    <3>2. CASE /\ Gcs!ToSet(call[c].srcs) \subseteq DOMAIN objects /\ Len(data) <= MaxInt
               /\ objects' = With(call[c].key, data)
      <4>1. pc[c] = "requested" /\ call[c].op = "compose"
        BY <2>3, Zenon DEF Gcs!ServeCompose
      <4>2. \A i \in DOMAIN call[c].srcs : call[c].srcs[i] \in DOMAIN objects
        BY <3>2 DEF Gcs!ToSet
      <4>3. data \in Seq(STRING)
        BY <1>2, <4>1, <4>2, JoinedType
      <4> HIDE DEF data
      <4> QED
        BY <1>2, <3>2, <4>1, <4>3, StoreKeeps
    <3>3. \A s : Gcs!FlattenSeq(s) = FlattenSeq(s)
      BY Zenon DEF FlattenSeq, Gcs!FlattenSeq
    <3>4. \/ UNCHANGED objects
          \/ /\ Gcs!ToSet(call[c].srcs) \subseteq DOMAIN objects /\ Len(data) <= MaxInt
             /\ objects' = With(call[c].key, data)
      BY <2>3, <3>3, Zenon DEF Gcs!ServeCompose, Gcs!With, With
    <3> QED
      BY <3>1, <3>2, <3>4
  <2>4. CASE UNCHANGED objects
    BY <1>0, <2>4
  <2>5. Gcs!Finalize(c) \/ Gcs!ServeDelete(c) \/ Gcs!ServeCompose(c) \/ UNCHANGED objects
    <3>1. Gcs!StartStep(c) => UNCHANGED objects
      BY DEF Gcs!StartStep, Gcs!PutStart, Gcs!DeleteStart, Gcs!ComposeStart, Gcs!ListStart, Gcs!Start
    <3>2. Gcs!ListStep(c) => UNCHANGED objects
      BY DEF Gcs!ListStep, Gcs!NextPage, Gcs!ListTells, Gcs!FnReturns, Gcs!FnDeletes, Gcs!ListDone,
             Gcs!ListFails, Gcs!ListReturns, Gcs!Start
    <3>3. Gcs!CopyBlock(c) \/ Gcs!CopyDone(c) \/ Gcs!CopyFails(c) \/ Gcs!CloseAborted(c) \/ Gcs!Refuse(c)
            \/ Gcs!RequestLost(c) \/ Gcs!Answered(c) => UNCHANGED objects
      BY DEF Gcs!CopyBlock, Gcs!CopyDone, Gcs!CopyFails, Gcs!CloseAborted, Gcs!Refuse, Gcs!RequestLost, Gcs!Answered
    <3> QED
      BY <1>3, <3>1, <3>2, <3>3 DEF Gcs!RunStep, Gcs!PutStep, Gcs!RequestStep
  <2> QED
    BY <2>1, <2>2, <2>3, <2>4, <2>5
<1>4. ASSUME NEW c \in Clients, Mem!StartStep(c) \/ Mem!RunStep(c) \/ Mem!Lock(c) PROVE Objects'
  <2>1. CASE Mem!Put(c)
    <3>1. objects' = With(call[c].key, call[c].body) /\ pc[c] = "locked" /\ call[c].op = "put"
      BY <2>1, Zenon DEF Mem!Put, Mem!Store, With
    <3> QED
      BY <1>2, <3>1, StoreKeeps
  <2>2. CASE Mem!Delete(c)
    BY <2>2, RemoveKeeps DEF Mem!Delete, Mem!Restrict
  <2>3. CASE Mem!Compose(c)
    <3> DEFINE data == FlattenSeq([i \in DOMAIN call[c].srcs |-> objects[call[c].srcs[i]]])
    <3>1. CASE UNCHANGED objects
      BY <1>0, <3>1
    <3>2. CASE /\ \A i \in DOMAIN call[c].srcs : Mem!Stored(call[c].srcs[i])
               /\ Len(data) <= MaxInt
               /\ objects' = With(call[c].key, data)
      <4>1. pc[c] = "locked" /\ call[c].op = "compose"
        BY <2>3, Zenon DEF Mem!Compose
      <4>2. \A i \in DOMAIN call[c].srcs : call[c].srcs[i] \in DOMAIN objects
        BY <3>2 DEF Mem!Stored
      <4>3. data \in Seq(STRING)
        BY <1>2, <4>1, <4>2, JoinedType
      <4> HIDE DEF data
      <4> QED
        BY <1>2, <3>2, <4>1, <4>3, StoreKeeps
    <3>3. \A s : Mem!FlattenSeq(s) = FlattenSeq(s)
      BY Zenon DEF FlattenSeq, Mem!FlattenSeq
    <3>4. \/ UNCHANGED objects
          \/ /\ \A i \in DOMAIN call[c].srcs : Mem!Stored(call[c].srcs[i])
             /\ Len(data) <= MaxInt
             /\ objects' = With(call[c].key, data)
      BY <2>3, <3>3, Zenon DEF Mem!Compose, Mem!Store, With
    <3> QED
      BY <3>1, <3>2, <3>4
  <2>4. CASE UNCHANGED objects
    BY <1>0, <2>4
  <2>5. Mem!CriticalSection(c) \/ UNCHANGED objects
    <3>1. Mem!StartStep(c) => UNCHANGED objects
      BY DEF Mem!StartStep, Mem!PutStart, Mem!DeleteStart, Mem!ComposeStart, Mem!ListStart, Mem!Start
    <3>2. Mem!ListStep(c) => UNCHANGED objects
      BY DEF Mem!ListStep, Mem!Snapshot, Mem!ListTells, Mem!FnReturns, Mem!FnDeletes, Mem!ListDone,
             Mem!ListAborts, Mem!ListReturns, Mem!Start
    <3>3. Mem!Lock(c) \/ Mem!ReadBody(c) \/ Mem!Refuse(c) \/ Mem!Answered(c) => UNCHANGED objects
      BY DEF Mem!Lock, Mem!ReadBody, Mem!Refuse, Mem!Answered, Mem!Return
    <3> QED
      BY <1>4, <3>1, <3>2, <3>3 DEF Mem!RunStep
  <2> QED
    BY <2>1, <2>2, <2>3, <2>4, <2>5 DEF Mem!CriticalSection
<1>5. CASE Next
  <2>1. PICK c \in Clients : StartStep(c) \/ RunStep(c) \/ MemLock(c)
    BY <1>5 DEF Next
  <2> QED
    BY <1>3, <1>4, <2>1 DEF StartStep, RunStep, MemLock, ByGcs, ByMemory
<1> QED
  BY <1>1, <1>5

(* The store begins with whole bodies. *)
LEMMA ObjectsInit == Init => Objects
<1> SUFFICES ASSUME Init PROVE Objects
  OBVIOUS
<1>1. PICK stored \in SUBSET Keys : objects \in [stored -> Bodies]
  BY DEF Init, Gcs!Init
<1> QED
  BY <1>1, StoresAssumption DEF Objects

-------------------------------------------------------------------------------
(* What a read of a range of d says: the bytes the contract names, or that there are none. *)
Ranged(d, offset, length) ==
  LET rest == SubSeq(d, offset + 1, Len(d))
  IN  IF offset >= Len(d) THEN [kind |-> "unsatisfiable", data |-> <<>>]
      ELSE [kind |-> "ok", data |-> IF length \in 0..Len(rest) THEN SubSeq(rest, 1, length) ELSE rest]

(* The bytes of a range by their ends in the object, for any length. *)
LEMMA RangedByEnds ==
  ASSUME NEW d \in Seq(STRING), NEW offset \in Nat, offset < Len(d), NEW length \in Int
  PROVE  /\ SubSeq(d, offset + 1, Len(d)) # <<>>
         /\ Ranged(d, offset, length) =
              [kind |-> "ok", data |-> SubSeq(d, offset + 1, IF length \in 0..(Len(d) - offset)
                                                             THEN offset + length ELSE Len(d))]
<1> DEFINE rest == SubSeq(d, offset + 1, Len(d))
<1>1. Len(d) \in Nat /\ offset + 1 \in 1..Len(d)
  OBVIOUS
<1>2. rest \in Seq(STRING) /\ Len(rest) = Len(d) - offset
  BY <1>1, SubSeqProperties
<1>3. ASSUME length \in 0..Len(rest) PROVE SubSeq(rest, 1, length) = SubSeq(d, offset + 1, offset + length)
  <2>1. CASE length = 0
    BY <1>1, <1>2, <2>1, SubSeqEmpty
  <2>2. CASE length # 0
    <3>1. /\ Len(d) \in 1..Len(d) /\ 1 \in 1..(Len(d) - (offset + 1) + 1)
          /\ length \in 1..(Len(d) - (offset + 1) + 1) /\ offset + 1 + 1 - 1 = offset + 1
          /\ offset + 1 + length - 1 = offset + length
      BY <1>1, <1>2, <1>3, <2>2
    <3>2. SubSeq(SubSeq(d, offset + 1, Len(d)), 1, length) = SubSeq(d, offset + 1 + 1 - 1, offset + 1 + length - 1)
      BY <1>1, <3>1, SubSeqOfSubSeq
    <3> QED
      BY <3>1, <3>2
  <2> QED
    BY <2>1, <2>2
<1>4. rest # <<>>
  <2>1. Len(rest) > 0
    BY <1>1, <1>2
  <2> HIDE DEF rest
  <2> QED
    BY <2>1
<1>5. ~(offset >= Len(d))
  BY <1>1
<1> HIDE DEF rest
<1>6. Ranged(d, offset, length) = [kind |-> "ok", data |-> IF length \in 0..Len(rest) THEN SubSeq(rest, 1, length) ELSE rest]
  BY <1>5 DEF Ranged, rest
<1> QED
  BY <1>2, <1>3, <1>4, <1>6 DEF rest

(* The smaller of two numbers. *)
LEMMA MinOfTwo ==
  ASSUME NEW a \in Int, NEW b \in Int
  PROVE  Gcs!Min({a, b}) = IF a <= b THEN a ELSE b
<1> DEFINE m == IF a <= b THEN a ELSE b
<1>1. m \in {a, b} /\ \A y \in {a, b} : m <= y
  OBVIOUS
<1>2. \A x \in {a, b} : (\A y \in {a, b} : x <= y) => x = m
  OBVIOUS
<1> HIDE DEF m
<1>3. (CHOOSE x \in {a, b} : \A y \in {a, b} : x <= y) = m
  BY <1>1, <1>2
<1> QED
  BY <1>3 DEF Gcs!Min, m

(* The adapter hands over what the contract names, and never asks for an end that wraps. *)
LEMMA GcsRange ==
  ASSUME Objects, NEW k \in DOMAIN objects, NEW offset \in 0..MaxInt, NEW length \in Int64,
         NEW r \in Gcs!GetRange(k, offset, length), r.kind # "lost"
  PROVE  r = Ranged(objects[k], offset, length)
<1> DEFINE d == objects[k]
           n == Gcs!sdkLength(offset, length)
<1>1. d \in Seq(STRING) /\ Len(d) \in Nat /\ Len(d) <= MaxInt /\ MaxInt \in Nat /\ offset \in Nat /\ length \in Int
  BY StoresAssumption DEF Objects, Int64
<1>2. n = (IF length > MaxInt - offset THEN -1 ELSE length) /\ n \in Int /\ ~(n > 0 /\ offset + n - 1 > MaxInt)
  BY <1>1 DEF Gcs!sdkLength
<1>3. PICK a \in Gcs!RangeAnswers(k, offset, n) : r = Gcs!RangeResult(k, offset, a)
  <2>1. [kind |-> "lost", data |-> <<>>].kind = "lost"
    OBVIOUS
  <2> HIDE DEF n
  <2> QED
    BY <1>1, <2>1 DEF Gcs!GetRange, n
<1>4. Gcs!Stored(k)
  BY DEF Gcs!Stored
<1> HIDE DEF n
<1>5. CASE offset >= Len(d)
  <2>1. a \in {[kind |-> "ok", data |-> <<>>], [kind |-> "unsatisfiable", data |-> <<>>]}
    BY <1>2, <1>3, <1>4, <1>5 DEF Gcs!RangeAnswers
  <2>2. r = [kind |-> "unsatisfiable", data |-> <<>>]
    BY <1>3, <1>5, <2>1 DEF Gcs!RangeResult
  <2> QED
    BY <1>5, <2>2 DEF Ranged
<1>6. CASE ~(offset >= Len(d))
  <2> DEFINE end == IF n < 0 THEN Len(d) ELSE Gcs!Min({offset + n, Len(d)})
  <2>1. a = [kind |-> "ok", data |-> SubSeq(d, offset + 1, end)]
    BY <1>2, <1>3, <1>4, <1>6 DEF Gcs!RangeAnswers
  <2>2. end = IF length \in 0..(Len(d) - offset) THEN offset + length ELSE Len(d)
    <3>1. end = IF n < 0 THEN Len(d) ELSE IF offset + n <= Len(d) THEN offset + n ELSE Len(d)
      BY <1>1, <1>2, MinOfTwo
    <3> HIDE DEF end, d
    <3>2. CASE length > MaxInt - offset
      BY <1>1, <1>2, <1>6, <3>1, <3>2
    <3>3. CASE ~(length > MaxInt - offset)
      BY <1>1, <1>2, <1>6, <3>1, <3>3
    <3> QED
      BY <3>2, <3>3
  <2>3. r = a
    BY <1>3, <1>6 DEF Gcs!RangeResult
  <2> HIDE DEF end, d
  <2>4. offset < Len(d) /\ length \in Int
    BY <1>1, <1>6
  <2> QED
    BY <1>1, <2>1, <2>2, <2>3, <2>4, RangedByEnds DEF d
<1> QED
  BY <1>5, <1>6

(* The in-memory store hands over the same. *)
LEMMA MemRange ==
  ASSUME Objects, NEW k \in DOMAIN objects, NEW offset \in 0..MaxInt, NEW length \in Int64,
         NEW r \in Mem!GetRange(k, offset, length)
  PROVE  r = Ranged(objects[k], offset, length)
<1> DEFINE d == objects[k]
           end == Mem!rangeEnd(Len(d), offset, length)
<1>1. d \in Seq(STRING) /\ Len(d) \in Nat /\ MaxInt \in Nat /\ offset \in Nat /\ length \in Int
  BY StoresAssumption DEF Objects, Int64
<1>2. Mem!Stored(k)
  BY DEF Mem!Stored
<1>3. r = IF offset >= Len(d) THEN [kind |-> "unsatisfiable", data |-> <<>>]
          ELSE [kind |-> "ok", data |-> SubSeq(d, offset + 1, end)]
  BY <1>1, <1>2 DEF Mem!GetRange
<1>4. CASE offset >= Len(d)
  BY <1>3, <1>4 DEF Ranged
<1>5. CASE ~(offset >= Len(d))
  <2>1. end = IF length \in 0..(Len(d) - offset) THEN offset + length ELSE Len(d)
    <3> HIDE DEF d
    <3>1. end = IF length >= 0 /\ length < Len(d) - offset THEN offset + length ELSE Len(d)
      BY DEF Mem!rangeEnd
    <3> HIDE DEF end
    <3> QED
      BY <1>1, <1>5, <3>1
  <2> HIDE DEF d, end
  <2>2. offset < Len(d)
    BY <1>1, <1>5
  <2> QED
    BY <1>1, <1>3, <1>5, <2>1, <2>2, RangedByEnds DEF d
<1> QED
  BY <1>4, <1>5

(* The reads of either store are as the contract has them. *)
LEMMA ReadsFollow == Objects => ReadsAsContract
<1> SUFFICES ASSUME Objects, NEW k \in Keys,
                    NEW whole \in IF backend = "gcs" THEN Gcs!Get(k) ELSE Mem!Get(k), whole.kind # "lost"
             PROVE  /\ \A e \in IF backend = "gcs" THEN Gcs!Exists(k) ELSE Mem!Exists(k) :
                         e # "lost" => (e = "present" <=> whole.kind = "ok")
                    /\ \A offset \in Int64, length \in Int64 :
                         \A r \in IF backend = "gcs" THEN Gcs!GetRange(k, offset, length)
                                                     ELSE Mem!GetRange(k, offset, length) : r.kind # "lost" =>
                           IF offset < 0 THEN r.kind = "error"
                           ELSE IF whole.kind = "notfound" THEN r.kind = "notfound"
                           ELSE LET rest == SubSeq(whole.data, offset + 1, Len(whole.data)) IN
                             IF rest = <<>> THEN r.kind = "unsatisfiable"
                             ELSE r = [kind |-> "ok",
                                       data |-> IF length \in 0..Len(rest) THEN SubSeq(rest, 1, length) ELSE rest]
  BY DEF ReadsAsContract
<1>1. whole = IF k \in DOMAIN objects THEN [kind |-> "ok", data |-> objects[k]]
              ELSE [kind |-> "notfound", data |-> <<>>]
  BY DEF Gcs!Get, Mem!Get, Gcs!Stored, Mem!Stored
<1>2. ASSUME NEW e \in IF backend = "gcs" THEN Gcs!Exists(k) ELSE Mem!Exists(k), e # "lost"
      PROVE  e = "present" <=> whole.kind = "ok"
  BY <1>1, <1>2 DEF Gcs!Exists, Mem!Exists, Gcs!Stored, Mem!Stored
<1>3. ASSUME NEW offset \in Int64, NEW length \in Int64,
             NEW r \in IF backend = "gcs" THEN Gcs!GetRange(k, offset, length) ELSE Mem!GetRange(k, offset, length),
             r.kind # "lost"
      PROVE  IF offset < 0 THEN r.kind = "error"
             ELSE IF whole.kind = "notfound" THEN r.kind = "notfound"
             ELSE LET rest == SubSeq(whole.data, offset + 1, Len(whole.data)) IN
               IF rest = <<>> THEN r.kind = "unsatisfiable"
               ELSE r = [kind |-> "ok",
                         data |-> IF length \in 0..Len(rest) THEN SubSeq(rest, 1, length) ELSE rest]
  <2>0. CASE offset < 0
    <3>1. r = [kind |-> "error", data |-> <<>>]
      BY <1>3, <2>0 DEF Gcs!GetRange, Mem!GetRange
    <3> QED
      BY <2>0, <3>1
  <2> SUFFICES ASSUME ~(offset < 0)
               PROVE  IF whole.kind = "notfound" THEN r.kind = "notfound"
                      ELSE LET rest == SubSeq(whole.data, offset + 1, Len(whole.data)) IN
                        IF rest = <<>> THEN r.kind = "unsatisfiable"
                        ELSE r = [kind |-> "ok",
                                  data |-> IF length \in 0..Len(rest) THEN SubSeq(rest, 1, length) ELSE rest]
    BY <2>0
  <2>1. offset \in 0..MaxInt /\ offset \in Nat /\ MaxInt \in Nat
    BY StoresAssumption DEF Int64
  <2>2. CASE k \notin DOMAIN objects
    <3>1. r.kind = "notfound"
      <4>1. CASE backend = "gcs"
        <5>1. Gcs!RangeAnswers(k, offset, Gcs!sdkLength(offset, length)) = {[kind |-> "notfound", data |-> <<>>]}
          BY <2>2 DEF Gcs!RangeAnswers, Gcs!Stored
        <5>2. PICK a \in Gcs!RangeAnswers(k, offset, Gcs!sdkLength(offset, length)) : r = Gcs!RangeResult(k, offset, a)
          <6>1. [kind |-> "lost", data |-> <<>>].kind = "lost"
            OBVIOUS
          <6> QED
            BY <1>3, <2>1, <4>1, <6>1 DEF Gcs!GetRange
        <5>3. a.kind = "notfound"
          BY <5>1
        <5> QED
          BY <5>2, <5>3 DEF Gcs!RangeResult
      <4>2. CASE backend # "gcs"
        BY <1>3, <2>1, <2>2, <4>2 DEF Mem!GetRange, Mem!Stored
      <4> QED
        BY <4>1, <4>2
    <3> QED
      BY <1>1, <2>2, <3>1
  <2>3. CASE k \in DOMAIN objects
    <3> DEFINE d == objects[k]
               rest == SubSeq(d, offset + 1, Len(d))
    <3>1. d \in Seq(STRING) /\ Len(d) \in Nat
      BY <2>3 DEF Objects
    <3>2. r = Ranged(d, offset, length)
      BY <1>3, <2>1, <2>3, GcsRange, MemRange
    <3>3. whole.kind = "ok" /\ whole.data = d
      BY <1>1, <2>3
    <3>4. CASE offset >= Len(d)
      <4>1. rest = <<>>
        BY <2>1, <3>1, <3>4, SubSeqEmpty
      <4>2. r.kind = "unsatisfiable"
        BY <3>2, <3>4 DEF Ranged
      <4> QED
        BY <3>3, <4>1, <4>2
    <3>5. CASE ~(offset >= Len(d))
      <4> HIDE DEF d
      <4>1. rest # <<>>
        <5>1. offset < Len(d) /\ length \in Int
          BY <2>1, <3>1, <3>5 DEF Int64
        <5> QED
          BY <2>1, <3>1, <5>1, RangedByEnds
      <4>2. r = [kind |-> "ok", data |-> IF length \in 0..Len(rest) THEN SubSeq(rest, 1, length) ELSE rest]
        BY <3>2, <3>5 DEF Ranged
      <4> HIDE DEF rest
      <4> QED
        BY <3>3, <4>1, <4>2 DEF rest
    <3> QED
      BY <3>4, <3>5
  <2> QED
    BY <2>2, <2>3
<1> QED
  BY <1>2, <1>3

(* The callers invariant holds throughout. *)
LEMMA AlwaysIInv == Spec => []IInv
  BY InitMaps, StepMaps, PTL DEF Spec

(* Both stores read as the contract says, of every object that callers can bring about and for
   every offset and length of the integer type, the negative ones too. *)
THEOREM ReadsKeepContract == Spec => []ReadsAsContract
<1>1. Spec => []Objects
  BY AlwaysIInv, ObjectsInit, ObjectsKept, PTL DEF Spec
<1> QED
  BY <1>1, ReadsFollow, PTL

-------------------------------------------------------------------------------
(* Listings. *)

Infos == [key : Keys, size : Nat]

Idle == [active : {FALSE}, kind : {"none", "ok", "error"}]

Running(b) ==
  IF b = "gcs"
  THEN [active : {TRUE}, prefix : SUBSET Keys, page : Seq(Infos), more : BOOLEAN, told : Seq(Infos)]
  ELSE [active : {TRUE}, prefix : SUBSET Keys, page : Seq(Infos), told : Seq(Infos)]

ListPlaces == {"listLocking", "listLocked", "listing", "callback", "aborted"}

Locking == {"listLocking", "listLocked"}

(* Whether more keys are to come than the page at hand has. *)
Waiting(b, p, l) == IF b = "gcs" THEN l.more ELSE p \in Locking

(* What was told and is at hand: in ascending order, of the prefix, and seen in the store. *)
InOrder(l, seen) ==
  /\ \A i, j \in DOMAIN l.told : i < j => l.told[i].key < l.told[j].key
  /\ \A i, j \in DOMAIN l.page : i < j => l.page[i].key < l.page[j].key
  /\ \A i \in DOMAIN l.told, j \in DOMAIN l.page : l.told[i].key < l.page[j].key
  /\ \A i \in DOMAIN l.told : l.told[i] \in seen /\ l.told[i].key \in l.prefix
  /\ \A j \in DOMAIN l.page : l.page[j] \in seen /\ l.page[j].key \in l.prefix

Reported(l, k) == (\E i \in DOMAIN l.told : l.told[i].key = k) \/ (\E j \in DOMAIN l.page : l.page[j].key = k)

Behind(l, k) == (\A i \in DOMAIN l.told : l.told[i].key < k) /\ (\A j \in DOMAIN l.page : l.page[j].key < k)

(* A key that was stored all the time is reported, unless pages behind it are to come. *)
Complete(l, always, waiting) ==
  \A k \in always \intersect l.prefix : Reported(l, k) \/ (waiting /\ Behind(l, k))

Lister(b, p, l, always, seen, stored) ==
  /\ l \in Idle \union Running(b)
  /\ p = "idle" => ~l.active
  /\ p \in ListPlaces => l.active
  /\ l.active => /\ always \subseteq stored
                 /\ InOrder(l, seen) /\ Complete(l, always, Waiting(b, p, l))
                 /\ b # "gcs" /\ p \in Locking => l.told = <<>> /\ l.page = <<>>

LInv ==
  /\ backend \in {"gcs", "memory"}
  /\ Whole(listing)
  /\ \A c \in Clients : Lister(backend, pc[c], listing[c], throughout[c], sometime[c], DOMAIN objects)

(* A listing is running or it is not. *)
LEMMA ActiveKinds ==
  ASSUME NEW b, NEW l \in Idle \union Running(b)
  PROVE  /\ l.active \in BOOLEAN
         /\ l.active => /\ l \in Running(b) /\ l.prefix \subseteq Keys
                        /\ l.page \in Seq(Infos) /\ l.told \in Seq(Infos)
                        /\ b = "gcs" => l.more \in BOOLEAN
         /\ ~l.active => l \in Idle
  BY DEF Idle, Running

(* One caller's listing goes on, and what the others' have seen grows. *)
LEMMA ListerPreserves ==
  ASSUME IInv, LInv, NEW c \in Clients, NEW p, NEW l,
         pc' = [pc EXCEPT ![c] = p], listing' = [listing EXCEPT ![c] = l], Observe, UNCHANGED backend,
         Lister(backend, p, l, throughout'[c], sometime'[c], DOMAIN objects')
  PROVE  LInv'
<1>1. Whole(listing)'
  BY DEF LInv, Whole
<1>2. ASSUME NEW d \in Clients PROVE Lister(backend, pc'[d], listing'[d], throughout'[d], sometime'[d], DOMAIN objects')
  <2>1. CASE d = c
    <3>1. pc'[d] = p /\ listing'[d] = l
      BY <2>1 DEF IInv, LInv, Whole
    <3> QED
      BY <2>1, <3>1
  <2>2. CASE d # c
    <3>1. pc'[d] = pc[d] /\ listing'[d] = listing[d]
      BY <2>2 DEF IInv, LInv, Whole
    <3>2. Lister(backend, pc[d], listing[d], throughout[d], sometime[d], DOMAIN objects)
      BY DEF LInv
    <3>3. listing[d].active =>
            /\ throughout'[d] = throughout[d] \intersect DOMAIN objects'
            /\ sometime'[d] = sometime[d] \union Snap'
      BY <3>1 DEF Observe
    <3>4. listing[d].active => InOrder(listing[d], sometime'[d])
      BY <3>2, <3>3 DEF Lister, InOrder
    <3>5. listing[d].active => Complete(listing[d], throughout'[d], Waiting(backend, pc[d], listing[d]))
      BY <3>2, <3>3 DEF Lister, Complete
    <3> QED
      BY <3>1, <3>2, <3>3, <3>4, <3>5 DEF Lister
  <2> QED
    BY <2>1, <2>2
<1> QED
  BY <1>1, <1>2 DEF LInv

(* A caller does something else than list, and its listing, if one called it back, waits. *)
LEMMA NoListStep ==
  ASSUME IInv, LInv, NEW c \in Clients, NEW p,
         pc' = [pc EXCEPT ![c] = p], UNCHANGED <<backend, listing>>, Observe,
         p = "idle" => ~listing[c].active,
         p \in ListPlaces => listing[c].active,
         listing[c].active /\ backend # "gcs" => (p \in Locking <=> pc[c] \in Locking)
  PROVE  LInv'
<1> DEFINE l == listing[c]
<1>1. listing' = [listing EXCEPT ![c] = l]
  BY Same DEF LInv
<1>2. Lister(backend, pc[c], l, throughout[c], sometime[c], DOMAIN objects)
  BY DEF LInv
<1>3. l.active =>
        /\ throughout'[c] = throughout[c] \intersect DOMAIN objects'
        /\ sometime'[c] = sometime[c] \union Snap'
  BY DEF Observe
<1>4. l.active => InOrder(l, sometime'[c])
  BY <1>2, <1>3 DEF Lister, InOrder
<1>5. l.active => Complete(l, throughout'[c], Waiting(backend, p, l))
  BY <1>2, <1>3 DEF Lister, Complete, Waiting
<1> HIDE DEF l
<1>6. Lister(backend, p, l, throughout'[c], sometime'[c], DOMAIN objects')
  BY <1>2, <1>3, <1>4, <1>5 DEF Lister, l
<1> QED
  BY <1>1, <1>6, ListerPreserves

(* An order of a finite set of keys has each of them once. *)
LEMMA OrderHasAll ==
  ASSUME NEW S, IsFiniteSet(S), NEW order \in SetToSeqs(S)
  PROVE  order \in Seq(S) /\ \A k \in S : \E i \in DOMAIN order : order[i] = k
<1> DEFINE D == 1..Cardinality(S)
<1>1. Cardinality(S) \in Nat
  BY FS_CardinalityType
<1>2. order \in [D -> S] /\ \A i, j \in D : i # j => order[i] # order[j]
  BY Zenon DEF SetToSeqs
<1>3. IsFiniteSet(D) /\ Cardinality(D) = Cardinality(S)
  BY <1>1, FS_Interval
<1>4. order \in Injection(D, S)
  BY <1>2 DEF Injection, IsInjective
<1>5. order \in Surjection(D, S)
  BY <1>3, <1>4, FS_Injection
<1> QED
  BY <1>1, <1>2, <1>5 DEF Surjection

(* Either store walks a set of keys in ascending order. *)
LEMMA GcsOrders ==
  ASSUME NEW S \in SUBSET Keys, NEW order \in Gcs!Ascending(S)
  PROVE  /\ order \in Seq(S) /\ \A k \in S : \E i \in DOMAIN order : order[i] = k
         /\ \A i, j \in DOMAIN order : i < j => order[i] < order[j]
<1>1. Gcs!SetToSeqs(S) = SetToSeqs(S)
  BY Zenon DEF Gcs!SetToSeqs, SetToSeqs, Gcs!Cardinality, Cardinality
<1>2. order \in SetToSeqs(S) /\ \A i, j \in DOMAIN order : i < j => order[i] < order[j]
  BY <1>1 DEF Gcs!Ascending
<1>3. IsFiniteSet(S)
  BY StoresAssumption, FS_Subset
<1> QED
  BY <1>2, <1>3, OrderHasAll

(* The other too. *)
LEMMA MemOrders ==
  ASSUME NEW S \in SUBSET Keys, NEW order \in Mem!Ascending(S)
  PROVE  /\ order \in Seq(S) /\ \A k \in S : \E i \in DOMAIN order : order[i] = k
         /\ \A i, j \in DOMAIN order : i < j => order[i] < order[j]
<1>1. Mem!SetToSeqs(S) = SetToSeqs(S)
  BY Zenon DEF Mem!SetToSeqs, SetToSeqs, Mem!Cardinality, Cardinality
<1>2. order \in SetToSeqs(S) /\ \A i, j \in DOMAIN order : i < j => order[i] < order[j]
  BY <1>1 DEF Mem!Ascending
<1>3. IsFiniteSet(S)
  BY StoresAssumption, FS_Subset
<1> QED
  BY <1>2, <1>3, OrderHasAll

(* The keys of a listing that are in the store behind the last key told. *)
Rest(l) == {k \in l.prefix \intersect DOMAIN objects : l.told = <<>> \/ k > l.told[Len(l.told)].key}

Page(order, m) == [n \in 1..m |-> [key |-> order[n], size |-> Len(objects[order[n]])]]

(* It is one of what the store reports. *)
LEMMA PageType ==
  ASSUME Objects, NEW p, p.prefix \in SUBSET Keys, NEW order \in Seq(Rest(p)), NEW m \in 0..Len(order)
  PROVE  Page(order, m) \in Seq(Infos)
<1>1. /\ DOMAIN order = 1..Len(order) /\ Len(order) \in Nat /\ m \in Nat
      /\ \A i \in 1..Len(order) : order[i] \in Rest(p)
  OBVIOUS
<1>2. ASSUME NEW n \in 1..m PROVE [key |-> order[n], size |-> Len(objects[order[n]])] \in Infos
  <2>1. order[n] \in Keys /\ order[n] \in DOMAIN objects
    BY <1>1 DEF Rest
  <2>2. Len(objects[order[n]]) \in Nat
    BY <2>1 DEF Objects
  <2> QED
    BY <2>1, <2>2 DEF Infos
<1>3. [n \in 1..m |-> [key |-> order[n], size |-> Len(objects[order[n]])]] \in Seq(Infos)
  BY <1>1, <1>2, IsASeq
<1> QED
  BY <1>3 DEF Page

(* A page holds the first of what the store has behind the last key told. *)
LEMMA PageFetched ==
  ASSUME Objects, NEW always \in SUBSET DOMAIN objects, NEW seen, Snap \subseteq seen,
         NEW p, p.told \in Seq(Infos), p.prefix \in SUBSET Keys, p.page = <<>>,
         InOrder(p, seen), Complete(p, always, TRUE),
         NEW order \in Seq(Rest(p)), \A k \in Rest(p) : \E i \in DOMAIN order : order[i] = k,
         \A i, j \in DOMAIN order : i < j => order[i] < order[j],
         NEW m \in 0..Len(order), NEW l, l.told = p.told, l.prefix = p.prefix, l.page = Page(order, m)
  PROVE  l.page \in Seq(Infos) /\ InOrder(l, seen) /\ Complete(l, always, m < Len(order))
<1> DEFINE told == p.told
           prefix == p.prefix
           rest == Rest(p)
<1>1. rest \subseteq Keys /\ Keys \subseteq Nat
  BY StoresAssumption DEF Rest
<1>2. /\ \A i, j \in DOMAIN told : i < j => told[i].key < told[j].key
      /\ \A i \in DOMAIN told : told[i] \in seen /\ told[i].key \in prefix
  BY DEF InOrder
<1>21. \A k \in always \intersect prefix :
        (\E i \in DOMAIN told : told[i].key = k) \/ (\A i \in DOMAIN told : told[i].key < k)
  <2>1. DOMAIN p.page = {}
    OBVIOUS
  <2> QED
    BY <2>1 DEF Complete, Reported, Behind
<1>22. rest = {k \in prefix \intersect DOMAIN objects : told = <<>> \/ k > told[Len(told)].key}
  BY DEF Rest
<1>23. l.page = [n \in 1..m |-> [key |-> order[n], size |-> Len(objects[order[n]])]]
  BY DEF Page
<1>24. told \in Seq(Infos) /\ prefix \subseteq Keys /\ l.told = told /\ l.prefix = prefix
      /\ rest \subseteq DOMAIN objects
  BY DEF Rest
<1> HIDE DEF told, prefix, rest
<1>3. DOMAIN order = 1..Len(order) /\ Len(order) \in Nat /\ \A i \in 1..Len(order) : order[i] \in rest
  BY DEF rest
<1>4. ASSUME NEW n \in 1..m
      PROVE  /\ order[n] \in rest /\ order[n] \in Keys /\ order[n] \in Nat
             /\ [key |-> order[n], size |-> Len(objects[order[n]])] \in Infos \intersect Snap
  <2>1. n \in 1..Len(order)
    BY <1>3
  <2>2. order[n] \in rest /\ order[n] \in Keys /\ order[n] \in Nat /\ order[n] \in DOMAIN objects
    BY <1>1, <1>3, <1>24, <2>1
  <2>3. Len(objects[order[n]]) \in Nat
    BY <2>2 DEF Objects
  <2> QED
    BY <2>2, <2>3 DEF Infos, Snap
<1>5. DOMAIN l.page = 1..m /\ m \in Nat
  BY <1>3, <1>23
<1>6. ASSUME NEW n \in 1..m
      PROVE  l.page[n] = [key |-> order[n], size |-> Len(objects[order[n]])] /\ l.page[n].key = order[n]
  BY <1>23
<1>7. l.page \in Seq(Infos)
  <2>1. \A n \in 1..m : [key |-> order[n], size |-> Len(objects[order[n]])] \in Infos
    BY <1>4
  <2>2. [n \in 1..m |-> [key |-> order[n], size |-> Len(objects[order[n]])]] \in Seq(Infos)
    BY <1>5, <2>1, IsASeq
  <2> QED
    BY <1>23, <2>2
<1>8. DOMAIN told = 1..Len(told) /\ Len(told) \in Nat /\ \A i \in DOMAIN told : told[i].key \in Nat
  <2>1. DOMAIN told = 1..Len(told) /\ Len(told) \in Nat /\ \A i \in DOMAIN told : told[i] \in Infos
    BY <1>24
  <2>2. \A i \in DOMAIN told : told[i].key \in Keys
    BY <2>1 DEF Infos
  <2> QED
    BY <1>1, <2>1, <2>2
<1>9. ASSUME NEW k \in rest, NEW i \in DOMAIN told PROVE told[i].key < k
  <2>1. Len(told) \in DOMAIN told /\ told # <<>>
    BY <1>8
  <2>2. told[Len(told)].key < k /\ k \in Nat
    BY <1>1, <1>8, <1>22, <2>1
  <2>3. i = Len(told) \/ i < Len(told)
    BY <1>8
  <2>4. i < Len(told) => told[i].key < told[Len(told)].key
    BY <1>2, <2>1
  <2> QED
    BY <1>8, <2>1, <2>2, <2>3, <2>4
<1>10. InOrder(l, seen)
  <2>1. \A i, j \in DOMAIN l.page : i < j => l.page[i].key < l.page[j].key
    BY <1>3, <1>5, <1>6
  <2>2. \A i \in DOMAIN l.told, j \in DOMAIN l.page : l.told[i].key < l.page[j].key
    BY <1>4, <1>5, <1>6, <1>9, <1>24
  <2>3. \A j \in DOMAIN l.page : l.page[j] \in seen /\ l.page[j].key \in l.prefix
    BY <1>4, <1>5, <1>6, <1>22, <1>24
  <2> QED
    BY <1>2, <1>24, <2>1, <2>2, <2>3 DEF InOrder
<1>11. ASSUME NEW k \in always \intersect prefix
       PROVE  Reported(l, k) \/ (m < Len(order) /\ Behind(l, k))
  <2>1. CASE \E i \in DOMAIN told : told[i].key = k
    BY <1>24, <2>1 DEF Reported
  <2>2. CASE ~\E i \in DOMAIN told : told[i].key = k
    <3>1. k \in Nat /\ \A i \in DOMAIN told : told[i].key < k
      BY <1>1, <1>21, <1>24, <2>2
    <3>2. k \in rest
      <4>1. told # <<>> => Len(told) \in DOMAIN told
        BY <1>8
      <4>2. told # <<>> => told[Len(told)].key < k /\ told[Len(told)].key \in Nat
        BY <1>8, <3>1, <4>1
      <4>3. told = <<>> \/ k > told[Len(told)].key
        BY <3>1, <4>2
      <4>4. k \in prefix \intersect DOMAIN objects
        OBVIOUS
      <4> QED
        BY <1>22, <4>3, <4>4
    <3>3. PICK i \in 1..Len(order) : order[i] = k
      BY <1>3, <3>2 DEF rest
    <3>4. CASE i \in 1..m
      BY <1>5, <1>6, <3>3, <3>4 DEF Reported
    <3>5. CASE i > m
      <4>1. ASSUME NEW n \in 1..m PROVE l.page[n].key < k
        <5>1. n \in DOMAIN order /\ i \in DOMAIN order /\ n < i
          BY <1>3, <3>5
        <5>2. order[n] < order[i]
          BY <5>1
        <5> QED
          BY <1>6, <3>3, <5>2
      <4> QED
        BY <1>3, <1>5, <3>1, <3>3, <3>5, <4>1, <1>24 DEF Behind
    <3> QED
      BY <1>3, <3>3, <3>4, <3>5
  <2> QED
    BY <2>1, <2>2
<1> QED
  BY <1>7, <1>10, <1>11, <1>24 DEF Complete

(* The callback is told of the first object at hand. *)
LEMMA HeadTold ==
  ASSUME NEW told \in Seq(Infos), NEW page \in Seq(Infos), page # <<>>, NEW seen, NEW always, NEW waiting,
         NEW l, l.told = told, l.page = page, InOrder(l, seen), Complete(l, always, waiting),
         NEW m, m.told = Append(told, Head(page)), m.page = Tail(page), m.prefix = l.prefix
  PROVE  /\ m.told \in Seq(Infos) /\ m.page \in Seq(Infos)
         /\ InOrder(m, seen) /\ Complete(m, always, waiting)
<1>1. /\ DOMAIN told = 1..Len(told) /\ Len(told) \in Nat
      /\ DOMAIN page = 1..Len(page) /\ Len(page) \in Nat \ {0}
  OBVIOUS
<1>2. /\ m.told \in Seq(Infos) /\ DOMAIN m.told = 1..(Len(told) + 1)
      /\ \A i \in DOMAIN told : m.told[i] = told[i]
      /\ m.told[Len(told) + 1] = page[1]
  BY <1>1
<1>3. /\ m.page \in Seq(Infos) /\ DOMAIN m.page = 1..(Len(page) - 1)
      /\ \A j \in DOMAIN m.page : j + 1 \in DOMAIN page /\ m.page[j] = page[j + 1]
  BY <1>1
<1>4. 1 \in DOMAIN page /\ \A j \in DOMAIN page : j = 1 \/ (j - 1 \in DOMAIN m.page /\ m.page[j - 1] = page[j])
  BY <1>1, <1>3
<1>5. \A i \in DOMAIN m.told : i \in DOMAIN told \/ i = Len(told) + 1
  BY <1>1, <1>2
<1>6. Len(told) + 1 \in DOMAIN m.told /\ DOMAIN told \subseteq DOMAIN m.told
  BY <1>1, <1>2
<1>7. InOrder(m, seen)
  <2>1. ASSUME NEW i \in DOMAIN m.told, NEW j \in DOMAIN m.told, i < j PROVE m.told[i].key < m.told[j].key
    <3>1. i \in DOMAIN told /\ m.told[i] = told[i]
      BY <1>1, <1>2, <2>1
    <3>2. CASE j \in DOMAIN told
      BY <1>2, <2>1, <3>1, <3>2 DEF InOrder
    <3>3. CASE j = Len(told) + 1
      BY <1>2, <1>4, <3>1, <3>3 DEF InOrder
    <3> QED
      BY <1>5, <3>2, <3>3
  <2>2. ASSUME NEW i \in DOMAIN m.page, NEW j \in DOMAIN m.page, i < j PROVE m.page[i].key < m.page[j].key
    <3>1. i + 1 \in DOMAIN page /\ j + 1 \in DOMAIN page /\ i + 1 < j + 1
      BY <1>3, <2>2
    <3> QED
      BY <1>3, <3>1 DEF InOrder
  <2>3. ASSUME NEW i \in DOMAIN m.told, NEW j \in DOMAIN m.page PROVE m.told[i].key < m.page[j].key
    <3>1. j + 1 \in DOMAIN page /\ m.page[j] = page[j + 1] /\ 1 < j + 1
      BY <1>3
    <3>2. CASE i \in DOMAIN told
      BY <1>2, <3>1, <3>2 DEF InOrder
    <3>3. CASE i = Len(told) + 1
      BY <1>2, <1>4, <3>1, <3>3 DEF InOrder
    <3> QED
      BY <1>5, <3>2, <3>3
  <2>4. ASSUME NEW i \in DOMAIN m.told PROVE m.told[i] \in seen /\ m.told[i].key \in m.prefix
    <3>1. CASE i \in DOMAIN told
      BY <1>2, <3>1 DEF InOrder
    <3>2. CASE i = Len(told) + 1
      BY <1>2, <1>4, <3>2 DEF InOrder
    <3> QED
      BY <1>5, <3>1, <3>2
  <2>5. ASSUME NEW j \in DOMAIN m.page PROVE m.page[j] \in seen /\ m.page[j].key \in m.prefix
    BY <1>3 DEF InOrder
  <2> QED
    BY <2>1, <2>2, <2>3, <2>4, <2>5 DEF InOrder
<1>8. ASSUME NEW k \in always \intersect m.prefix PROVE Reported(m, k) \/ (waiting /\ Behind(m, k))
  <2>1. CASE \E i \in DOMAIN told : told[i].key = k
    BY <1>2, <1>6, <2>1 DEF Reported
  <2>2. ASSUME NEW j \in DOMAIN page, page[j].key = k PROVE Reported(m, k)
    BY <1>2, <1>4, <1>6, <2>2 DEF Reported
  <2>3. CASE waiting /\ Behind(l, k)
    <3>1. \A i \in DOMAIN m.told : m.told[i].key < k
      BY <1>2, <1>4, <1>5, <2>3 DEF Behind
    <3>2. \A j \in DOMAIN m.page : m.page[j].key < k
      BY <1>3, <2>3 DEF Behind
    <3> QED
      BY <2>3, <3>1, <3>2 DEF Behind
  <2> QED
    BY <2>1, <2>2, <2>3 DEF Complete, Reported
<1> QED
  BY <1>2, <1>3, <1>7, <1>8 DEF Complete

(* A caller begins to list. *)
LEMMA ListStarts ==
  ASSUME IInv, LInv, Objects, NEW c \in Clients, NEW prefix \in PrefixSets, Observe, UNCHANGED backend,
         \/ backend = "gcs" /\ Gcs!ListStart(c, prefix)
         \/ backend = "memory" /\ Mem!ListStart(c, prefix)
  PROVE  LInv'
<1> DEFINE p == IF backend = "gcs" THEN "listing" ELSE "listLocking"
           l == IF backend = "gcs"
                THEN [active |-> TRUE, prefix |-> prefix, page |-> <<>>, more |-> TRUE, told |-> <<>>]
                ELSE [active |-> TRUE, prefix |-> prefix, page |-> <<>>, told |-> <<>>]
<1>1. pc[c] = "idle" /\ pc' = [pc EXCEPT ![c] = p] /\ listing' = [listing EXCEPT ![c] = l] /\ UNCHANGED objects
  BY DEF Gcs!ListStart, Gcs!Goto, Mem!ListStart, Mem!Goto
<1>2. l \in Running(backend) /\ l.active /\ l.told = <<>> /\ l.page = <<>> /\ l.prefix = prefix
      /\ (backend = "gcs" => l.more)
  <2>1. prefix \in SUBSET Keys /\ <<>> \in Seq(Infos)
    BY StoresAssumption
  <2>2. CASE backend = "gcs"
    BY <2>1, <2>2 DEF Running
  <2>3. CASE backend # "gcs"
    BY <2>1, <2>3 DEF Running
  <2> QED
    BY <2>2, <2>3
<1>3. p \in ListPlaces /\ p # "idle" /\ Waiting(backend, p, l)
  BY <1>2 DEF ListPlaces, Locking, Waiting
<1> HIDE DEF p, l
<1>4. listing'[c] = l /\ ~listing[c].active
  BY <1>1 DEF LInv, Whole, Lister
<1>5. throughout'[c] = DOMAIN objects
  BY <1>2, <1>4 DEF Observe
<1>6. DOMAIN l.told = {} /\ DOMAIN l.page = {}
  BY <1>2
<1>7. InOrder(l, sometime'[c]) /\ Complete(l, throughout'[c], Waiting(backend, p, l))
  BY <1>3, <1>6 DEF InOrder, Complete, Behind
<1>8. Lister(backend, p, l, throughout'[c], sometime'[c], DOMAIN objects')
  BY <1>1, <1>2, <1>3, <1>5, <1>7 DEF Lister
<1> QED
  BY <1>1, <1>8, ListerPreserves

(* A listing with another page. *)
Turned(l, page, more) == [l EXCEPT !.page = page, !.more = more]

(* It is the same listing otherwise. *)
LEMMA PageTurns ==
  ASSUME NEW l \in Running("gcs"), NEW page, NEW more \in BOOLEAN
  PROVE  LET q == Turned(l, page, more) IN
         /\ q.told = l.told /\ q.prefix = l.prefix /\ q.page = page /\ q.active = l.active /\ q.more = more
         /\ page \in Seq(Infos) => q \in Running("gcs")
<1> DEFINE q == [l EXCEPT !.page = page, !.more = more]
<1>1. l \in [active : {TRUE}, prefix : SUBSET Keys, page : Seq(Infos), more : BOOLEAN, told : Seq(Infos)]
  BY Zenon DEF Running
<1>2. q.told = l.told /\ q.prefix = l.prefix /\ q.page = page /\ q.active = l.active /\ q.more = more
  BY <1>1
<1>3. page \in Seq(Infos) =>
        q \in [active : {TRUE}, prefix : SUBSET Keys, page : Seq(Infos), more : BOOLEAN, told : Seq(Infos)]
  BY <1>1
<1> QED
  BY <1>2, <1>3, Zenon DEF Running, Turned

(* The adapter asks for a page. *)
LEMMA PageAsked ==
  ASSUME IInv, LInv, Objects, NEW c \in Clients, Observe, UNCHANGED backend, backend = "gcs",
         Gcs!NextPage(c)
  PROVE  LInv'
<1> DEFINE l == listing[c]
<1>1. /\ pc[c] = "listing" /\ l.active /\ l.page = <<>> /\ l.more
      /\ UNCHANGED <<objects, pc>>
  BY Zenon DEF Gcs!NextPage
<1>2. PICK keys \in Gcs!Ascending(Rest(l)) :
        listing' = [listing EXCEPT ![c].page = [n \in 1..Gcs!Min({PageSize, Len(keys)}) |-> Gcs!Info(keys[n])],
                                   ![c].more = PageSize < Len(keys)]
  BY Zenon DEF Gcs!NextPage, Gcs!Last, Rest
<1>3. Lister(backend, pc[c], l, throughout[c], sometime[c], DOMAIN objects) /\ Whole(listing)
  BY DEF LInv
<1>4. /\ l \in Running(backend) /\ l.prefix \in SUBSET Keys /\ l.told \in Seq(Infos)
      /\ l.page \in Seq(Infos)
  BY <1>1, <1>3, ActiveKinds DEF Lister
<1>5. /\ keys \in Seq(Rest(l)) /\ \A k \in Rest(l) : \E i \in DOMAIN keys : keys[i] = k
      /\ \A i, j \in DOMAIN keys : i < j => keys[i] < keys[j]
  <2>1. Rest(l) \in SUBSET Keys
    BY <1>4 DEF Rest
  <2> QED
    BY <2>1, <1>2, GcsOrders
<1> DEFINE m == IF PageSize <= Len(keys) THEN PageSize ELSE Len(keys)
           more == PageSize < Len(keys)
           page == Page(keys, m)
           q == Turned(l, page, more)
<1>6. Len(keys) \in Nat /\ PageSize \in Nat \ {0} /\ m \in 0..Len(keys) /\ Gcs!Min({PageSize, Len(keys)}) = m
      /\ (more = (m < Len(keys))) /\ (more \in BOOLEAN)
  BY <1>5, StoresAssumption, MinOfTwo
<1>7. page = [n \in 1..Gcs!Min({PageSize, Len(keys)}) |-> Gcs!Info(keys[n])]
  BY <1>6 DEF Gcs!Info, Page
<1> HIDE DEF l, m, more, page
<1>8. listing' = [listing EXCEPT ![c] = q]
  <2>1. listing' = [listing EXCEPT ![c].page = page, ![c].more = more]
    BY <1>2, <1>7 DEF more
  <2> QED
    BY <1>3, <2>1 DEF Whole, l, Turned
<1>9. /\ q.told = l.told /\ q.prefix = l.prefix /\ q.page = page /\ q.active /\ q.more = more
      /\ (q.page \in Seq(Infos) => q \in Running(backend))
  <2>1. l \in Running("gcs") /\ l.active
    BY <1>1, <1>4 DEF l
  <2> HIDE DEF q
  <2>2. q = Turned(l, page, more)
    BY DEF q
  <2>3. more \in BOOLEAN
    BY <1>6
  <2>4. q.told = l.told
    BY <2>1, <2>2, <2>3, PageTurns
  <2>5. q.page = page
    BY <2>1, <2>2, <2>3, PageTurns
  <2>6. q.more = more
    BY <2>1, <2>2, <2>3, PageTurns
  <2>7. q.active
    BY <2>1, <2>2, <2>3, PageTurns
  <2>8. q.page \in Seq(Infos) => q \in Running("gcs")
    BY <2>1, <2>2, <2>3, PageTurns
  <2>9. q.prefix = l.prefix
    BY <2>1, <2>2, <2>3, PageTurns
  <2> QED
    BY <2>4, <2>5, <2>6, <2>7, <2>8, <2>9
<1>10. throughout'[c] = throughout[c] \intersect DOMAIN objects /\ sometime'[c] = sometime[c] \union Snap
  <2>1. listing'[c] = q
    BY <1>3, <1>8 DEF Whole
  <2>2. listing'[c].active /\ listing[c].active
    BY <1>1, <1>9, <2>1 DEF l
  <2>3. Snap' = Snap
    BY <1>1 DEF Snap
  <2>4. throughout'[c] = throughout[c] \intersect DOMAIN objects' /\ sometime'[c] = sometime[c] \union Snap'
    BY <2>2 DEF Observe
  <2> QED
    BY <1>1, <2>3, <2>4
<1> HIDE DEF q
<1>11. /\ q.page \in Seq(Infos) /\ InOrder(q, sometime'[c])
       /\ Complete(q, throughout'[c], m < Len(keys))
  <2>1. InOrder(l, sometime'[c])
    BY <1>1, <1>3, <1>10 DEF Lister, InOrder
  <2>2. Complete(l, throughout'[c], TRUE)
    BY <1>1, <1>3, <1>10 DEF Lister, Complete
  <2>3. Snap \subseteq sometime'[c] /\ throughout'[c] \in SUBSET DOMAIN objects
    BY <1>10
  <2>4. q.page = Page(keys, m)
    BY <1>9 DEF page
  <2>5. l.page = <<>>
    BY <1>1 DEF l
  <2>6. m \in 0..Len(keys)
    BY <1>6
  <2>7. q.told = l.told /\ q.prefix = l.prefix
    BY <1>9
  <2>8. q.page \in Seq(Infos)
    <3>1. l.prefix \in SUBSET Keys /\ keys \in Seq(Rest(l))
      BY <1>4, <1>5
    <3>2. Page(keys, m) \in Seq(Infos)
      BY <2>6, <3>1, PageType
    <3> QED
      BY <2>4, <3>2, Zenon
  <2>9. InOrder(q, sometime'[c])
    BY <1>4, <1>5, <2>1, <2>2, <2>3, <2>4, <2>5, <2>6, <2>7, PageFetched
  <2>10. Complete(q, throughout'[c], m < Len(keys))
    BY <1>4, <1>5, <2>1, <2>2, <2>3, <2>4, <2>5, <2>6, <2>7, PageFetched
  <2> QED
    BY <2>8, <2>9, <2>10
<1>12. Lister(backend, pc[c], q, throughout'[c], sometime'[c], DOMAIN objects')
  <2>1. Waiting(backend, pc[c], q) = (m < Len(keys))
    BY <1>6, <1>9 DEF Waiting
  <2>2. q \in Running(backend) /\ q.active
    BY <1>9, <1>11
  <2> QED
    BY <1>1, <1>10, <1>11, <2>1, <2>2 DEF Lister
<1> QED
  BY <1>1, <1>8, <1>12, ListerPreserves, Same DEF IInv

(* A listing of the in-memory store with its one page. *)
Filled(l, page) == [l EXCEPT !.page = page]

(* It is the same listing otherwise. *)
LEMMA PageFills ==
  ASSUME NEW l \in Running("memory"), NEW page
  PROVE  LET q == Filled(l, page) IN
         /\ q.told = l.told /\ q.prefix = l.prefix /\ q.page = page /\ q.active = l.active
         /\ page \in Seq(Infos) => q \in Running("memory")
<1> DEFINE q == [l EXCEPT !.page = page]
<1>1. l \in [active : {TRUE}, prefix : SUBSET Keys, page : Seq(Infos), told : Seq(Infos)]
  BY DEF Running
<1>2. q.told = l.told /\ q.prefix = l.prefix /\ q.page = page /\ q.active = l.active
  BY <1>1
<1>3. page \in Seq(Infos) => q \in [active : {TRUE}, prefix : SUBSET Keys, page : Seq(Infos), told : Seq(Infos)]
  BY <1>1
<1>4. page \in Seq(Infos) => q \in Running("memory")
  BY <1>3 DEF Running
<1> QED
  BY <1>2, <1>4, Zenon DEF Filled

(* The in-memory store copies what it will report. *)
LEMMA SnapshotTaken ==
  ASSUME IInv, LInv, Objects, NEW c \in Clients, Observe, UNCHANGED backend, backend = "memory",
         Mem!Snapshot(c)
  PROVE  LInv'
<1> DEFINE l == listing[c]
<1>1. /\ pc[c] = "listLocked" /\ pc' = [pc EXCEPT ![c] = "listing"]
      /\ UNCHANGED objects
  BY Zenon DEF Mem!Snapshot, Mem!Goto
<1>2. PICK keys \in Mem!Ascending(l.prefix \intersect DOMAIN objects) :
        listing' = [listing EXCEPT ![c].page = [n \in DOMAIN keys |-> Mem!Info(keys[n])]]
  BY Zenon DEF Mem!Snapshot
<1>3. Lister(backend, pc[c], l, throughout[c], sometime[c], DOMAIN objects) /\ Whole(listing)
  BY DEF LInv
<1>4. l.active /\ l.told = <<>> /\ l.page = <<>>
  BY <1>1, <1>3 DEF Lister, ListPlaces, Locking
<1>5. /\ l \in Running(backend) /\ l.prefix \in SUBSET Keys /\ l.told \in Seq(Infos)
      /\ l.page \in Seq(Infos)
  BY <1>3, <1>4, ActiveKinds DEF Lister
<1>6. Rest(l) = l.prefix \intersect DOMAIN objects
  BY <1>4 DEF Rest
<1>7. /\ keys \in Seq(Rest(l)) /\ \A k \in Rest(l) : \E i \in DOMAIN keys : keys[i] = k
      /\ \A i, j \in DOMAIN keys : i < j => keys[i] < keys[j]
  <2>1. Rest(l) \in SUBSET Keys
    BY <1>5, <1>6
  <2> QED
    BY <2>1, <1>2, <1>6, MemOrders
<1> DEFINE m == Len(keys)
           page == Page(keys, m)
           q == Filled(l, page)
<1>8. m \in 0..Len(keys) /\ ~(m < Len(keys)) /\ DOMAIN keys = 1..m
  BY <1>7
<1>9. page = [n \in DOMAIN keys |-> Mem!Info(keys[n])]
  BY <1>8 DEF Mem!Info, Page
<1> HIDE DEF l, m, page
<1>10. listing' = [listing EXCEPT ![c] = q]
  <2>1. listing' = [listing EXCEPT ![c].page = page]
    BY <1>2, <1>9
  <2> QED
    BY <1>3, <2>1 DEF Whole, l, Filled
<1>11. l \in Running("memory")
  BY <1>5
<1>12. q.told = l.told /\ q.prefix = l.prefix /\ q.page = page /\ q.active
       /\ (page \in Seq(Infos) => q \in Running("memory"))
  <2>1. q.told = l.told /\ q.prefix = l.prefix
    BY <1>11, PageFills
  <2>2. q.page = page /\ q.active
    BY <1>4, <1>11, PageFills DEF l
  <2>3. page \in Seq(Infos) => q \in Running("memory")
    BY <1>11, PageFills
  <2> QED
    BY <2>1, <2>2, <2>3
<1>13. throughout'[c] = throughout[c] \intersect DOMAIN objects /\ sometime'[c] = sometime[c] \union Snap
  <2>1. listing'[c] = q
    BY <1>3, <1>10 DEF Whole
  <2>2. listing'[c].active /\ listing[c].active
    BY <1>4, <1>12, <2>1 DEF l
  <2>3. Snap' = Snap
    BY <1>1 DEF Snap
  <2>4. throughout'[c] = throughout[c] \intersect DOMAIN objects' /\ sometime'[c] = sometime[c] \union Snap'
    BY <2>2 DEF Observe
  <2> QED
    BY <1>1, <2>3, <2>4
<1> HIDE DEF q
<1>14. /\ page \in Seq(Infos) /\ InOrder(q, sometime'[c])
       /\ Complete(q, throughout'[c], m < Len(keys))
  <2>1. InOrder(l, sometime'[c])
    BY <1>3, <1>4, <1>13 DEF Lister, InOrder, l
  <2>2. Complete(l, throughout'[c], TRUE)
    BY <1>3, <1>4, <1>13 DEF Lister, Complete, l
  <2>3. Snap \subseteq sometime'[c] /\ throughout'[c] \in SUBSET DOMAIN objects
    BY <1>13
  <2>4. q.page = Page(keys, m) /\ l.page = <<>>
    BY <1>4, <1>12 DEF page, l
  <2>5. m \in 0..Len(keys)
    BY <1>8
  <2>6. q.told = l.told /\ q.prefix = l.prefix
    BY <1>12
  <2>7. Page(keys, m) \in Seq(Infos)
    BY <1>5, <1>7, <2>5, PageType
  <2>8. InOrder(q, sometime'[c])
    BY <1>5, <1>7, <2>1, <2>2, <2>3, <2>4, <2>5, <2>6, PageFetched
  <2>9. Complete(q, throughout'[c], m < Len(keys))
    BY <1>5, <1>7, <2>1, <2>2, <2>3, <2>4, <2>5, <2>6, PageFetched
  <2> QED
    BY <2>7, <2>8, <2>9, Zenon DEF page
<1>15. Lister(backend, "listing", q, throughout'[c], sometime'[c], DOMAIN objects')
  <2>1. Complete(q, throughout'[c], Waiting(backend, "listing", q))
    BY <1>8, <1>14 DEF Complete
  <2>2. q \in Running(backend) /\ q.active
    BY <1>12, <1>14
  <2> QED
    BY <1>1, <1>13, <1>14, <2>1, <2>2 DEF Lister, Locking
<1> QED
  BY <1>1, <1>10, <1>15, ListerPreserves

(* A listing whose callback was told of one object more. *)
Told(l) == [l EXCEPT !.told = Append(@, Head(l.page)), !.page = Tail(@)]

(* It is the same listing otherwise, and still one. *)
LEMMA ToldRunning ==
  ASSUME NEW b, NEW l \in Running(b), l.page # <<>>
  PROVE  LET q == Told(l) IN
         /\ q.told = Append(l.told, Head(l.page)) /\ q.page = Tail(l.page)
         /\ q.prefix = l.prefix /\ q.active = l.active /\ (b = "gcs" => q.more = l.more)
         /\ q \in Running(b)
<1> DEFINE q == [l EXCEPT !.told = Append(@, Head(l.page)), !.page = Tail(@)]
<1>1. CASE b = "gcs"
  <2>1. l \in [active : {TRUE}, prefix : SUBSET Keys, page : Seq(Infos), more : BOOLEAN, told : Seq(Infos)]
    BY <1>1, Zenon DEF Running
  <2>2. Append(l.told, Head(l.page)) \in Seq(Infos) /\ Tail(l.page) \in Seq(Infos)
    BY <2>1
  <2>3. q.told = Append(l.told, Head(l.page)) /\ q.page = Tail(l.page)
    BY <2>1
  <2>4. q.prefix = l.prefix /\ q.active = l.active /\ q.more = l.more
    BY <2>1
  <2>5. q \in [active : {TRUE}, prefix : SUBSET Keys, page : Seq(Infos), more : BOOLEAN, told : Seq(Infos)]
    BY <2>1, <2>2
  <2> QED
    BY <1>1, <2>3, <2>4, <2>5, Zenon DEF Running, Told
<1>2. CASE b # "gcs"
  <2>1. l \in [active : {TRUE}, prefix : SUBSET Keys, page : Seq(Infos), told : Seq(Infos)]
    BY <1>2, Zenon DEF Running
  <2>2. Append(l.told, Head(l.page)) \in Seq(Infos) /\ Tail(l.page) \in Seq(Infos)
    BY <2>1
  <2>3. q.told = Append(l.told, Head(l.page)) /\ q.page = Tail(l.page)
    BY <2>1
  <2>4. q.prefix = l.prefix /\ q.active = l.active
    BY <2>1
  <2>5. q \in [active : {TRUE}, prefix : SUBSET Keys, page : Seq(Infos), told : Seq(Infos)]
    BY <2>1, <2>2
  <2> QED
    BY <1>2, <2>3, <2>4, <2>5, Zenon DEF Running, Told
<1> QED
  BY <1>1, <1>2

(* The callback is told, by either store. *)
LEMMA Tells ==
  ASSUME IInv, LInv, NEW c \in Clients, Observe, UNCHANGED backend,
         \/ backend = "gcs" /\ Gcs!ListTells(c)
         \/ backend = "memory" /\ Mem!ListTells(c)
  PROVE  LInv'
<1> DEFINE l == listing[c]
           q == Told(l)
<1>1. /\ pc[c] = "listing" /\ pc' = [pc EXCEPT ![c] = "callback"] /\ l.page # <<>>
      /\ UNCHANGED objects
      /\ listing' = [listing EXCEPT ![c].told = Append(@, Head(listing[c].page)), ![c].page = Tail(@)]
  BY Zenon DEF Gcs!ListTells, Gcs!Goto, Mem!ListTells, Mem!Goto
<1>2. Lister(backend, pc[c], l, throughout[c], sometime[c], DOMAIN objects) /\ Whole(listing)
  BY DEF LInv
<1>3. l.active
  BY <1>1, <1>2 DEF Lister, ListPlaces
<1>4. /\ l \in Running(backend) /\ l.told \in Seq(Infos) /\ l.page \in Seq(Infos)
  BY <1>2, <1>3, ActiveKinds DEF Lister
<1>5. listing' = [listing EXCEPT ![c] = q]
  BY <1>1, <1>2, Zenon DEF Whole, Told
<1> HIDE DEF l, q
<1>6. /\ q.told = Append(l.told, Head(l.page)) /\ q.page = Tail(l.page)
      /\ q.prefix = l.prefix /\ q.active /\ (backend = "gcs" => q.more = l.more)
      /\ q \in Running(backend)
  <2>1. q = Told(l)
    BY DEF q
  <2>2. q.told = Append(l.told, Head(l.page)) /\ q.page = Tail(l.page)
    BY <1>1, <1>4, <2>1, ToldRunning
  <2>3. q.prefix = l.prefix /\ q.active
    BY <1>1, <1>3, <1>4, <2>1, ToldRunning
  <2>4. backend = "gcs" => q.more = l.more
    BY <1>1, <1>4, <2>1, ToldRunning
  <2>5. q \in Running(backend)
    BY <1>1, <1>4, <2>1, ToldRunning, Zenon
  <2> QED
    BY <2>2, <2>3, <2>4, <2>5
<1>7. throughout'[c] = throughout[c] \intersect DOMAIN objects' /\ sometime'[c] = sometime[c] \union Snap'
  <2>1. listing'[c] = q
    BY <1>2, <1>5 DEF Whole
  <2>2. listing'[c].active /\ listing[c].active
    BY <1>3, <1>6, <2>1 DEF l
  <2> QED
    BY <2>2 DEF Observe
<1>8. InOrder(l, sometime'[c])
  BY <1>2, <1>3, <1>7 DEF Lister, InOrder
<1>9. Waiting(backend, "callback", q) = Waiting(backend, pc[c], l)
  BY <1>1, <1>6 DEF Waiting, Locking
<1>10. Complete(l, throughout'[c], Waiting(backend, "callback", q))
  BY <1>2, <1>3, <1>7, <1>9 DEF Lister, Complete
<1>11. InOrder(q, sometime'[c]) /\ Complete(q, throughout'[c], Waiting(backend, "callback", q))
  <2>1. InOrder(q, sometime'[c])
    BY <1>1, <1>4, <1>6, <1>8, <1>10, HeadTold
  <2>2. Complete(q, throughout'[c], Waiting(backend, "callback", q))
    BY <1>1, <1>4, <1>6, <1>8, <1>10, HeadTold
  <2> QED
    BY <2>1, <2>2
<1>12. Lister(backend, "callback", q, throughout'[c], sometime'[c], DOMAIN objects')
  BY <1>6, <1>7, <1>11 DEF Lister, Locking
<1> QED
  BY <1>1, <1>5, <1>12, ListerPreserves

(* A List returns. *)
LEMMA ListEnds ==
  ASSUME IInv, LInv, NEW c \in Clients, NEW kind \in {"none", "ok", "error"}, Observe, UNCHANGED backend,
         pc' = [pc EXCEPT ![c] = "idle"],
         listing' = [listing EXCEPT ![c] = [active |-> FALSE, kind |-> kind]]
  PROVE  LInv'
<1> DEFINE q == [active |-> FALSE, kind |-> kind]
<1>1. q \in Idle /\ ~q.active
  BY DEF Idle
<1> HIDE DEF q
<1>2. Lister(backend, "idle", q, throughout'[c], sometime'[c], DOMAIN objects')
  BY <1>1 DEF Lister, ListPlaces
<1>3. listing' = [listing EXCEPT ![c] = q]
  BY DEF q
<1> QED
  BY <1>2, <1>3, ListerPreserves

(* Every step of the adapter keeps what is so of the listings. *)
LEMMA GcsLists ==
  ASSUME IInv, LInv, Objects, NEW c \in Clients, Observe, UNCHANGED backend, backend = "gcs",
         Gcs!StartStep(c) \/ Gcs!RunStep(c)
  PROVE  LInv'
<1>1. Lister(backend, pc[c], listing[c], throughout[c], sometime[c], DOMAIN objects) /\ Whole(listing)
  BY DEF LInv
<1>2. pc' = [pc EXCEPT ![c] = pc[c]] <=> UNCHANGED pc
  BY Same DEF IInv
<1>3. ASSUME NEW p \in {"copying", "requested", "refused", "closing", "aborting", "served"},
             pc' = [pc EXCEPT ![c] = p], UNCHANGED listing
      PROVE  LInv'
  BY <1>3, NoListStep DEF ListPlaces
<1>4. ASSUME NEW kind, Gcs!Return(c, kind) PROVE LInv'
  <2> DEFINE p == IF ~listing[c].active THEN "idle" ELSE IF kind = "ok" THEN "listing" ELSE "aborted"
  <2>1. p = "idle" => ~listing[c].active
    OBVIOUS
  <2>2. p \in ListPlaces => listing[c].active
    BY DEF ListPlaces
  <2>3. pc' = [pc EXCEPT ![c] = p] /\ UNCHANGED listing
    BY <1>4, Zenon DEF Gcs!Return, Gcs!Goto
  <2> HIDE DEF p
  <2> QED
    BY <2>1, <2>2, <2>3, NoListStep
<1>5. CASE Gcs!StartStep(c)
  <2>1. ASSUME NEW prefix \in PrefixSets, Gcs!ListStart(c, prefix) PROVE LInv'
    BY <2>1, ListStarts
  <2>2. ASSUME NEW k \in Keys, NEW b \in Bodies, Gcs!PutStart(c, k, b) PROVE LInv'
    BY <1>3, <2>2 DEF Gcs!PutStart, Gcs!Start, Gcs!Goto
  <2>3. ASSUME NEW k \in Keys, Gcs!DeleteStart(c, k) PROVE LInv'
    BY <1>3, <2>3 DEF Gcs!DeleteStart, Gcs!Start, Gcs!Goto
  <2>4. ASSUME NEW k \in Keys, NEW srcs \in SourceLists, Gcs!ComposeStart(c, k, srcs) PROVE LInv'
    <3> DEFINE p == IF Len(srcs) \in 1..MaxComposeSources THEN "requested" ELSE "refused"
    <3>1. p \in {"requested", "refused"} /\ pc' = [pc EXCEPT ![c] = p] /\ UNCHANGED listing
      BY <2>4 DEF Gcs!ComposeStart, Gcs!Start, Gcs!Goto
    <3> HIDE DEF p
    <3> QED
      BY <1>3, <3>1
  <2> QED
    BY <1>5, <2>1, <2>2, <2>3, <2>4 DEF Gcs!StartStep
<1>6. CASE Gcs!CopyBlock(c)
  BY <1>2, <1>3, <1>6 DEF Gcs!CopyBlock
<1>7. CASE Gcs!CopyDone(c) \/ Gcs!CopyFails(c) \/ Gcs!Finalize(c) \/ Gcs!ServeDelete(c) \/ Gcs!ServeCompose(c)
  <2>1. /\ \E p \in {"closing", "aborting", "served"} : pc' = [pc EXCEPT ![c] = p]
        /\ UNCHANGED listing
    BY <1>7, Zenon DEF Gcs!CopyDone, Gcs!CopyFails, Gcs!Finalize, Gcs!ServeDelete, Gcs!ServeCompose, Gcs!Goto
  <2> QED
    BY <1>3, <2>1
<1>8. CASE Gcs!CloseAborted(c) \/ Gcs!Refuse(c) \/ Gcs!RequestLost(c) \/ Gcs!Answered(c)
  BY <1>4, <1>8 DEF Gcs!CloseAborted, Gcs!Refuse, Gcs!RequestLost, Gcs!Answered
<1>9. CASE Gcs!NextPage(c)
  BY <1>9, PageAsked
<1>10. CASE Gcs!ListTells(c)
  BY <1>10, Tells
<1>11. CASE Gcs!FnReturns(c)
  <2>1. listing[c].active
    BY <1>1, <1>11 DEF Lister, ListPlaces, Gcs!FnReturns
  <2> QED
    BY <1>11, <2>1, NoListStep DEF Gcs!FnReturns, Gcs!Goto
<1>12. CASE Gcs!FnDeletes(c)
  BY <1>3, <1>12 DEF Gcs!FnDeletes, Gcs!Start, Gcs!Goto
<1>13. CASE Gcs!ListDone(c) \/ Gcs!ListFails(c)
  <2>1. /\ pc' = [pc EXCEPT ![c] = "idle"]
        /\ \/ listing' = [listing EXCEPT ![c] = [active |-> FALSE, kind |-> "ok"]]
           \/ listing' = [listing EXCEPT ![c] = [active |-> FALSE, kind |-> "error"]]
    BY <1>13 DEF Gcs!ListDone, Gcs!ListFails, Gcs!ListReturns, Gcs!Goto, Gcs!NoListing
  <2> QED
    BY <2>1, ListEnds
<1> QED
  BY <1>5, <1>6, <1>7, <1>8, <1>9, <1>10, <1>11, <1>12, <1>13
     DEF Gcs!RunStep, Gcs!PutStep, Gcs!RequestStep, Gcs!ListStep

(* Every step of the in-memory store does. *)
LEMMA MemLists ==
  ASSUME IInv, LInv, Objects, NEW c \in Clients, Observe, UNCHANGED backend, backend = "memory",
         Mem!StartStep(c) \/ Mem!RunStep(c) \/ Mem!Lock(c)
  PROVE  LInv'
<1>1. Lister(backend, pc[c], listing[c], throughout[c], sometime[c], DOMAIN objects) /\ Whole(listing)
  BY DEF LInv
<1>2. ASSUME NEW p \in {"reading", "locking", "refused", "locked", "unlocked"},
             pc' = [pc EXCEPT ![c] = p], UNCHANGED listing, pc[c] \notin Locking
      PROVE  LInv'
  BY <1>2, NoListStep DEF ListPlaces, Locking
<1>3. pc[c] = "idle" => ~listing[c].active
  BY <1>1 DEF Lister
<1>4. ASSUME NEW kind, Mem!Return(c, kind), pc[c] \notin Locking PROVE LInv'
  <2> DEFINE p == IF ~listing[c].active THEN "idle" ELSE IF kind = "ok" THEN "listing" ELSE "aborted"
  <2>1. p = "idle" => ~listing[c].active
    OBVIOUS
  <2>2. (p \in ListPlaces => listing[c].active) /\ p \notin Locking
    BY DEF ListPlaces, Locking
  <2>3. pc' = [pc EXCEPT ![c] = p] /\ UNCHANGED listing
    BY <1>4, Zenon DEF Mem!Return, Mem!Goto
  <2> HIDE DEF p
  <2> QED
    BY <1>4, <2>1, <2>2, <2>3, NoListStep
<1>5. CASE Mem!StartStep(c)
  <2>1. ASSUME NEW prefix \in PrefixSets, Mem!ListStart(c, prefix) PROVE LInv'
    BY <2>1, ListStarts
  <2>2. ASSUME NEW k \in Keys, NEW b \in Bodies, Mem!PutStart(c, k, b) PROVE LInv'
    BY <1>2, <2>2 DEF Mem!PutStart, Mem!Start, Mem!Goto, Locking
  <2>3. ASSUME NEW k \in Keys, Mem!DeleteStart(c, k) PROVE LInv'
    BY <1>2, <2>3 DEF Mem!DeleteStart, Mem!Start, Mem!Goto, Locking
  <2>4. ASSUME NEW k \in Keys, NEW srcs \in SourceLists, Mem!ComposeStart(c, k, srcs) PROVE LInv'
    <3> DEFINE p == IF Len(srcs) \in 1..MaxComposeSources THEN "locking" ELSE "refused"
    <3>1. p \in {"locking", "refused"} /\ pc' = [pc EXCEPT ![c] = p] /\ UNCHANGED listing /\ pc[c] = "idle"
      BY <2>4 DEF Mem!ComposeStart, Mem!Start, Mem!Goto
    <3> HIDE DEF p
    <3> QED
      BY <1>2, <3>1 DEF Locking
  <2> QED
    BY <1>5, <2>1, <2>2, <2>3, <2>4 DEF Mem!StartStep
<1>6. CASE Mem!ReadBody(c)
  <2>1. pc[c] = "reading" /\ (Mem!Return(c, "error") \/ (Mem!Goto(c, "locking") /\ UNCHANGED listing))
    BY <1>6, Zenon DEF Mem!ReadBody
  <2> QED
    BY <1>2, <1>4, <2>1 DEF Mem!Goto, Locking
<1>7. CASE Mem!Refuse(c) \/ Mem!Answered(c)
  BY <1>4, <1>7 DEF Mem!Refuse, Mem!Answered, Locking
<1>8. CASE Mem!CriticalSection(c)
  <2>1. pc[c] = "locked" /\ pc' = [pc EXCEPT ![c] = "unlocked"] /\ UNCHANGED listing
    BY <1>8, Zenon DEF Mem!CriticalSection, Mem!Put, Mem!Delete, Mem!Compose, Mem!Unlock, Mem!Goto
  <2> QED
    BY <1>2, <2>1 DEF Locking
<1>9. CASE Mem!Lock(c)
  <2>1. CASE pc[c] = "locking"
    BY <1>2, <1>9, <2>1 DEF Mem!Lock, Mem!Goto, Locking
  <2>2. CASE pc[c] = "listLocking"
    <3>1. listing[c].active
      BY <1>1, <2>2 DEF Lister, ListPlaces
    <3>2. pc' = [pc EXCEPT ![c] = "listLocked"] /\ UNCHANGED listing
      BY <1>9, <2>2 DEF Mem!Lock, Mem!Goto
    <3> QED
      BY <2>2, <3>1, <3>2, NoListStep DEF Locking
  <2> QED
    BY <1>9, <2>1, <2>2 DEF Mem!Lock
<1>10. CASE Mem!Snapshot(c)
  BY <1>10, SnapshotTaken
<1>11. CASE Mem!ListTells(c)
  BY <1>11, Tells
<1>12. CASE Mem!FnReturns(c)
  <2>1. listing[c].active /\ pc[c] = "callback"
    BY <1>1, <1>12 DEF Lister, ListPlaces, Mem!FnReturns
  <2>2. ASSUME NEW p \in {"listing", "aborted"}, pc' = [pc EXCEPT ![c] = p], UNCHANGED listing PROVE LInv'
    BY <2>1, <2>2, NoListStep DEF Locking
  <2> QED
    BY <1>12, <2>2 DEF Mem!FnReturns, Mem!Goto
<1>13. CASE Mem!FnDeletes(c)
  BY <1>2, <1>13 DEF Mem!FnDeletes, Mem!Start, Mem!Goto, Locking
<1>14. CASE Mem!ListDone(c) \/ Mem!ListAborts(c)
  <2>1. /\ pc' = [pc EXCEPT ![c] = "idle"]
        /\ \/ listing' = [listing EXCEPT ![c] = [active |-> FALSE, kind |-> "ok"]]
           \/ listing' = [listing EXCEPT ![c] = [active |-> FALSE, kind |-> "error"]]
    BY <1>14 DEF Mem!ListDone, Mem!ListAborts, Mem!ListReturns, Mem!Goto, Mem!NoListing
  <2> QED
    BY <2>1, ListEnds
<1> QED
  BY <1>5, <1>6, <1>7, <1>8, <1>9, <1>10, <1>11, <1>12, <1>13, <1>14 DEF Mem!RunStep, Mem!ListStep

(* Every step of either store keeps what is so of the listings. *)
LEMMA ListsKept == IInv /\ Objects /\ LInv /\ [Next]_vars => LInv'
<1> SUFFICES ASSUME IInv, Objects, LInv, [Next]_vars PROVE LInv'
  OBVIOUS
<1>1. CASE UNCHANGED vars
  BY <1>1 DEF vars, LInv, Whole
<1>2. CASE Next
  <2>1. PICK c \in Clients : StartStep(c) \/ RunStep(c) \/ MemLock(c)
    BY <1>2 DEF Next
  <2> QED
    BY <2>1, GcsLists, MemLists DEF StartStep, RunStep, MemLock, ByGcs, ByMemory
<1> QED
  BY <1>1, <1>2

(* Nobody lists at first. *)
LEMMA ListsInit == Init => LInv
<1> SUFFICES ASSUME Init PROVE LInv
  OBVIOUS
<1>1. /\ pc = [c \in Clients |-> "idle"] /\ backend \in {"gcs", "memory"}
      /\ listing = [c \in Clients |-> [active |-> FALSE, kind |-> "none"]]
  BY DEF Init, Gcs!Init, Gcs!NoListing
<1>2. [active |-> FALSE, kind |-> "none"] \in Idle
  BY DEF Idle
<1> QED
  BY <1>1, <1>2 DEF LInv, Whole, Lister, ListPlaces

(* A List that returns without an error has nothing at hand and no page to ask for. *)
LEMMA OkEnds ==
  ASSUME IInv, LInv, LInv', NEW c \in Clients, NEW d \in Clients, listing[c].active,
         listing'[c] = Gcs!NoListing("ok"),
         \/ backend = "gcs" /\ (Gcs!StartStep(d) \/ Gcs!RunStep(d))
         \/ backend = "memory" /\ (Mem!StartStep(d) \/ Mem!RunStep(d) \/ Mem!Lock(d))
  PROVE  listing[c].page = <<>> /\ ~Waiting(backend, pc[c], listing[c])
<1>1. ~listing'[c].active /\ listing'[c].kind = "ok" /\ listing' # listing
  BY DEF Gcs!NoListing
<1>2. pc'[c] \notin ListPlaces
  BY <1>1 DEF LInv, Lister
<1>3. Whole(listing) /\ Whole(pc)
  BY DEF LInv, IInv
<1>4. ASSUME NEW q, listing' = [listing EXCEPT ![d] = q] PROVE c = d /\ q = listing'[c]
  BY <1>1, <1>3, <1>4 DEF Whole
<1>5. CASE backend = "gcs"
  <2>1. CASE \E prefix \in PrefixSets : Gcs!ListStart(d, prefix)
    <3>1. c = d /\ pc'[d] = "listing"
      BY <1>3, <1>4, <2>1 DEF Gcs!ListStart, Gcs!Goto, Whole
    <3> QED
      BY <1>2, <3>1 DEF ListPlaces
  <2>2. CASE Gcs!NextPage(d)
    <3>1. pc[d] = "listing" /\ UNCHANGED pc
      BY <2>2, Zenon DEF Gcs!NextPage
    <3>2. PICK keys \in Gcs!Ascending(Rest(listing[d])) :
            listing' = [listing EXCEPT ![d].page = [n \in 1..Gcs!Min({PageSize, Len(keys)}) |-> Gcs!Info(keys[n])],
                                       ![d].more = PageSize < Len(keys)]
      BY <2>2, Zenon DEF Gcs!NextPage, Gcs!Last, Rest
    <3>3. c = d
      BY <1>1, <1>3, <3>2 DEF Whole
    <3> QED
      BY <1>2, <3>1, <3>3 DEF ListPlaces
  <2>3. CASE Gcs!ListTells(d)
    <3>1. pc' = [pc EXCEPT ![d] = "callback"]
          /\ listing' = [listing EXCEPT ![d].told = Append(@, Head(listing[d].page)), ![d].page = Tail(@)]
      BY <2>3, Zenon DEF Gcs!ListTells, Gcs!Goto
    <3>2. listing' = [listing EXCEPT ![d] = Told(listing[d])]
      BY <1>3, <3>1, Zenon DEF Whole, Told
    <3>3. c = d
      BY <1>4, <3>2
    <3> QED
      BY <1>2, <1>3, <3>1, <3>3 DEF ListPlaces, Whole
  <2>4. CASE Gcs!ListFails(d)
    <3>1. listing' = [listing EXCEPT ![d] = [active |-> FALSE, kind |-> "error"]]
      BY <2>4 DEF Gcs!ListFails, Gcs!ListReturns, Gcs!NoListing
    <3>2. listing'[c].kind = "error"
      BY <1>4, <3>1
    <3> QED
      BY <1>1, <3>2
  <2>5. CASE Gcs!ListDone(d)
    <3>1. listing' = [listing EXCEPT ![d] = [active |-> FALSE, kind |-> "ok"]]
          /\ listing[d].page = <<>> /\ ~listing[d].more
      BY <2>5 DEF Gcs!ListDone, Gcs!ListReturns, Gcs!NoListing
    <3>2. c = d
      BY <1>4, <3>1
    <3> QED
      BY <1>5, <3>1, <3>2 DEF Waiting
  <2>6. Gcs!StartStep(d) => UNCHANGED listing \/ \E prefix \in PrefixSets : Gcs!ListStart(d, prefix)
    BY DEF Gcs!StartStep, Gcs!PutStart, Gcs!DeleteStart, Gcs!ComposeStart, Gcs!Start
  <2>7. Gcs!RunStep(d) => \/ UNCHANGED listing
                          \/ Gcs!NextPage(d) \/ Gcs!ListTells(d) \/ Gcs!ListFails(d) \/ Gcs!ListDone(d)
    BY Zenon DEF Gcs!RunStep, Gcs!PutStep, Gcs!CopyBlock, Gcs!CopyDone, Gcs!CopyFails, Gcs!CloseAborted, Gcs!Finalize,
       Gcs!RequestStep, Gcs!Refuse, Gcs!ServeDelete, Gcs!ServeCompose, Gcs!RequestLost, Gcs!Answered, Gcs!Return,
       Gcs!ListStep, Gcs!FnReturns, Gcs!FnDeletes, Gcs!Start
  <2> QED
    BY <1>1, <1>5, <2>1, <2>2, <2>3, <2>4, <2>5, <2>6, <2>7
<1>6. CASE backend = "memory"
  <2>1. CASE \E prefix \in PrefixSets : Mem!ListStart(d, prefix)
    <3>1. c = d /\ pc'[d] = "listLocking"
      BY <1>3, <1>4, <2>1 DEF Mem!ListStart, Mem!Goto, Whole
    <3> QED
      BY <1>2, <3>1 DEF ListPlaces
  <2>2. CASE Mem!Snapshot(d)
    <3>1. pc' = [pc EXCEPT ![d] = "listing"] /\ \E x : listing' = [listing EXCEPT ![d].page = x]
      BY <2>2, Zenon DEF Mem!Snapshot, Mem!Goto
    <3>2. c = d
      BY <1>1, <1>3, <3>1 DEF Whole
    <3> QED
      BY <1>2, <1>3, <3>1, <3>2 DEF ListPlaces, Whole
  <2>3. CASE Mem!ListTells(d)
    <3>1. pc' = [pc EXCEPT ![d] = "callback"]
          /\ listing' = [listing EXCEPT ![d].told = Append(@, Head(listing[d].page)), ![d].page = Tail(@)]
      BY <2>3, Zenon DEF Mem!ListTells, Mem!Goto
    <3>2. listing' = [listing EXCEPT ![d] = Told(listing[d])]
      BY <1>3, <3>1, Zenon DEF Whole, Told
    <3>3. c = d
      BY <1>4, <3>2
    <3> QED
      BY <1>2, <1>3, <3>1, <3>3 DEF ListPlaces, Whole
  <2>4. CASE Mem!ListAborts(d)
    <3>1. listing' = [listing EXCEPT ![d] = [active |-> FALSE, kind |-> "error"]]
      BY <2>4 DEF Mem!ListAborts, Mem!ListReturns, Mem!NoListing
    <3>2. listing'[c].kind = "error"
      BY <1>4, <3>1
    <3> QED
      BY <1>1, <3>2
  <2>5. CASE Mem!ListDone(d)
    <3>1. listing' = [listing EXCEPT ![d] = [active |-> FALSE, kind |-> "ok"]]
          /\ listing[d].page = <<>> /\ pc[d] = "listing"
      BY <2>5 DEF Mem!ListDone, Mem!ListReturns, Mem!NoListing
    <3>2. c = d
      BY <1>4, <3>1
    <3> QED
      BY <1>6, <3>1, <3>2 DEF Waiting, Locking
  <2>6. Mem!StartStep(d) => UNCHANGED listing \/ \E prefix \in PrefixSets : Mem!ListStart(d, prefix)
    BY DEF Mem!StartStep, Mem!PutStart, Mem!DeleteStart, Mem!ComposeStart, Mem!Start
  <2>7. Mem!RunStep(d) \/ Mem!Lock(d) =>
          UNCHANGED listing \/ Mem!Snapshot(d) \/ Mem!ListTells(d) \/ Mem!ListAborts(d) \/ Mem!ListDone(d)
    BY Zenon DEF Mem!RunStep, Mem!ReadBody, Mem!Refuse, Mem!CriticalSection, Mem!Put, Mem!Delete, Mem!Compose, Mem!Unlock,
       Mem!Answered, Mem!Return, Mem!Lock, Mem!ListStep, Mem!FnReturns, Mem!FnDeletes, Mem!Start
  <2> QED
    BY <1>1, <1>6, <2>1, <2>2, <2>3, <2>4, <2>5, <2>6, <2>7
<1> QED
  BY <1>5, <1>6

(* What each step must keep of a caller's List. *)
ListFaithfulOf(c) ==
  listing[c].active =>
       LET told == listing[c].told
           keys == {told[i].key : i \in DOMAIN told} IN
         /\ \A i, j \in DOMAIN told : i < j => told[i].key < told[j].key
         /\ keys \subseteq listing[c].prefix /\ ToSet(told) \subseteq sometime[c]
         /\ listing'[c] = Gcs!NoListing("ok") =>
              throughout[c] \intersect listing[c].prefix \subseteq keys

(* A step keeps it: what was told is in order and seen, and what ends well is complete. *)
LEMMA ListStepFaithful == IInv /\ LInv /\ LInv' /\ [Next]_vars => \A c \in Clients : ListFaithfulOf(c)
<1> SUFFICES ASSUME IInv, LInv, LInv', [Next]_vars, NEW c \in Clients, listing[c].active
             PROVE  ListFaithfulOf(c)
  BY DEF ListFaithfulOf
<1> DEFINE told == listing[c].told
           keys == {told[i].key : i \in DOMAIN told}
<1>1. Lister(backend, pc[c], listing[c], throughout[c], sometime[c], DOMAIN objects)
  BY DEF LInv
<1>2. InOrder(listing[c], sometime[c]) /\ Complete(listing[c], throughout[c], Waiting(backend, pc[c], listing[c]))
  BY <1>1 DEF Lister
<1>3. \A i, j \in DOMAIN told : i < j => told[i].key < told[j].key
  BY <1>2 DEF InOrder
<1>4. keys \subseteq listing[c].prefix /\ ToSet(told) \subseteq sometime[c]
  BY <1>2 DEF InOrder, ToSet
<1>5. ASSUME listing'[c] = Gcs!NoListing("ok") PROVE throughout[c] \intersect listing[c].prefix \subseteq keys
  <2>1. listing' # listing
    BY <1>5 DEF Gcs!NoListing
  <2>2. PICK d \in Clients : StartStep(d) \/ RunStep(d) \/ MemLock(d)
    BY <2>1 DEF Next, vars
  <2>3. listing[c].page = <<>> /\ ~Waiting(backend, pc[c], listing[c])
    BY <1>5, <2>2, OkEnds DEF StartStep, RunStep, MemLock, ByGcs, ByMemory
  <2>4. DOMAIN listing[c].page = {}
    BY <2>3
  <2> QED
    BY <1>2, <2>3, <2>4 DEF Complete, Reported
<1> HIDE DEF told, keys
<1> QED
  BY <1>3, <1>4, <1>5 DEF ListFaithfulOf, told, keys

(* Whatever other callers and its own callback do, a List reports keys of its prefix once and
   in order, with a size each had, and one that succeeds leaves out no key stored all the time. *)
THEOREM ListsAreFaithful == Spec => ListFaithful
<1>1. Spec => []Objects
  BY AlwaysIInv, ObjectsInit, ObjectsKept, PTL DEF Spec
<1>2. Spec => []LInv
  BY <1>1, AlwaysIInv, ListsInit, ListsKept, PTL DEF Spec
<1>3. ListFaithful <=> [][\A c \in Clients : ListFaithfulOf(c)]_vars
  BY DEF ListFaithful, ListFaithfulOf
<1> QED
  BY <1>2, <1>3, AlwaysIInv, ListStepFaithful, PTL DEF Spec
=============================================================================
