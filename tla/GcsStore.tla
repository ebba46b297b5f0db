------------------------------- MODULE GcsStore -------------------------------
(***************************************************************************)
(* store/gcs over a bucket shared by concurrent callers: Put streams a body *)
(* through an SDK writer that commits on Close, Delete and Compose are one  *)
(* request each, List asks for page after page and calls back between       *)
(* them. The service and the SDK are external: a request or its response    *)
(* may be lost. A caller's cancellation is an error at the same places.     *)
(***************************************************************************)
EXTENDS Integers, SequencesExt

CONSTANTS
  Clients, Keys,       \* keys are numbers, in the order of the service's listing
  Bodies,              \* what callers put, as sequences of blocks
  PrefixSets,            \* for each prefix a caller lists, the set of keys that begin with it
  PageSize,            \* objects in one page of a listing
  MaxInt,              \* the largest value of the signed integer of offsets (int64)
  MaxComposeSources,
  SourceLists          \* bound: the lists of sources callers compose

VARIABLES
  objects,             \* the objects of the bucket, by key
  pc,                  \* where the caller is
  call,                \* the call a caller runs, or its callback
  buf,                 \* what the writer of its Put has taken
  reply,               \* what the service has decided about the request
  res,                 \* the result of the caller's last call
  listing              \* the List a caller runs

vars == <<objects, pc, call, buf, reply, res, listing>>

NoCall == [op |-> "none"]

NoResult == [op |-> "none", kind |-> "none"]

NoListing(kind) == [active |-> FALSE, kind |-> kind]

Init ==
  /\ objects \in UNION {[stored -> Bodies] : stored \in SUBSET Keys}
  /\ pc = [c \in Clients |-> "idle"]
  /\ call = [c \in Clients |-> NoCall]
  /\ buf = [c \in Clients |-> <<>>]
  /\ reply = [c \in Clients |-> "none"]
  /\ res = [c \in Clients |-> NoResult]
  /\ listing = [c \in Clients |-> NoListing("none")]

Stored(k) == k \in DOMAIN objects

With(k, data) == [x \in DOMAIN objects \union {k} |-> IF x = k THEN data ELSE objects[x]]

Without(k) == Restrict(objects, DOMAIN objects \ {k})

Goto(c, place) == pc' = [pc EXCEPT ![c] = place]

Start(c, o, place) ==
  /\ Goto(c, place)
  /\ call' = [call EXCEPT ![c] = o]
  /\ res' = [res EXCEPT ![c] = NoResult]
  /\ UNCHANGED <<objects, buf, reply, listing>>

(* A call made by a listing's callback returns to the listing: to its loop with the
   callback's nil, or out of it with the callback's error. *)
Return(c, kind) ==
  /\ Goto(c, IF ~listing[c].active THEN "idle" ELSE IF kind = "ok" THEN "listing" ELSE "aborted")
  /\ res' = [res EXCEPT ![c] = [op |-> call[c].op, kind |-> kind]]
  /\ call' = [call EXCEPT ![c] = NoCall]
  /\ buf' = [buf EXCEPT ![c] = <<>>]
  /\ reply' = [reply EXCEPT ![c] = "none"]
  /\ UNCHANGED listing

-------------------------------------------------------------------------------
(* Put. *)

PutStart(c, k, body) ==
  /\ pc[c] = "idle"
  /\ Start(c, [op |-> "put", key |-> k, body |-> body], "copying")

CopyBlock(c) ==
  /\ pc[c] = "copying" /\ Len(buf[c]) < Len(call[c].body)
  /\ buf' = [buf EXCEPT ![c] = Append(@, call[c].body[Len(@) + 1])]
  /\ UNCHANGED <<objects, pc, call, reply, res, listing>>

CopyDone(c) ==
  /\ pc[c] = "copying" /\ Len(buf[c]) = Len(call[c].body)
  /\ Goto(c, "closing")
  /\ UNCHANGED <<objects, call, buf, reply, res, listing>>

(* Mutant: a failed copy closes the writer without canceling its context. *)
CopyFailsUncanceled(c) ==
  /\ pc[c] = "copying"
  /\ Goto(c, "closing")
  /\ UNCHANGED <<objects, call, buf, reply, res, listing>>

(* The reader or the writer fails: the writer's context is canceled before Close. *)
CopyFails(c) ==
  /\ pc[c] = "copying"
  /\ Goto(c, "aborting")
  /\ UNCHANGED <<objects, call, buf, reply, res, listing>>

(* Close of a writer whose context is canceled commits nothing. *)
CloseAborted(c) ==
  /\ pc[c] = "aborting"
  /\ Return(c, "error")
  /\ UNCHANGED objects

(* The service commits the upload at once. *)
Finalize(c) ==
  /\ pc[c] = "closing"
  /\ objects' = With(call[c].key, buf[c])
  /\ reply' = [reply EXCEPT ![c] = "ok"]
  /\ Goto(c, "served")
  /\ UNCHANGED <<call, buf, res, listing>>

PutStep(c) == CopyBlock(c) \/ CopyDone(c) \/ CopyFails(c) \/ CloseAborted(c) \/ Finalize(c)

-------------------------------------------------------------------------------
(* Delete, DeleteIfExists and Compose. *)

DeleteStart(c, k) ==
  /\ pc[c] = "idle"
  /\ \E op \in {"delete", "deleteIfExists"} : Start(c, [op |-> op, key |-> k], "requested")

(* The count is checked before any request. *)
ComposeStart(c, dst, srcs) ==
  /\ pc[c] = "idle"
  /\ Start(c, [op |-> "compose", key |-> dst, srcs |-> srcs],
           IF Len(srcs) \in 1..MaxComposeSources THEN "requested" ELSE "refused")

Refuse(c) == pc[c] = "refused" /\ Return(c, "error") /\ UNCHANGED objects

ServeDelete(c) ==
  /\ pc[c] = "requested" /\ call[c].op \in {"delete", "deleteIfExists"}
  /\ objects' = Without(call[c].key)
  /\ reply' = [reply EXCEPT ![c] = IF Stored(call[c].key) THEN "ok" ELSE "notfound"]
  /\ Goto(c, "served")
  /\ UNCHANGED <<call, buf, res, listing>>

(* A missing source writes nothing. Sizes are offsets too: the service fails a request for
   an object that is larger, as it may fail any (RequestLost). *)
ServeCompose(c) ==
  /\ pc[c] = "requested" /\ call[c].op = "compose"
  /\ \/ LET data == FlattenSeq([i \in DOMAIN call[c].srcs |-> objects[call[c].srcs[i]]])
        IN  /\ ToSet(call[c].srcs) \subseteq DOMAIN objects /\ Len(data) <= MaxInt
            /\ objects' = With(call[c].key, data)
            /\ reply' = [reply EXCEPT ![c] = "ok"]
     \/ /\ ~(ToSet(call[c].srcs) \subseteq DOMAIN objects)
        /\ reply' = [reply EXCEPT ![c] = "notfound"]
        /\ UNCHANGED objects
  /\ Goto(c, "served")
  /\ UNCHANGED <<call, buf, res, listing>>

RequestStep(c) == Refuse(c) \/ ServeDelete(c) \/ ServeCompose(c)

(* The request, or the response to one that was served, is lost. *)
RequestLost(c) ==
  /\ pc[c] \in {"closing", "requested", "served"}
  /\ Return(c, "error")
  /\ UNCHANGED objects

(* The helper DeleteIfExists takes a missing object for success. *)
answerOf(op, kind) == IF op = "deleteIfExists" /\ kind = "notfound" THEN "ok" ELSE kind

Answered(c) ==
  /\ pc[c] = "served"
  /\ Return(c, answerOf(call[c].op, reply[c]))
  /\ UNCHANGED objects

-------------------------------------------------------------------------------
(* List. *)

ListStart(c, prefix) ==
  /\ pc[c] = "idle"
  /\ Goto(c, "listing")
  /\ listing' = [listing EXCEPT ![c] =
       [active |-> TRUE, prefix |-> prefix, page |-> <<>>, more |-> TRUE, told |-> <<>>]]
  /\ UNCHANGED <<objects, call, buf, reply, res>>

Info(k) == [key |-> k, size |-> Len(objects[k])]

(* The one sequence of the keys in ascending order. *)
Ascending(keys) ==
  {order \in SetToSeqs(keys) : \A i, j \in DOMAIN order : i < j => order[i] < order[j]}

(* The next page: what is in the bucket now behind the last key of the page before. *)
NextPage(c) ==
  LET l == listing[c]
      rest == {k \in l.prefix \intersect DOMAIN objects : l.told = <<>> \/ k > Last(l.told).key}
  IN  /\ pc[c] = "listing" /\ l.active /\ l.page = <<>> /\ l.more
      /\ \E keys \in Ascending(rest) :
           listing' = [listing EXCEPT ![c].page = [n \in 1..Min({PageSize, Len(keys)}) |-> Info(keys[n])],
                                      ![c].more = PageSize < Len(keys)]
      /\ UNCHANGED <<objects, pc, call, buf, reply, res>>

(* The callback is told of one object. *)
ListTells(c) ==
  /\ pc[c] = "listing" /\ listing[c].page # <<>>
  /\ listing' = [listing EXCEPT ![c].told = Append(@, Head(listing[c].page)), ![c].page = Tail(@)]
  /\ Goto(c, "callback")
  /\ UNCHANGED <<objects, call, buf, reply, res>>

(* It goes on, gives up, or deletes the object. *)
FnReturns(c) ==
  /\ pc[c] = "callback"
  /\ \E place \in {"listing", "aborted"} : Goto(c, place)
  /\ UNCHANGED <<objects, call, buf, reply, res, listing>>

FnDeletes(c) ==
  /\ pc[c] = "callback"
  /\ \E k \in Keys :
       /\ k = Last(listing[c].told).key
       /\ Start(c, [op |-> "deleteIfExists", key |-> k], "requested")

ListReturns(c, kind) ==
  /\ Goto(c, "idle")
  /\ listing' = [listing EXCEPT ![c] = NoListing(kind)]
  /\ UNCHANGED <<objects, call, buf, reply, res>>

ListDone(c) ==
  pc[c] = "listing" /\ listing[c].page = <<>> /\ ~listing[c].more /\ ListReturns(c, "ok")

ListFails(c) ==
  /\ pc[c] = "aborted" \/ (pc[c] = "listing" /\ listing[c].page = <<>> /\ listing[c].more)
  /\ ListReturns(c, "error")

ListStep(c) ==
  NextPage(c) \/ ListTells(c) \/ FnReturns(c) \/ FnDeletes(c) \/ ListDone(c) \/ ListFails(c)

-------------------------------------------------------------------------------
(* Get, GetRange and Exists change nothing, so each is the set of results a call may have. *)

Get(k) ==
  {IF Stored(k) THEN [kind |-> "ok", data |-> objects[k]] ELSE [kind |-> "notfound", data |-> <<>>],
   [kind |-> "lost", data |-> <<>>]}

Exists(k) == {IF Stored(k) THEN "present" ELSE "absent", "lost"}

(* The service and the SDK: length bytes from offset, to the end when length < 0. An
   endpoint that wraps around makes a range header the service rejects; for an offset
   past the end it answers 416, or a reader without bytes. *)
RangeAnswers(k, offset, length) ==
  IF ~Stored(k) THEN {[kind |-> "notfound", data |-> <<>>]}
  ELSE IF length > 0 /\ offset + length - 1 > MaxInt THEN {[kind |-> "rejected", data |-> <<>>]}
  ELSE IF offset >= Len(objects[k])
  THEN {[kind |-> "ok", data |-> <<>>], [kind |-> "unsatisfiable", data |-> <<>>]}
  ELSE {[kind |-> "ok", data |->
          SubSeq(objects[k], offset + 1,
                 IF length < 0 THEN Len(objects[k]) ELSE Min({offset + length, Len(objects[k])}))]}

(* Mutant: the length goes to the SDK as it is. *)
sdkLengthRaw(offset, length) == length

sdkLength(offset, length) == IF length > MaxInt - offset THEN -1 ELSE length

(* The size the service records decides about an offset past the end. *)
RangeResult(k, offset, answer) ==
  IF answer.kind = "ok" /\ offset >= Len(objects[k])
  THEN [kind |-> "unsatisfiable", data |-> <<>>] ELSE answer

(* A negative offset is refused without a request, and any request may be lost. *)
GetRange(k, offset, length) ==
  IF offset < 0 THEN {[kind |-> "error", data |-> <<>>]}
  ELSE {RangeResult(k, offset, a) : a \in RangeAnswers(k, offset, sdkLength(offset, length))}
         \union {[kind |-> "lost", data |-> <<>>]}

-------------------------------------------------------------------------------
StartStep(c) ==
  \/ \E k \in Keys, b \in Bodies : PutStart(c, k, b)
  \/ \E k \in Keys : DeleteStart(c, k)
  \/ \E dst \in Keys, srcs \in SourceLists : ComposeStart(c, dst, srcs)
  \/ \E prefix \in PrefixSets : ListStart(c, prefix)

RunStep(c) ==
  PutStep(c) \/ RequestStep(c) \/ RequestLost(c) \/ Answered(c) \/ ListStep(c)

Next == \E c \in Clients : StartStep(c) \/ RunStep(c)

Spec == Init /\ [][Next]_vars
=============================================================================
