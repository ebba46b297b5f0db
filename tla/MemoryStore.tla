------------------------------ MODULE MemoryStore ------------------------------
(***************************************************************************)
(* testcms.MemoryStore: a map behind a mutex, the second implementation of  *)
(* the store contract. Every call takes the mutex once and lets it go       *)
(* before it returns; List copies what it will report and calls back with   *)
(* the mutex free, so that a callback may call the store.                   *)
(***************************************************************************)
EXTENDS Integers, SequencesExt

CONSTANTS
  Clients, Keys,       \* keys are numbers, in string order
  Bodies,              \* what callers put, as sequences of blocks
  PrefixSets,            \* for each prefix a caller lists, the set of keys that begin with it
  MaxInt,              \* the largest value of the signed integer of offsets (int64)
  MaxComposeSources,
  SourceLists          \* bound: the lists of sources callers compose

VARIABLES
  objects,             \* the map
  mu,                  \* who holds the mutex, or Free
  pc,                  \* where the caller is
  call,                \* the call a caller runs, or its callback
  reply,               \* what the call will return, "none" before its critical section
  res,                 \* the result of the caller's last call
  listing              \* the List a caller runs

vars == <<objects, mu, pc, call, reply, res, listing>>

NoCall == [op |-> "none"]

NoResult == [op |-> "none", kind |-> "none"]

NoListing(kind) == [active |-> FALSE, kind |-> kind]

Free == "free"

Init ==
  /\ objects \in UNION {[stored -> Bodies] : stored \in SUBSET Keys}
  /\ mu = Free
  /\ pc = [c \in Clients |-> "idle"]
  /\ call = [c \in Clients |-> NoCall]
  /\ reply = [c \in Clients |-> "none"]
  /\ res = [c \in Clients |-> NoResult]
  /\ listing = [c \in Clients |-> NoListing("none")]

Stored(k) == k \in DOMAIN objects

Goto(c, place) == pc' = [pc EXCEPT ![c] = place]

Start(c, o, place) ==
  /\ Goto(c, place)
  /\ call' = [call EXCEPT ![c] = o]
  /\ res' = [res EXCEPT ![c] = NoResult]
  /\ UNCHANGED <<objects, mu, reply, listing>>

(* A call made by a listing's callback returns to the listing: to its loop with the
   callback's nil, or out of it with the callback's error. *)
Return(c, kind) ==
  /\ Goto(c, IF ~listing[c].active THEN "idle" ELSE IF kind = "ok" THEN "listing" ELSE "aborted")
  /\ res' = [res EXCEPT ![c] = [op |-> call[c].op, kind |-> kind]]
  /\ call' = [call EXCEPT ![c] = NoCall]
  /\ reply' = [reply EXCEPT ![c] = "none"]
  /\ UNCHANGED <<objects, mu, listing>>

-------------------------------------------------------------------------------
(* Put reads the whole body before it takes the mutex. *)

PutStart(c, k, body) ==
  /\ pc[c] = "idle"
  /\ Start(c, [op |-> "put", key |-> k, body |-> body], "reading")

ReadBody(c) ==
  /\ pc[c] = "reading"
  /\ \/ Goto(c, "locking") /\ UNCHANGED <<objects, mu, call, reply, res, listing>>
     \/ Return(c, "error")

DeleteStart(c, k) ==
  /\ pc[c] = "idle"
  /\ \E op \in {"delete", "deleteIfExists"} : Start(c, [op |-> op, key |-> k], "locking")

(* The number of sources is checked without the mutex. *)
ComposeStart(c, dst, srcs) ==
  /\ pc[c] = "idle"
  /\ Start(c, [op |-> "compose", key |-> dst, srcs |-> srcs],
           IF Len(srcs) \in 1..MaxComposeSources THEN "locking" ELSE "refused")

Refuse(c) == pc[c] = "refused" /\ Return(c, "error")

Lock(c) ==
  /\ pc[c] \in {"locking", "listLocking"} /\ mu = Free
  /\ mu' = c
  /\ Goto(c, IF pc[c] = "locking" THEN "locked" ELSE "listLocked")
  /\ UNCHANGED <<objects, call, reply, res, listing>>

(* A critical section ends with the reply and a free mutex. *)
Unlock(c, kind) ==
  /\ mu' = Free
  /\ reply' = [reply EXCEPT ![c] = kind]
  /\ Goto(c, "unlocked")
  /\ UNCHANGED <<call, res, listing>>

Store(k, data) == objects' = [x \in DOMAIN objects \union {k} |-> IF x = k THEN data ELSE objects[x]]

Put(c) ==
  /\ pc[c] = "locked" /\ call[c].op = "put"
  /\ Store(call[c].key, call[c].body)
  /\ Unlock(c, "ok")

Delete(c) ==
  /\ pc[c] = "locked" /\ call[c].op \in {"delete", "deleteIfExists"}
  /\ objects' = Restrict(objects, DOMAIN objects \ {call[c].key})
  /\ Unlock(c, IF Stored(call[c].key) THEN "ok" ELSE "notfound")

(* No slice is longer than MaxInt. *)
Compose(c) ==
  LET srcs == call[c].srcs
      data == FlattenSeq([i \in DOMAIN srcs |-> objects[srcs[i]]])
  IN  /\ pc[c] = "locked" /\ call[c].op = "compose"
      /\ \/ /\ \E i \in DOMAIN srcs : ~Stored(srcs[i])
            /\ Unlock(c, "notfound") /\ UNCHANGED objects
         \/ /\ \A i \in DOMAIN srcs : Stored(srcs[i])
            /\ Len(data) <= MaxInt
            /\ Store(call[c].key, data)
            /\ Unlock(c, "ok")

(* The helper DeleteIfExists takes a missing object for success. *)
answerOf(op, kind) == IF op = "deleteIfExists" /\ kind = "notfound" THEN "ok" ELSE kind

Answered(c) == pc[c] = "unlocked" /\ Return(c, answerOf(call[c].op, reply[c]))

-------------------------------------------------------------------------------
(* List. *)

ListStart(c, prefix) ==
  /\ pc[c] = "idle"
  /\ Goto(c, "listLocking")
  /\ listing' = [listing EXCEPT ![c] =
       [active |-> TRUE, prefix |-> prefix, page |-> <<>>, told |-> <<>>]]
  /\ UNCHANGED <<objects, mu, call, reply, res>>

Info(k) == [key |-> k, size |-> Len(objects[k])]

(* The one sequence of the keys in ascending order. *)
Ascending(keys) ==
  {order \in SetToSeqs(keys) : \A i, j \in DOMAIN order : i < j => order[i] < order[j]}

(* Mutant: the keys come in the order the map is walked in. *)
SnapshotUnsorted(c) ==
  /\ pc[c] = "listLocked"
  /\ \E keys \in SetToSeqs(listing[c].prefix \intersect DOMAIN objects) :
       listing' = [listing EXCEPT ![c].page = [n \in DOMAIN keys |-> Info(keys[n])]]
  /\ mu' = Free /\ Goto(c, "listing")
  /\ UNCHANGED <<objects, call, reply, res>>

(* Mutant: the mutex is held while the callbacks run. *)
SnapshotLocked(c) ==
  /\ pc[c] = "listLocked"
  /\ \E keys \in Ascending(listing[c].prefix \intersect DOMAIN objects) :
       listing' = [listing EXCEPT ![c].page = [n \in DOMAIN keys |-> Info(keys[n])]]
  /\ Goto(c, "listing")
  /\ UNCHANGED <<objects, mu, call, reply, res>>

Snapshot(c) ==
  /\ pc[c] = "listLocked"
  /\ \E keys \in Ascending(listing[c].prefix \intersect DOMAIN objects) :
       listing' = [listing EXCEPT ![c].page = [n \in DOMAIN keys |-> Info(keys[n])]]
  /\ mu' = Free /\ Goto(c, "listing")
  /\ UNCHANGED <<objects, call, reply, res>>

(* The callback is told of one object. *)
ListTells(c) ==
  /\ pc[c] = "listing" /\ listing[c].page # <<>>
  /\ listing' = [listing EXCEPT ![c].told = Append(@, Head(listing[c].page)), ![c].page = Tail(@)]
  /\ Goto(c, "callback")
  /\ UNCHANGED <<objects, mu, call, reply, res>>

(* It goes on, gives up, or deletes the object. *)
FnReturns(c) ==
  /\ pc[c] = "callback"
  /\ \E place \in {"listing", "aborted"} : Goto(c, place)
  /\ UNCHANGED <<objects, mu, call, reply, res, listing>>

FnDeletes(c) ==
  /\ pc[c] = "callback"
  /\ \E k \in Keys :
       /\ k = Last(listing[c].told).key
       /\ Start(c, [op |-> "deleteIfExists", key |-> k], "locking")

ListReturns(c, kind) ==
  /\ Goto(c, "idle")
  /\ listing' = [listing EXCEPT ![c] = NoListing(kind)]
  /\ UNCHANGED <<objects, mu, call, reply, res>>

ListDone(c) == pc[c] = "listing" /\ listing[c].page = <<>> /\ ListReturns(c, "ok")

ListAborts(c) == pc[c] = "aborted" /\ ListReturns(c, "error")

ListStep(c) ==
  Snapshot(c) \/ ListTells(c) \/ FnReturns(c) \/ FnDeletes(c) \/ ListDone(c) \/ ListAborts(c)

-------------------------------------------------------------------------------
(* Get, GetRange and Exists change nothing, so each is the set of results a call may have. *)

Get(k) ==
  {IF Stored(k) THEN [kind |-> "ok", data |-> objects[k]] ELSE [kind |-> "notfound", data |-> <<>>]}

Exists(k) == {IF Stored(k) THEN "present" ELSE "absent"}

rangeEnd(size, offset, length) ==
  IF length >= 0 /\ length < size - offset THEN offset + length ELSE size

GetRange(k, offset, length) ==
  {IF offset < 0 THEN [kind |-> "error", data |-> <<>>]
   ELSE IF ~Stored(k) THEN [kind |-> "notfound", data |-> <<>>]
   ELSE IF offset >= Len(objects[k]) THEN [kind |-> "unsatisfiable", data |-> <<>>]
   ELSE [kind |-> "ok",
         data |-> SubSeq(objects[k], offset + 1, rangeEnd(Len(objects[k]), offset, length))]}

-------------------------------------------------------------------------------
StartStep(c) ==
  \/ \E k \in Keys, b \in Bodies : PutStart(c, k, b)
  \/ \E k \in Keys : DeleteStart(c, k)
  \/ \E dst \in Keys, srcs \in SourceLists : ComposeStart(c, dst, srcs)
  \/ \E prefix \in PrefixSets : ListStart(c, prefix)

CriticalSection(c) == Put(c) \/ Delete(c) \/ Compose(c)

RunStep(c) ==
  ReadBody(c) \/ Refuse(c) \/ CriticalSection(c) \/ Answered(c) \/ ListStep(c)

Next == \E c \in Clients : StartStep(c) \/ Lock(c) \/ RunStep(c)

Spec == Init /\ [][Next]_vars
==============================================================================
