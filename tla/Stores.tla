-------------------------------- MODULE Stores --------------------------------
(***************************************************************************)
(* Callers of package store over one of its two implementations, the Cloud *)
(* Storage adapter or the in-memory fake: what a consumer may rely on when  *)
(* it is tested against the one and deployed on the other.                  *)
(***************************************************************************)
EXTENDS Integers, SequencesExt

CONSTANTS
  Clients, Keys, Bodies, PrefixSets, PageSize, MaxInt, MaxComposeSources, SourceLists,
  MaxCalls             \* bound: calls all callers start together, those of callbacks apart

ASSUME StoresAssumption ==
  /\ "free" \notin Clients /\ Keys \subseteq Nat /\ IsFiniteSet(Keys) /\ PrefixSets \subseteq SUBSET Keys
  /\ {PageSize, MaxInt, MaxComposeSources} \subseteq Nat \ {0} /\ MaxCalls \in Nat
  /\ SourceLists \subseteq Seq(Keys)
  /\ Bodies \subseteq Seq(STRING) /\ \A b \in Bodies : Len(b) \in 0..MaxInt

VARIABLES
  backend,             \* which implementation the callers were given
  objects, mu, pc, call, buf, reply, res, listing,
  started,             \* the calls started so far
  throughout,          \* history: keys stored ever since a caller's List began
  sometime             \* history: what was stored at some moment since

vars == <<backend, objects, mu, pc, call, buf, reply, res, listing, started, throughout, sometime>>

Gcs == INSTANCE GcsStore

Mem == INSTANCE MemoryStore

Snap == {[key |-> k, size |-> Len(objects[k])] : k \in DOMAIN objects}

Init ==
  /\ backend \in {"gcs", "memory"}
  /\ Gcs!Init /\ Mem!Init
  /\ started = 0
  /\ throughout = [c \in Clients |-> {}] /\ sometime = [c \in Clients |-> {}]

(* What a List that runs from this step on, or still runs, may have seen. *)
Observe ==
  /\ throughout' = [c \in Clients |->
       IF ~listing'[c].active THEN {}
       ELSE IF ~listing[c].active THEN DOMAIN objects ELSE throughout[c] \intersect DOMAIN objects']
  /\ sometime' = [c \in Clients |->
       IF ~listing'[c].active THEN {}
       ELSE IF ~listing[c].active THEN Snap ELSE sometime[c] \union Snap']

ByGcs(step) == backend = "gcs" /\ step /\ UNCHANGED <<backend, mu>> /\ Observe

ByMemory(step) == backend = "memory" /\ step /\ UNCHANGED <<backend, buf>> /\ Observe

StartStep(c) ==
  /\ started < MaxCalls
  /\ started' = started + 1
  /\ ByGcs(Gcs!StartStep(c)) \/ ByMemory(Mem!StartStep(c))

RunStep(c) == (ByGcs(Gcs!RunStep(c)) \/ ByMemory(Mem!RunStep(c))) /\ UNCHANGED started

MemLock(c) == ByMemory(Mem!Lock(c)) /\ UNCHANGED started

Next == \E c \in Clients : StartStep(c) \/ RunStep(c) \/ MemLock(c)

Spec == Init /\ [][Next]_vars

(* Callers and callbacks go on, the service or its client library answers, and the
   mutex is fair, as that of the Go runtime is. *)
FairSpec == Spec /\ \A c \in Clients : WF_vars(RunStep(c)) /\ SF_vars(MemLock(c))

-------------------------------------------------------------------------------
(* Properties. *)

Contract ==
  INSTANCE StoreContract WITH
    reply <- [c \in Clients |-> Gcs!answerOf(call[c].op, reply[c])]

(* Both stores keep the contract under concurrent callers, failing copies, lost requests
   and lost responses: objects change as wholes, at most once a call, and a result other
   than an error says what has happened. *)
ImplementsStore == Contract!Spec

(* The signed integers of offsets and lengths. *)
Int64 == -(MaxInt + 1)..MaxInt

(* store.RangeReader and Exists, for every object the store ever holds and every offset
   and length of the integer type, the negative ones too: of what Get returns, the bytes
   from offset on, shortened at the end of the object, all of them when the length is
   negative. An offset at or past the end is not satisfiable, and one before the start is
   an error of its own, whether the object is there or not. *)
ReadsAsContract ==
  \A k \in Keys :
    \A whole \in IF backend = "gcs" THEN Gcs!Get(k) ELSE Mem!Get(k) : whole.kind # "lost" =>
      /\ \A e \in IF backend = "gcs" THEN Gcs!Exists(k) ELSE Mem!Exists(k) :
           e # "lost" => (e = "present" <=> whole.kind = "ok")
      /\ \A offset \in Int64, length \in Int64 :
           \A r \in IF backend = "gcs" THEN Gcs!GetRange(k, offset, length)
                                       ELSE Mem!GetRange(k, offset, length) : r.kind # "lost" =>
             IF offset < 0 THEN r.kind = "error"
             ELSE IF whole.kind = "notfound" THEN r.kind = "notfound"
             ELSE LET rest == SubSeq(whole.data, offset + 1, Len(whole.data)) IN
               IF rest = <<>> THEN r.kind = "unsatisfiable"
               ELSE r = [kind |-> "ok",
                         data |-> IF length \in 0..Len(rest) THEN SubSeq(rest, 1, length) ELSE rest]

(* What a sweep may build on while others write, and it deletes: List reports keys of
   the prefix in ascending order, each with a size it had while List ran, and when it
   succeeds it leaves out no object that was there all the time. *)
ListFaithful ==
  [][\A c \in Clients : listing[c].active =>
       LET told == listing[c].told
           keys == {told[i].key : i \in DOMAIN told} IN
         /\ \A i, j \in DOMAIN told : i < j => told[i].key < told[j].key
         /\ keys \subseteq listing[c].prefix /\ ToSet(told) \subseteq sometime[c]
         /\ listing'[c] = Gcs!NoListing("ok") =>
              throughout[c] \intersect listing[c].prefix \subseteq keys]_vars

(* A List returns although its callback calls the store it lists. *)
ListReturns == \A c \in Clients : listing[c].active ~> ~listing[c].active
==============================================================================
