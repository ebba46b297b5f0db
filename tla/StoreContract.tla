---------------------------- MODULE StoreContract ----------------------------
(***************************************************************************)
(* What package store promises of every ObjectStore, whatever it is made   *)
(* of: a call replaces, removes or joins whole objects at one moment        *)
(* between its start and its return, or not at all; a call that reports     *)
(* success or a missing object has taken effect, one that reports another   *)
(* error may or may not have.                                               *)
(***************************************************************************)
EXTENDS Integers, SequencesExt

CONSTANTS
  Clients, Keys,
  Bodies,              \* what callers put, as sequences of blocks
  MaxComposeSources

VARIABLES
  objects,             \* the objects stored, by key
  call,                \* what each caller is asking for
  reply,               \* what the store has decided about it, "none" before
  res                  \* the result of the caller's last call

vars == <<objects, call, reply, res>>

NoCall == [op |-> "none"]

NoResult == [op |-> "none", kind |-> "none"]

Calls ==
  [op : {"put"}, key : Keys, body : Bodies]
    \union [op : {"delete", "deleteIfExists"}, key : Keys]
    \union [op : {"compose"}, key : Keys, srcs : Seq(Keys)]

With(k, data) == [x \in DOMAIN objects \union {k} |-> IF x = k THEN data ELSE objects[x]]

Without(k) == Restrict(objects, DOMAIN objects \ {k})

Missing(k) == k \notin DOMAIN objects

Init ==
  /\ objects \in UNION {[stored -> Bodies] : stored \in SUBSET Keys}
  /\ call = [c \in Clients |-> NoCall]
  /\ reply = [c \in Clients |-> "none"]
  /\ res = [c \in Clients |-> NoResult]

Invoke(c) ==
  /\ call[c] = NoCall
  /\ call'[c] \in Calls
  /\ call' = [call EXCEPT ![c] = call'[c]]
  /\ res' = [res EXCEPT ![c] = NoResult]
  /\ UNCHANGED <<objects, reply>>

ServePut(o, kind) == o.op = "put" /\ kind = "ok" /\ objects' = With(o.key, o.body)

ServeDelete(o, kind) ==
  /\ o.op \in {"delete", "deleteIfExists"}
  /\ kind = IF o.op = "delete" /\ Missing(o.key) THEN "notfound" ELSE "ok"
  /\ objects' = Without(o.key)

ServeCompose(o, kind) ==
  /\ o.op = "compose" /\ Len(o.srcs) \in 1..MaxComposeSources
  /\ \/ /\ \E i \in DOMAIN o.srcs : Missing(o.srcs[i])
        /\ kind = "notfound" /\ UNCHANGED objects
     \/ /\ \A i \in DOMAIN o.srcs : ~Missing(o.srcs[i])
        /\ kind = "ok"
        /\ objects' = With(o.key, FlattenSeq([i \in DOMAIN o.srcs |-> objects[o.srcs[i]]]))

Serve(c) ==
  /\ call[c] # NoCall /\ reply[c] = "none"
  /\ \E kind \in {"ok", "notfound"} :
       /\ ServePut(call[c], kind) \/ ServeDelete(call[c], kind) \/ ServeCompose(call[c], kind)
       /\ reply' = [reply EXCEPT ![c] = kind]
  /\ UNCHANGED <<call, res>>

Respond(c) ==
  /\ call[c] # NoCall
  /\ \E kind \in {"error", reply[c]} \ {"none"} :
       res' = [res EXCEPT ![c] = [op |-> call[c].op, kind |-> kind]]
  /\ call' = [call EXCEPT ![c] = NoCall]
  /\ reply' = [reply EXCEPT ![c] = "none"]
  /\ UNCHANGED objects

Next == \E c \in Clients : Invoke(c) \/ Serve(c) \/ Respond(c)

Spec == Init /\ [][Next]_vars
==============================================================================
