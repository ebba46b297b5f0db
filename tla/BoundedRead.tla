----------------------------- MODULE BoundedRead -----------------------------
(***************************************************************************)
(* Reading a source under Registry.Extract: io.ReadAll pulls through a      *)
(* ctxReader, which observes ctx before each read, and a limitReader, which *)
(* allows one byte past the limit so that a source of exactly limit bytes   *)
(* is told from one that is too large. Data is abstracted to byte counts.   *)
(***************************************************************************)
EXTENDS Integers

CONSTANTS
  MaxInt,        \* the largest value of the signed integer that counts bytes (int64)
  Limits,        \* values of WithMaxBytes
  Sizes,         \* lengths of a source
  Buffers        \* lengths of the buffers io.ReadAll offers

ASSUME LimitsAssumption ==
  /\ MaxInt \in Nat \ {0}
  /\ Limits \subseteq 1..MaxInt
  /\ Sizes \subseteq Nat
  /\ Buffers \subseteq 1..MaxInt

VARIABLES
  limit, size,
  sent,          \* bytes the source has given
  remaining,     \* limitReader.remaining
  want,          \* the length of the read the source is asked for
  got,           \* bytes ReadAll has buffered
  pc, canceled, outcome

vars == <<limit, size, sent, remaining, want, got, pc, canceled, outcome>>

(* Signed addition wraps around. *)
Wrapped(x) == IF x > MaxInt THEN x - 2 * (MaxInt + 1) ELSE x

Init ==
  /\ limit \in Limits /\ size \in Sizes
  /\ sent = 0 /\ remaining = limit /\ want = 0 /\ got = 0
  /\ pc = "request" /\ canceled \in BOOLEAN /\ outcome = "none"

Return(result) == pc' = "returned" /\ outcome' = result

(* ctxReader.Read: a read is not begun once ctx is done. *)
ReadAborted ==
  /\ pc = "request" /\ canceled
  /\ Return("canceled")
  /\ UNCHANGED <<limit, size, sent, remaining, want, got, canceled>>

(* Mutant: the buffer is not cut. *)
clipNever(p) == p

(* p = p[:lr.remaining+1] of a longer buffer; a negative length panics. *)
clip(p) == IF p > Wrapped(remaining + 1) THEN Wrapped(remaining + 1) ELSE p

Request(p) ==
  /\ pc = "request" /\ ~canceled
  /\ IF clip(p) < 0
     THEN Return("panic") /\ UNCHANGED want
     ELSE pc' = "reader" /\ want' = clip(p) /\ UNCHANGED outcome
  /\ UNCHANGED <<limit, size, sent, remaining, got, canceled>>

(* What a reader may say with n bytes: it may fail at any time, and announce the end
   with the last bytes or after them. *)
Answers(n) == {"nil", "fail"} \cup (IF sent + n = size THEN {"EOF"} ELSE {})

(* Mutant: the end of the source is believed before the limit is checked. *)
OutcomeEndFirst(err, left) ==
  IF err = "EOF" THEN "ok"
  ELSE IF left < 0 THEN "toolarge"
  ELSE IF err = "fail" THEN "failed"
  ELSE "none"

(* limitReader.Read returns the limit error over the source's own; ReadAll keeps
   reading while there is no error, and takes io.EOF for success. *)
OutcomeOf(err, left) ==
  IF left < 0 THEN "toolarge"
  ELSE IF err = "EOF" THEN "ok"
  ELSE IF err = "fail" THEN "failed"
  ELSE "none"

Answer(n, err) ==
  /\ pc = "reader"
  /\ n <= want /\ sent + n <= size /\ err \in Answers(n)
  /\ sent' = sent + n /\ remaining' = remaining - n /\ got' = got + n
  /\ want' = 0
  /\ outcome' = OutcomeOf(err, remaining - n)
  /\ pc' = IF outcome' = "none" THEN "request" ELSE "returned"
  /\ UNCHANGED <<limit, size, canceled>>

Cancel ==
  /\ ~canceled /\ pc # "returned"
  /\ canceled' = TRUE
  /\ UNCHANGED <<limit, size, sent, remaining, want, got, pc, outcome>>

Terminated == pc = "returned" /\ UNCHANGED vars

Next ==
  \/ ReadAborted
  \/ \E p \in Buffers : Request(p)
  \/ \E n \in 0..want, err \in {"nil", "EOF", "fail"} : Answer(n, err)
  \/ Cancel
  \/ Terminated

Spec == Init /\ [][Next]_vars

-------------------------------------------------------------------------------
(* Properties. *)

Outcomes == {"none", "ok", "toolarge", "failed", "canceled", "panic"}

TypeOK ==
  /\ limit \in Limits /\ size \in Sizes
  /\ {sent, want, got} \subseteq Nat /\ remaining \in Int
  /\ pc \in {"request", "reader", "returned"}
  /\ canceled \in BOOLEAN /\ outcome \in Outcomes

(* A source of at most limit bytes is read whole or not at all, one byte more is an
   error and never a truncated success, however the reader cuts its answers. *)
NeverTruncated ==
  /\ outcome = "ok" => got = size /\ size <= limit
  /\ outcome = "toolarge" => size > limit

(* A source is never asked for more than one byte past the limit. *)
OneByteOver == sent <= limit + 1 /\ (pc = "reader" => want <= remaining + 1)

(* Every positive limit is served: WithMaxBytes panics on a limit that is not. *)
PositiveLimitWorks == outcome # "panic"
==============================================================================
