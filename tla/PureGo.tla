------------------------------- MODULE PureGo -------------------------------
(***************************************************************************)
(* One call of Engine.Pages of extract/pdf/purego: a worker goroutine runs  *)
(* the parser, which may fail, panic or never return; the caller selects    *)
(* among its result, the cancellation of ctx and a watchdog timer, and on   *)
(* the last two abandons the worker.                                        *)
(***************************************************************************)
EXTENDS Naturals, SequencesExt

CONSTANT Documents    \* the PDFs a caller may pass: how the parser takes each part

PageKinds == {"text", "blank", "null", "error", "panic", "hang"}

ASSUME DocumentsAssumption ==
  Documents \subseteq [open : {"ok", "error", "panic", "hang"}, pages : Seq(PageKinds)]

VARIABLES
  doc,
  main,        \* where the caller's goroutine is
  worker,      \* where the worker goroutine is
  page,        \* the page the worker is at
  found,       \* the pages whose text the worker has collected
  made,        \* the result the worker has to send
  ch,          \* the result channel, with one slot
  canceled,    \* ctx is done
  fired,       \* the timer has a value in its channel
  taken,       \* the result received
  outcome,     \* what Pages returned
  limited      \* history: ctx was done or the timer had fired at the select

vars == <<doc, main, worker, page, found, made, ch, canceled, fired, taken, outcome, limited>>

mainVars == <<main, taken, outcome, limited>>

Result(kind, pages) == [kind |-> kind, pages |-> pages]

None == Result("none", <<>>)

Init ==
  /\ doc \in Documents
  /\ main = "enter" /\ worker = "none"
  /\ page = 1 /\ found = <<>> /\ made = None /\ ch = <<>>
  /\ canceled \in BOOLEAN /\ fired = FALSE
  /\ taken = None /\ outcome = None /\ limited = FALSE

Return(result) == main' = "returned" /\ outcome' = result

-------------------------------------------------------------------------------
(* The caller's goroutine. *)

Enter ==
  /\ main = "enter"
  /\ \/ /\ canceled
        /\ Return(Result("canceled", <<>>))
        /\ UNCHANGED worker
     \/ /\ ~canceled
        /\ main' = "select" /\ worker' = "opening"
        /\ UNCHANGED outcome
  /\ UNCHANGED <<doc, page, found, made, ch, canceled, fired, taken, limited>>

TakeResult ==
  /\ main = "select" /\ ch # <<>>
  /\ taken' = Head(ch) /\ ch' = Tail(ch)
  /\ limited' = (canceled \/ fired)
  /\ main' = "recheckCtx"
  /\ UNCHANGED <<doc, worker, page, found, made, canceled, fired, outcome>>

TakeCancel ==
  /\ main = "select" /\ canceled
  /\ Return(Result("canceled", <<>>))
  /\ limited' = TRUE
  /\ UNCHANGED <<doc, worker, page, found, made, ch, canceled, fired, taken>>

(* Mutant: the select has no timer case. *)
TakeTimerDropped == main = "select" /\ fired /\ UNCHANGED vars

TakeTimer ==
  /\ main = "select" /\ fired
  /\ Return(Result("timeout", <<>>))
  /\ limited' = TRUE
  /\ UNCHANGED <<doc, worker, page, found, made, ch, canceled, fired, taken>>

(* Mutant: a result received is returned whatever became of ctx. *)
RecheckCtxSkipped ==
  /\ main = "recheckCtx"
  /\ main' = "recheckTimer"
  /\ UNCHANGED <<doc, worker, page, found, made, ch, canceled, fired, taken, outcome, limited>>

RecheckCtx ==
  /\ main = "recheckCtx"
  /\ \/ canceled /\ Return(Result("canceled", <<>>))
     \/ ~canceled /\ main' = "recheckTimer" /\ UNCHANGED outcome
  /\ UNCHANGED <<doc, worker, page, found, made, ch, canceled, fired, taken, limited>>

RecheckTimer ==
  /\ main = "recheckTimer"
  /\ Return(IF fired THEN Result("timeout", <<>>) ELSE taken)
  /\ UNCHANGED <<doc, worker, page, found, made, ch, canceled, fired, taken, limited>>

MainStep == Enter \/ TakeResult \/ TakeCancel \/ TakeTimer \/ RecheckCtx \/ RecheckTimer

-------------------------------------------------------------------------------
(* The worker. A parser that hangs is a worker without a step. *)

Finish(result) == worker' = "sending" /\ made' = result

Open ==
  /\ worker = "opening"
  /\ \/ /\ doc.open = "ok"
        /\ worker' = "paging"
        /\ UNCHANGED made
     \/ /\ doc.open \in {"error", "panic"}
        /\ Finish(Result("malformed", <<>>))
  /\ UNCHANGED <<doc, page, found, ch, canceled, fired>> /\ UNCHANGED mainVars

(* Mutant: recover reports no error, and leaves the pages collected so far. *)
PagePanicsQuietly ==
  /\ worker = "paging" /\ page <= Len(doc.pages) /\ ~canceled
  /\ doc.pages[page] = "panic"
  /\ Finish(Result("pages", found))
  /\ UNCHANGED <<doc, page, found, ch, canceled, fired>> /\ UNCHANGED mainVars

(* recover drops the pages and makes a panic of the parser a malformed source. *)
PagePanics ==
  /\ worker = "paging" /\ page <= Len(doc.pages) /\ ~canceled
  /\ doc.pages[page] = "panic"
  /\ Finish(Result("malformed", <<>>))
  /\ UNCHANGED <<doc, page, found, ch, canceled, fired>> /\ UNCHANGED mainVars

PageLoopCanceled ==
  /\ worker = "paging" /\ page <= Len(doc.pages) /\ canceled
  /\ Finish(Result("canceled", <<>>))
  /\ UNCHANGED <<doc, page, found, ch, canceled, fired>> /\ UNCHANGED mainVars

(* An unreadable page is skipped, like one without text. *)
ReadPage ==
  /\ worker = "paging" /\ page <= Len(doc.pages) /\ ~canceled
  /\ doc.pages[page] \notin {"panic", "hang"}
  /\ found' = IF doc.pages[page] = "text" THEN Append(found, page) ELSE found
  /\ page' = page + 1
  /\ UNCHANGED <<doc, worker, made, ch, canceled, fired>> /\ UNCHANGED mainVars

LastPageRead ==
  /\ worker = "paging" /\ page > Len(doc.pages)
  /\ Finish(Result("pages", found))
  /\ UNCHANGED <<doc, page, found, ch, canceled, fired>> /\ UNCHANGED mainVars

(* Mutant: the channel has no buffer, so a send waits for the select. *)
SendUnbuffered ==
  /\ worker = "sending" /\ ch = <<>> /\ main = "select"
  /\ ch' = <<made>> /\ worker' = "gone"
  /\ UNCHANGED <<doc, page, found, made, canceled, fired>> /\ UNCHANGED mainVars

Send ==
  /\ worker = "sending" /\ ch = <<>>
  /\ ch' = <<made>> /\ worker' = "gone"
  /\ UNCHANGED <<doc, page, found, made, canceled, fired>> /\ UNCHANGED mainVars

WorkerStep == Open \/ PagePanics \/ PageLoopCanceled \/ ReadPage \/ LastPageRead \/ Send

-------------------------------------------------------------------------------
(* The caller's context, and the timer, stopped when Pages returns. *)

Cancel ==
  /\ ~canceled
  /\ canceled' = TRUE
  /\ UNCHANGED <<doc, worker, page, found, made, ch, fired>> /\ UNCHANGED mainVars

FireTimer ==
  /\ main \in {"select", "recheckCtx", "recheckTimer"} /\ ~fired
  /\ fired' = TRUE
  /\ UNCHANGED <<doc, worker, page, found, made, ch, canceled>> /\ UNCHANGED mainVars

(* A call that has returned rests, its worker gone or in a parser that hangs. *)
Terminated == main = "returned" /\ UNCHANGED vars

Next == MainStep \/ WorkerStep \/ Cancel \/ FireTimer \/ Terminated

Spec == Init /\ [][Next]_vars

(* Runnable goroutines are scheduled and a running timer fires; nobody has to cancel. *)
FairSpec == Spec /\ WF_vars(MainStep) /\ WF_vars(WorkerStep) /\ WF_vars(FireTimer)

-------------------------------------------------------------------------------
(* Properties. *)

Results == [kind : {"none", "pages", "malformed", "canceled", "timeout"}, pages : Seq(Nat)]

TypeOK ==
  /\ doc \in Documents
  /\ main \in {"enter", "select", "recheckCtx", "recheckTimer", "returned"}
  /\ worker \in {"none", "opening", "paging", "sending", "gone"}
  /\ page \in 1..(Len(doc.pages) + 1)
  /\ found \in Seq(Nat)
  /\ made \in Results /\ taken \in Results /\ outcome \in Results
  /\ ch \in Seq(Results) /\ Len(ch) <= 1
  /\ canceled \in BOOLEAN /\ fired \in BOOLEAN /\ limited \in BOOLEAN

(* The pages with text among the first n, in order and once each. *)
TextPages(numbers, n) ==
  /\ \A i, j \in DOMAIN numbers : i < j => numbers[i] < numbers[j]
  /\ ToSet(numbers) = {k \in 1..n : doc.pages[k] = "text"}

Readable(d) == d.open = "ok" /\ \A k \in DOMAIN d.pages : d.pages[k] \notin {"panic", "hang"}

(* Pages returns the text of every page of a document or none at all: a panic, a hang
   or a cancellation in the middle never passes for a document with fewer pages. *)
PagesComplete ==
  outcome.kind = "pages" => Readable(doc) /\ TextPages(outcome.pages, Len(doc.pages))

(* What the worker sends never beats a limit that was reached when the select chose
   it, whatever case the select picks, and each error has its cause: ctx, the timer or
   the document itself, across the races of worker, caller and watchdog. *)
OutcomeHasCause ==
  /\ limited => outcome.kind \in {"none", "canceled", "timeout"}
  /\ outcome.kind = "canceled" => canceled
  /\ outcome.kind = "timeout" => fired
  /\ outcome.kind = "malformed" => ~Readable(doc)

(* Pages returns although the parser may hang. *)
PagesReturns == <>(main = "returned")

(* A worker whose parser has returned ends, although nobody may receive its result. *)
WorkerEnds == worker = "sending" ~> worker = "gone"
=============================================================================
