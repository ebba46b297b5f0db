------------------------------ MODULE PdfToText ------------------------------
(***************************************************************************)
(* One call of Engine.Pages of extract/pdf/pdftotext: a child process under *)
(* a deadline writes form-feed separated text to a pipe, a copy goroutine   *)
(* moves it into a capped buffer, and the caller classifies what happened   *)
(* by four checks, between which ctx and the deadline go on.                *)
(***************************************************************************)
EXTENDS Naturals, SequencesExt

CONSTANTS
  MaxOutput,   \* the cap on the extracted text, in bytes
  WriteCap,    \* bound: bytes the child writes
  Writes       \* what the child writes at once: "x" is text, "F" a form feed

ASSUME WritesAssumption ==
  /\ MaxOutput \in Nat \ {0} /\ WriteCap \in Nat
  /\ Writes \subseteq Seq({"x", "F"}) \ {<<>>}

VARIABLES
  binary,      \* whether the executable is found and can be run
  pc,          \* where the caller is
  child,       \* the process
  written,     \* all the child has written
  pipe,        \* writes the copy goroutine has not taken
  buf,         \* capWriter.buf
  exceeded,    \* capWriter.exceeded
  copying,     \* the copy goroutine runs
  ctx,         \* the caller's context
  cctx,        \* the context with the deadline, derived from ctx
  runErr,
  outcome, pages

vars == <<binary, pc, child, written, pipe, buf, exceeded, copying, ctx, cctx, runErr, outcome, pages>>

childVars == <<child, written>>
copyVars == <<pipe, buf, exceeded, copying>>
resultVars == <<outcome, pages>>

Init ==
  /\ binary \in {"missing", "unstartable", "ok"}
  /\ pc = "lookpath" /\ child = "none"
  /\ written = <<>> /\ pipe = <<>> /\ buf = <<>>
  /\ exceeded = FALSE /\ copying = FALSE
  /\ ctx \in {"live", "canceled"} /\ cctx = "none"
  /\ runErr = "none" /\ outcome = "none" /\ pages = <<>>

Return(kind) == pc' = "returned" /\ outcome' = kind /\ UNCHANGED pages

-------------------------------------------------------------------------------
(* Starting the child. *)

LookPath ==
  /\ pc = "lookpath"
  /\ \/ /\ binary = "missing"
        /\ Return("unavailable")
        /\ UNCHANGED cctx
     \/ /\ binary # "missing"
        /\ pc' = "start"
        /\ cctx' = ctx
        /\ UNCHANGED resultVars
  /\ UNCHANGED <<binary, ctx, runErr>> /\ UNCHANGED childVars /\ UNCHANGED copyVars

(* Run does not start a child under a context that is done. *)
StartChild ==
  /\ pc = "start"
  /\ \/ /\ cctx # "live" \/ binary = "unstartable"
        /\ runErr' = IF cctx # "live" THEN "context" ELSE "exec"
        /\ pc' = "checkCap"
        /\ UNCHANGED <<child, copying>>
     \/ /\ cctx = "live" /\ binary = "ok"
        /\ child' = "running" /\ copying' = TRUE
        /\ pc' = "wait"
        /\ UNCHANGED runErr
  /\ UNCHANGED <<binary, written, pipe, buf, exceeded, ctx, cctx>> /\ UNCHANGED resultVars

-------------------------------------------------------------------------------
(* The child, and the goroutine that kills it when cctx is done. *)

ChildWrite(w) ==
  /\ child = "running"
  /\ Len(written) + Len(w) <= WriteCap
  /\ written' = written \o w
  /\ pipe' = IF copying THEN Append(pipe, w) ELSE pipe
  /\ UNCHANGED <<binary, pc, child, buf, exceeded, copying, ctx, cctx, runErr>> /\ UNCHANGED resultVars

ChildExit(status) ==
  /\ child = "running"
  /\ child' = status
  /\ UNCHANGED <<binary, pc, written, ctx, cctx, runErr>> /\ UNCHANGED copyVars /\ UNCHANGED resultVars

(* Mutant: the child runs under no context. *)
KillChildNever == FALSE /\ UNCHANGED vars

KillChild ==
  /\ child = "running" /\ cctx # "live"
  /\ child' = "killed"
  /\ UNCHANGED <<binary, pc, written, ctx, cctx, runErr>> /\ UNCHANGED copyVars /\ UNCHANGED resultVars

-------------------------------------------------------------------------------
(* capWriter. *)

(* Mutant: the buffer is cut at the cap like that of stderr, and nobody is told. *)
CopyOutTruncating ==
  /\ copying /\ pipe # <<>>
  /\ buf' = IF Len(buf) + Len(Head(pipe)) > MaxOutput THEN buf ELSE buf \o Head(pipe)
  /\ pipe' = Tail(pipe)
  /\ UNCHANGED <<binary, pc, exceeded, copying, ctx, cctx, runErr>> /\ UNCHANGED childVars /\ UNCHANGED resultVars

(* The write that would pass the cap cancels cctx and ends the copying. *)
CopyOut ==
  /\ copying /\ pipe # <<>>
  /\ \/ /\ Len(buf) + Len(Head(pipe)) > MaxOutput
        /\ exceeded' = TRUE
        /\ copying' = FALSE /\ pipe' = <<>>
        /\ cctx' = IF cctx = "live" THEN "canceled" ELSE cctx
        /\ UNCHANGED buf
     \/ /\ Len(buf) + Len(Head(pipe)) <= MaxOutput
        /\ buf' = buf \o Head(pipe)
        /\ pipe' = Tail(pipe)
        /\ UNCHANGED <<exceeded, copying, cctx>>
  /\ UNCHANGED <<binary, pc, ctx, runErr>> /\ UNCHANGED childVars /\ UNCHANGED resultVars

(* The copying ends at the end of the pipe, which the child's end closes. *)
CopyEnds ==
  /\ copying /\ pipe = <<>> /\ child # "running"
  /\ copying' = FALSE
  /\ UNCHANGED <<binary, pc, pipe, buf, exceeded, ctx, cctx, runErr>> /\ UNCHANGED childVars /\ UNCHANGED resultVars

-------------------------------------------------------------------------------
(* Run returns when the child and the copying have ended. An exit status other than
   success is preferred over the error of the context or of the copy. *)

RunErrors ==
  IF child \in {"failed", "killed"} THEN {"exit"}
  ELSE IF exceeded THEN {"copy", "context"}
  ELSE IF cctx # "live" THEN {"none", "context"}
  ELSE {"none"}

RunReturns ==
  /\ pc = "wait" /\ child # "running" /\ ~copying
  /\ runErr' \in RunErrors
  /\ pc' = "checkCap"
  /\ UNCHANGED <<binary, ctx, cctx>> /\ UNCHANGED childVars /\ UNCHANGED copyVars /\ UNCHANGED resultVars

(* Mutant: the caller is asked about before the cap. *)
CheckCapLast ==
  /\ pc = "checkCap"
  /\ \/ exceeded /\ Return(IF ctx = "canceled" THEN "canceled" ELSE "timeout")
     \/ ~exceeded /\ pc' = "checkCaller" /\ UNCHANGED resultVars
  /\ UNCHANGED <<binary, ctx, cctx, runErr>> /\ UNCHANGED childVars /\ UNCHANGED copyVars

CheckCap ==
  /\ pc = "checkCap"
  /\ \/ exceeded /\ Return("toolarge")
     \/ ~exceeded /\ pc' = "checkCaller" /\ UNCHANGED resultVars
  /\ UNCHANGED <<binary, ctx, cctx, runErr>> /\ UNCHANGED childVars /\ UNCHANGED copyVars

CheckCaller ==
  /\ pc = "checkCaller"
  /\ \/ ctx # "live" /\ Return("canceled")
     \/ ctx = "live" /\ pc' = "checkOwn" /\ UNCHANGED resultVars
  /\ UNCHANGED <<binary, ctx, cctx, runErr>> /\ UNCHANGED childVars /\ UNCHANGED copyVars

CheckOwn ==
  /\ pc = "checkOwn"
  /\ \/ cctx # "live" /\ Return("timeout")
     \/ cctx = "live" /\ pc' = "checkRun" /\ UNCHANGED resultVars
  /\ UNCHANGED <<binary, ctx, cctx, runErr>> /\ UNCHANGED childVars /\ UNCHANGED copyVars

(* Mutant: pages without text give up their slot. *)
splitPagesDense(out) ==
  LET starts == {k \in DOMAIN out : out[k] = "x" /\ (k = 1 \/ out[k - 1] = "F")}
      Start(p) == CHOOSE k \in starts : Cardinality({s \in starts : s <= k}) = p
      End(k) == Max({e \in k..Len(out) : \A m \in k..e : out[m] = "x"})
  IN  [p \in 1..Cardinality(starts) |-> [number |-> p, text |-> SubSeq(out, Start(p), End(Start(p)))]]

(* The text of page p is what stands between form feeds p - 1 and p; the block behind
   the last one is dropped when it is empty. A page keeps its place when it is blank. *)
splitPages(out) ==
  LET feeds == {k \in DOMAIN out : out[k] = "F"}
      Feed(p) == CHOOSE k \in feeds : Cardinality({f \in feeds : f <= k}) = p
      n == Cardinality(feeds)
      Block(p) == SubSeq(out, IF p = 1 THEN 1 ELSE Feed(p - 1) + 1,
                              IF p = n + 1 THEN Len(out) ELSE Feed(p) - 1)
      last == IF out # <<>> /\ Last(out) # "F" THEN n + 1 ELSE n
  IN  [p \in 1..last |-> [number |-> p, text |-> Block(p)]]

CheckRun ==
  /\ pc = "checkRun"
  /\ \/ /\ runErr = "exit"
        /\ Return("malformed")
     \/ /\ runErr \notin {"none", "exit"}
        /\ Return("execFailed")
     \/ /\ runErr = "none"
        /\ pc' = "returned" /\ outcome' = "pages"
        /\ pages' = splitPages(buf)
  /\ UNCHANGED <<binary, ctx, cctx, runErr>> /\ UNCHANGED childVars /\ UNCHANGED copyVars

-------------------------------------------------------------------------------
(* Contexts. *)

(* The caller cancels, or its own deadline passes; cctx is done with ctx. *)
CancelCaller ==
  /\ ctx = "live" /\ pc # "returned"
  /\ ctx' = "canceled"
  /\ cctx' = IF cctx = "live" THEN "canceled" ELSE cctx
  /\ UNCHANGED <<binary, pc, runErr>> /\ UNCHANGED childVars /\ UNCHANGED copyVars /\ UNCHANGED resultVars

Expire ==
  /\ cctx = "live" /\ pc # "returned"
  /\ cctx' = "expired"
  /\ UNCHANGED <<binary, pc, ctx, runErr>> /\ UNCHANGED childVars /\ UNCHANGED copyVars /\ UNCHANGED resultVars

CallerStep ==
  LookPath \/ StartChild \/ RunReturns \/ CheckCap \/ CheckCaller \/ CheckOwn \/ CheckRun

CopyStep == CopyOut \/ CopyEnds

ChildStep == (\E w \in Writes : ChildWrite(w)) \/ ChildExit("exited") \/ ChildExit("failed")

Terminated == pc = "returned" /\ UNCHANGED vars

Next == CallerStep \/ CopyStep \/ KillChild \/ ChildStep \/ CancelCaller \/ Expire \/ Terminated

Spec == Init /\ [][Next]_vars

(* The deadline passes, a killed process dies and goroutines run; the child may write
   for ever or hang, and nobody has to cancel. *)
FairSpec ==
  Spec /\ WF_vars(CallerStep) /\ WF_vars(CopyStep) /\ WF_vars(KillChild) /\ WF_vars(Expire)

-------------------------------------------------------------------------------
(* Properties. *)

(* Pages are returned only for the whole output of a child that exited with success
   and stayed within the cap: cancellation, kill and truncation never pass for a
   shorter document, and the buffer never grows past the cap. *)
OutputWholeAndBounded ==
  /\ Len(buf) <= MaxOutput
  /\ outcome = "pages" => child = "exited" /\ buf = written

(* The cap's own cancellation is never mistaken for the caller's or for the deadline:
   output past the cap is reported as such, whatever else happens on the way. *)
CapReportedAsCap ==
  /\ exceeded => outcome \in {"none", "toolarge"}
  /\ outcome = "toolarge" => Len(written) > MaxOutput

(* The bytes of text behind as many form feeds of the child as there are pages in front of
   page p. *)
PageBytes(p) ==
  {k \in DOMAIN written :
     written[k] = "x" /\ Cardinality({f \in 1..k : written[f] = "F"}) = p - 1}

(* A page's number is its place between the form feeds the child wrote, blank pages
   counted; it holds the text of that place, and every byte of text is on a page. *)
PageNumbersPositional ==
  outcome = "pages" =>
    /\ \A p, q \in DOMAIN pages : p < q => pages[p].number < pages[q].number
    /\ \A p \in DOMAIN pages :
         /\ ToSet(pages[p].text) \subseteq {"x"}
         /\ Len(pages[p].text) = Cardinality(PageBytes(pages[p].number))
    /\ \A k \in DOMAIN written : written[k] = "x" =>
         \E p \in DOMAIN pages : k \in PageBytes(pages[p].number)

(* Pages returns although the child may write or hang for ever. *)
PagesReturns == <>(pc = "returned")

(* A PDF is reported as too slow only when the engine's own deadline passed: the
   comment at the check says "Our own timeout fired (parent still alive)". *)
TimeoutIsOwn == outcome = "timeout" => cctx = "expired"
==============================================================================
