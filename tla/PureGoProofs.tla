----------------------------- MODULE PureGoProofs -----------------------------
(* Proofs about PureGo for every document and every interleaving of the caller, the
   worker, the watchdog and a cancellation. *)
EXTENDS PureGo, TLAPS

(* What the worker knows of the pages behind it. *)
Collected ==
  /\ TextPages(found, page - 1)
  /\ \A k \in 1..(page - 1) : doc.pages[k] \notin {"panic", "hang"}
  /\ worker = "paging" => doc.open = "ok"

(* A result says what is so: its pages are all of a readable document, its error has a
   cause. What makes it so does not change any more. *)
Just(result) ==
  /\ result.kind = "pages" => Readable(doc) /\ TextPages(result.pages, Len(doc.pages))
  /\ result.kind = "canceled" => canceled
  /\ result.kind = "timeout" => fired
  /\ result.kind = "malformed" => ~Readable(doc)

Justified == Just(made) /\ Just(taken) /\ Just(outcome) /\ \A i \in DOMAIN ch : Just(ch[i])

(* The rechecks between the select and the return find the limit it had reached. *)
Limits ==
  /\ main \in {"enter", "select"} => ~limited
  /\ main = "recheckCtx" /\ limited => canceled \/ fired
  /\ main = "recheckTimer" /\ limited => fired
  /\ main # "returned" => outcome.kind = "none"
  /\ main = "returned" /\ limited => outcome.kind \in {"canceled", "timeout"}

IInv == TypeOK /\ Collected /\ Justified /\ Limits

(* The constants of the code are results. *)
LEMMA NoneIsResult == None \in Results /\ Result("canceled", <<>>) \in Results
                      /\ Result("malformed", <<>>) \in Results /\ Result("timeout", <<>>) \in Results
  BY DEF None, Result, Results

(* A document has a sequence of pages. *)
LEMMA DocPages == ASSUME TypeOK PROVE doc.pages \in Seq(PageKinds) /\ Len(doc.pages) \in Nat
<1>1. doc.pages \in Seq(PageKinds)
  BY DocumentsAssumption DEF TypeOK
<1> QED
  BY <1>1

(* The invariant holds at the start. *)
LEMMA InitIInv == Init => IInv
<1> SUFFICES ASSUME Init PROVE IInv
  OBVIOUS
<1>1. doc.pages \in Seq(PageKinds)
  BY DocumentsAssumption DEF Init
<1>2. Len(doc.pages) \in Nat
  BY <1>1
<1>3. <<>> \in Seq(Nat) /\ <<>> \in Seq(Results) /\ Len(<<>>) = 0 /\ DOMAIN <<>> = {}
  OBVIOUS
<1>4. TypeOK
  <2>1. page \in 1..(Len(doc.pages) + 1)
    BY <1>2 DEF Init
  <2>2. made \in Results /\ taken \in Results /\ outcome \in Results
    BY NoneIsResult DEF Init
  <2>3. found \in Seq(Nat) /\ ch \in Seq(Results) /\ Len(ch) <= 1
    BY <1>3 DEF Init
  <2> QED
    BY <2>1, <2>2, <2>3 DEF Init, TypeOK
<1>5. TextPages(found, page - 1)
  <2>1. found = <<>> /\ page - 1 = 0
    BY DEF Init
  <2>2. ToSet(<<>>) = {}
    BY <1>3 DEF ToSet
  <2> QED
    BY <1>3, <2>1, <2>2 DEF TextPages
<1>6. Collected
  BY <1>5 DEF Init, Collected
<1>7. Justified /\ Limits
  BY <1>3 DEF Init, Justified, Just, Limits, None, Result
<1> QED
  BY <1>4, <1>6, <1>7 DEF IInv

(* A result stays justified: the document is the same, ctx and the timer only get done. *)
LEMMA JustStable ==
  ASSUME NEW result, Just(result), doc' = doc, canceled => canceled', fired => fired'
  PROVE  Just(result)'
  BY DEF Just, Readable, TextPages

(* The caller's steps leave the worker's pages alone. *)
LEMMA MainPreserves == ASSUME IInv, MainStep PROVE IInv'
<1>1. UNCHANGED <<doc, page, found, canceled, fired, made>>
  BY DEF MainStep, Enter, TakeResult, TakeCancel, TakeTimer, RecheckCtx, RecheckTimer
<1>2. Collected'
  BY <1>1 DEF IInv, Collected, TextPages, MainStep, Enter, TakeResult, TakeCancel, TakeTimer,
              RecheckCtx, RecheckTimer
<1>3. \A r : Just(r) => Just(r)'
  BY <1>1, JustStable
<1>4. TypeOK /\ Justified /\ Limits
  BY DEF IInv
<1>5. \A k : k \in {"canceled", "timeout"} => Result(k, <<>>) \in Results /\ Result(k, <<>>).kind = k
  BY DEF Result, Results
<1>6. CASE Enter
  <2>1. TypeOK'
    BY <1>4, <1>5, <1>6 DEF Enter, Return, TypeOK
  <2>2. Justified'
    BY <1>1, <1>3, <1>4, <1>6 DEF Enter, Return, Justified, Just, Result
  <2>3. Limits'
    BY <1>4, <1>5, <1>6 DEF Enter, Return, Limits
  <2> QED
    BY <1>2, <2>1, <2>2, <2>3 DEF IInv
<1>7. CASE TakeResult
  <2>1. ch \in Seq(Results) /\ ch # <<>> /\ Len(ch) \in Nat
    BY <1>4, <1>7 DEF TakeResult, TypeOK
  <2>2. Head(ch) = ch[1] /\ 1 \in DOMAIN ch /\ Head(ch) \in Results
    BY <2>1
  <2>3. Tail(ch) \in Seq(Results) /\ Len(Tail(ch)) = Len(ch) - 1
    BY <2>1
  <2>4. \A i \in DOMAIN Tail(ch) : i + 1 \in DOMAIN ch /\ Tail(ch)[i] = ch[i + 1]
    BY <2>1
  <2>5. TypeOK'
    BY <1>4, <1>7, <2>1, <2>2, <2>3 DEF TakeResult, TypeOK
  <2>6. Just(taken)'
    <3>1. Just(ch[1]) /\ taken' = ch[1]
      BY <1>4, <1>7, <2>2 DEF TakeResult, Justified
    <3> QED
      BY <1>1, <3>1 DEF Just, Readable, TextPages
  <2>7. Justified'
    <3>1. (\A i \in DOMAIN ch : Just(ch[i]))'
      <4>1. ch' = Tail(ch) /\ \A i \in DOMAIN ch : Just(ch[i])
        BY <1>4, <1>7 DEF TakeResult, Justified
      <4> QED
        BY <1>1, <2>4, <4>1 DEF Just, Readable, TextPages
    <3>2. Just(made)' /\ Just(outcome)'
      BY <1>1, <1>3, <1>4, <1>7 DEF TakeResult, Justified, Just
    <3> QED
      BY <2>6, <3>1, <3>2 DEF Justified
  <2>8. Limits'
    BY <1>4, <1>7 DEF TakeResult, Limits, TypeOK
  <2> QED
    BY <1>2, <2>5, <2>7, <2>8 DEF IInv
<1>8. CASE TakeCancel
  <2>1. TypeOK'
    BY <1>4, <1>5, <1>8 DEF TakeCancel, Return, TypeOK
  <2>2. Justified'
    BY <1>1, <1>3, <1>4, <1>8 DEF TakeCancel, Return, Justified, Just, Result
  <2>3. Limits'
    BY <1>4, <1>5, <1>8 DEF TakeCancel, Return, Limits
  <2> QED
    BY <1>2, <2>1, <2>2, <2>3 DEF IInv
<1>9. CASE TakeTimer
  <2>1. TypeOK'
    BY <1>4, <1>5, <1>9 DEF TakeTimer, Return, TypeOK
  <2>2. Justified'
    BY <1>1, <1>3, <1>4, <1>9 DEF TakeTimer, Return, Justified, Just, Result
  <2>3. Limits'
    BY <1>4, <1>5, <1>9 DEF TakeTimer, Return, Limits
  <2> QED
    BY <1>2, <2>1, <2>2, <2>3 DEF IInv
<1>10. CASE RecheckCtx
  <2>1. TypeOK'
    BY <1>4, <1>5, <1>10 DEF RecheckCtx, Return, TypeOK
  <2>2. Justified'
    BY <1>1, <1>3, <1>4, <1>10 DEF RecheckCtx, Return, Justified, Just, Result
  <2>3. Limits'
    BY <1>4, <1>5, <1>10 DEF RecheckCtx, Return, Limits
  <2> QED
    BY <1>2, <2>1, <2>2, <2>3 DEF IInv
<1>11. CASE RecheckTimer
  <2>1. TypeOK'
    BY <1>4, <1>5, <1>11 DEF RecheckTimer, Return, TypeOK
  <2>2. Justified'
    BY <1>1, <1>3, <1>4, <1>11 DEF RecheckTimer, Return, Justified, Just, Result
  <2>3. Limits'
    BY <1>4, <1>5, <1>11 DEF RecheckTimer, Return, Limits
  <2> QED
    BY <1>2, <2>1, <2>2, <2>3 DEF IInv
<1> QED
  BY <1>6, <1>7, <1>8, <1>9, <1>10, <1>11 DEF MainStep

(* A result the worker finishes with is typed and justified. *)
LEMMA FinishPreserves ==
  ASSUME IInv, NEW r \in Results, Just(r), worker' = "sending", made' = r,
         UNCHANGED <<doc, page, found, ch, canceled, fired>>, UNCHANGED mainVars
  PROVE  IInv'
<1>1. TypeOK'
  BY DEF IInv, TypeOK, mainVars
<1>2. Collected'
  BY DEF IInv, Collected, TextPages
<1>3. Justified'
  BY DEF IInv, Justified, Just, Readable, TextPages, mainVars
<1>4. Limits'
  BY DEF IInv, Limits, mainVars
<1> QED
  BY <1>1, <1>2, <1>3, <1>4 DEF IInv

(* A page collected after the others keeps them ascending and complete. *)
LEMMA PageCollected ==
  ASSUME IInv, ReadPage
  PROVE  found' \in Seq(Nat) /\ TextPages(found', page)
<1>1. doc.pages \in Seq(PageKinds) /\ Len(doc.pages) \in Nat
  BY DocPages DEF IInv
<1>2. page \in Nat \ {0} /\ found \in Seq(Nat)
  BY <1>1 DEF IInv, TypeOK
<1>3. TextPages(found, page - 1)
  BY DEF IInv, Collected
<1>4. 1..page = 1..(page - 1) \union {page}
  BY <1>2
<1>5. CASE doc.pages[page] # "text"
  BY <1>2, <1>3, <1>4, <1>5 DEF ReadPage, TextPages
<1>6. CASE doc.pages[page] = "text"
  <2>1. found' = Append(found, page)
    BY <1>6 DEF ReadPage
  <2>2. Len(found) \in Nat /\ found' \in Seq(Nat) /\ Len(found') = Len(found) + 1
    BY <1>2, <2>1
  <2>3. \A i \in 1..Len(found) : found'[i] = found[i]
    BY <1>2, <2>1
  <2>4. found'[Len(found) + 1] = page
    BY <1>2, <2>1
  <2>5. DOMAIN found = 1..Len(found) /\ DOMAIN found' = 1..(Len(found) + 1)
    BY <1>2, <2>2
  <2>6. ToSet(found) = {k \in 1..(page - 1) : doc.pages[k] = "text"}
    BY <1>3 DEF TextPages
  <2>7. \A i \in DOMAIN found : found[i] \in 1..(page - 1)
    BY <2>6 DEF ToSet
  <2>8. \A i, j \in DOMAIN found' : i < j => found'[i] < found'[j]
    <3>1. SUFFICES ASSUME NEW i \in DOMAIN found', NEW j \in DOMAIN found', i < j
                   PROVE  found'[i] < found'[j]
      OBVIOUS
    <3>2. i \in DOMAIN found /\ found'[i] = found[i] /\ found[i] \in 1..(page - 1)
      BY <2>2, <2>3, <2>5, <2>7, <3>1
    <3>3. CASE j = Len(found) + 1
      BY <1>2, <2>4, <3>2, <3>3
    <3>4. CASE j # Len(found) + 1
      <4>1. j \in DOMAIN found /\ found'[j] = found[j]
        BY <2>2, <2>3, <2>5, <3>4
      <4> QED
        BY <1>3, <3>1, <3>2, <4>1 DEF TextPages
    <3> QED
      BY <3>3, <3>4
  <2>9. ToSet(found') = ToSet(found) \union {page}
    BY <2>2, <2>3, <2>4, <2>5 DEF ToSet
  <2>10. ToSet(found') = {k \in 1..page : doc.pages[k] = "text"}
    BY <1>4, <1>6, <2>6, <2>9
  <2> QED
    BY <2>2, <2>8, <2>10 DEF TextPages
<1> QED
  BY <1>5, <1>6

(* The steps of the worker. *)
LEMMA WorkerPreserves == ASSUME IInv, WorkerStep PROVE IInv'
<1>1. doc.pages \in Seq(PageKinds) /\ Len(doc.pages) \in Nat
  BY DocPages DEF IInv
<1>2. page \in 1..(Len(doc.pages) + 1) /\ page \in Nat
  BY <1>1 DEF IInv, TypeOK
<1>3. DOMAIN doc.pages = 1..Len(doc.pages)
  BY <1>1
<1>4. Result("malformed", <<>>).kind = "malformed" /\ Result("canceled", <<>>).kind = "canceled"
  BY DEF Result
<1>5. CASE Open
  <2>1. CASE doc.open = "ok" /\ worker' = "paging" /\ UNCHANGED made
    <3>1. UNCHANGED <<doc, page, found, ch, canceled, fired>> /\ UNCHANGED mainVars
      BY <1>5 DEF Open
    <3>2. TypeOK' /\ Limits'
      BY <2>1, <3>1 DEF IInv, TypeOK, Limits, mainVars
    <3>3. Collected'
      BY <2>1, <3>1 DEF IInv, Collected, TextPages
    <3>4. Justified'
      BY <2>1, <3>1 DEF IInv, Justified, Just, Readable, TextPages, mainVars
    <3> QED
      BY <3>2, <3>3, <3>4 DEF IInv
  <2>2. CASE doc.open \in {"error", "panic"} /\ Finish(Result("malformed", <<>>))
    <3>1. Just(Result("malformed", <<>>))
      BY <1>4, <2>2 DEF Just, Readable
    <3> QED
      BY <1>5, <2>2, <3>1, FinishPreserves, NoneIsResult DEF Open, Finish
  <2> QED
    BY <1>5, <2>1, <2>2 DEF Open
<1>6. CASE PagePanics
  <2>1. Just(Result("malformed", <<>>))
    BY <1>2, <1>3, <1>4, <1>6 DEF PagePanics, Just, Readable
  <2> QED
    BY <1>6, <2>1, FinishPreserves, NoneIsResult DEF PagePanics, Finish
<1>7. CASE PageLoopCanceled
  <2>1. Just(Result("canceled", <<>>))
    BY <1>4, <1>7 DEF PageLoopCanceled, Just
  <2> QED
    BY <1>7, <2>1, FinishPreserves, NoneIsResult DEF PageLoopCanceled, Finish
<1>8. CASE ReadPage
  <2>1. found' \in Seq(Nat) /\ TextPages(found', page)
    BY <1>8, PageCollected
  <2>2. page' = page + 1 /\ page <= Len(doc.pages) /\ doc.pages[page] \notin {"panic", "hang"}
    BY <1>8 DEF ReadPage
  <2>3. UNCHANGED <<doc, worker, made, ch, canceled, fired>> /\ UNCHANGED mainVars
    BY <1>8 DEF ReadPage
  <2>4. TypeOK'
    BY <1>1, <1>2, <2>1, <2>2, <2>3 DEF IInv, TypeOK, mainVars
  <2>5. Collected'
    <3>1. page' - 1 = page /\ 1..page = 1..(page - 1) \union {page}
      BY <1>2, <2>2
    <3>2. TextPages(found, page - 1)'
      BY <2>1, <2>3, <3>1 DEF TextPages
    <3> QED
      BY <2>2, <2>3, <3>1, <3>2 DEF IInv, Collected
  <2>6. Justified'
    BY <2>3 DEF IInv, Justified, Just, Readable, TextPages, mainVars
  <2>7. Limits'
    BY <2>3 DEF IInv, Limits, mainVars
  <2> QED
    BY <2>4, <2>5, <2>6, <2>7 DEF IInv
<1>9. CASE LastPageRead
  <2>1. page - 1 = Len(doc.pages)
    BY <1>1, <1>2, <1>9 DEF LastPageRead
  <2>2. Result("pages", found) \in Results
    BY DEF IInv, TypeOK, Result, Results
  <2>3. Just(Result("pages", found))
    BY <1>3, <1>9, <2>1 DEF LastPageRead, IInv, Collected, Just, Result, Readable
  <2> QED
    BY <1>9, <2>2, <2>3, FinishPreserves DEF LastPageRead, Finish
<1>10. CASE Send
  <2>1. ch' = <<made>> /\ worker' = "gone" /\ made \in Results
    BY <1>10 DEF Send, IInv, TypeOK
  <2>2. ch' \in Seq(Results) /\ Len(ch') = 1 /\ DOMAIN ch' = {1} /\ ch'[1] = made
    BY <2>1
  <2>3. UNCHANGED <<doc, page, found, made, canceled, fired>> /\ UNCHANGED mainVars
    BY <1>10 DEF Send
  <2>4. TypeOK' /\ Limits'
    BY <2>1, <2>2, <2>3 DEF IInv, TypeOK, Limits, mainVars
  <2>5. Collected'
    BY <2>1, <2>3 DEF IInv, Collected, TextPages
  <2>6. Justified'
    BY <2>2, <2>3 DEF IInv, Justified, Just, Readable, TextPages, mainVars
  <2> QED
    BY <2>4, <2>5, <2>6 DEF IInv
<1> QED
  BY <1>5, <1>6, <1>7, <1>8, <1>9, <1>10 DEF WorkerStep

(* The steps of the timer, the context and time. *)
LEMMA EnvironmentPreserves ==
  ASSUME IInv, Cancel \/ FireTimer \/ UNCHANGED vars
  PROVE  IInv'
<1>1. UNCHANGED <<doc, worker, page, found, made, ch>> /\ UNCHANGED mainVars
      /\ (canceled => canceled') /\ (fired => fired')
      /\ canceled' \in BOOLEAN /\ fired' \in BOOLEAN
  BY DEF IInv, TypeOK, Cancel, FireTimer, vars, mainVars
<1>2. TypeOK'
  BY <1>1 DEF IInv, TypeOK, mainVars
<1>3. Collected'
  BY <1>1 DEF IInv, Collected, TextPages
<1>4. Justified'
  BY <1>1 DEF IInv, Justified, Just, Readable, TextPages, mainVars
<1>5. Limits'
  BY <1>1 DEF IInv, Limits, mainVars
<1> QED
  BY <1>2, <1>3, <1>4, <1>5 DEF IInv

(* It holds throughout. *)
LEMMA Invariance == Spec => []IInv
<1>1. IInv /\ [Next]_vars => IInv'
  BY MainPreserves, WorkerPreserves, EnvironmentPreserves DEF Next, Terminated
<1> QED
  BY <1>1, InitIInv, PTL DEF Spec

(* Every variable of a call keeps its type. *)
THEOREM TypeCorrect == Spec => []TypeOK
<1>1. IInv => TypeOK
  BY DEF IInv
<1> QED
  BY <1>1, Invariance, PTL

(* Pages returns all the text of a document or none of it, however the parser panics or
   hangs and the call is canceled. *)
THEOREM PagesNeverPartial == Spec => []PagesComplete
<1>1. IInv => PagesComplete
  BY DEF IInv, Justified, Just, PagesComplete
<1> QED
  BY <1>1, Invariance, PTL

(* No result beats a limit the select had reached, and no error lacks its cause. *)
THEOREM OutcomesHaveCauses == Spec => []OutcomeHasCause
<1>1. IInv => OutcomeHasCause
  BY DEF IInv, Justified, Just, Limits, TypeOK, OutcomeHasCause
<1> QED
  BY <1>1, Invariance, PTL
===============================================================================
