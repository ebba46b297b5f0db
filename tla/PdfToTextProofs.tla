--------------------------- MODULE PdfToTextProofs ---------------------------
(* Proofs about PdfToText for every cap, every child and every interleaving of the caller,
   the child, the copying, the deadline and a cancellation. *)
EXTENDS PdfToText, FiniteSetTheorems, TLAPS

Output == Seq({"x", "F"})

Places == {"lookpath", "start", "wait", "checkCap", "checkCaller", "checkOwn", "checkRun", "returned"}

Types ==
  /\ pc \in Places
  /\ child \in {"none", "running", "exited", "failed", "killed"}
  /\ copying \in BOOLEAN /\ exceeded \in BOOLEAN
  /\ written \in Output /\ buf \in Output /\ pipe \in Seq(Writes)

(* The writes todo are what follows the first bytes of the output, as many as from: the
   i-th of them ends at cut[i]. *)
Cuts(cut, todo, out, from) ==
  /\ cut \in [0..Len(todo) -> 0..Len(out)]
  /\ cut[0] = from /\ cut[Len(todo)] = Len(out)
  /\ \A i \in 1..Len(todo) :
       /\ cut[i] = cut[i - 1] + Len(todo[i])
       /\ \A j \in 1..Len(todo[i]) : todo[i][j] = out[cut[i - 1] + j]

Flow ==
  /\ Len(buf) <= Len(written) /\ Len(buf) <= MaxOutput
  /\ \A j \in 1..Len(buf) : buf[j] = written[j]
  /\ copying => \E cut : Cuts(cut, pipe, written, Len(buf))
  /\ ~copying => pipe = <<>>
  /\ exceeded => Len(written) > MaxOutput
  /\ ~copying /\ ~exceeded => Len(buf) = Len(written)

(* Where the caller is says what the child and the copying have come to. *)
Stages ==
  /\ child = "none" => ~exceeded /\ ~copying /\ Len(written) = 0
  /\ pc \in {"lookpath", "start"} => child = "none"
  /\ copying => pc = "wait" /\ child # "none" /\ ~exceeded
  /\ child = "running" => pc = "wait" /\ (copying \/ exceeded)
  /\ pc = "wait" => child # "none"
  /\ pc \in {"checkCaller", "checkOwn", "checkRun"} => ~exceeded
  /\ pc \in {"checkCap", "checkCaller", "checkOwn", "checkRun"} /\ runErr = "none" => child = "exited"
  /\ pc # "returned" => outcome = "none"
  /\ pc = "returned" /\ exceeded => outcome = "toolarge"
  /\ outcome = "toolarge" => exceeded
  /\ outcome = "pages" => child = "exited" /\ ~exceeded

IInv == Types /\ Flow /\ Stages

(* Lengths are numbers. *)
LEMMA Lengths ==
  ASSUME Types
  PROVE  Len(buf) \in Nat /\ Len(written) \in Nat /\ Len(pipe) \in Nat /\ MaxOutput \in Nat
  BY WritesAssumption DEF Types, Output

(* A write goes behind what is in the pipe. *)
LEMMA WriteCuts ==
  ASSUME NEW out \in Output, NEW todo \in Seq(Writes), NEW from, NEW w \in Writes,
         NEW cut, Cuts(cut, todo, out, from)
  PROVE  \E new : Cuts(new, Append(todo, w), out \o w, from)
<1> DEFINE n == Len(todo)
           m == Len(out)
           new == [i \in 0..(n + 1) |-> IF i <= n THEN cut[i] ELSE m + Len(w)]
<1>1. w \in Output /\ Len(w) \in Nat
  BY WritesAssumption DEF Output
<1>2. n \in Nat /\ m \in Nat
  BY DEF Output
<1>3. Len(out \o w) = m + Len(w) /\ \A k \in 1..m : (out \o w)[k] = out[k]
  BY <1>1 DEF Output
<1>4. \A k \in 1..Len(w) : (out \o w)[m + k] = w[k]
  BY <1>1, <1>2 DEF Output
<1>5. /\ Len(Append(todo, w)) = n + 1 /\ Append(todo, w)[n + 1] = w
      /\ \A i \in 1..n : Append(todo, w)[i] = todo[i]
  OBVIOUS
<1>6. cut \in [0..n -> 0..m] /\ cut[0] = from /\ cut[n] = m
  BY DEF Cuts
<1>7. new \in [0..(n + 1) -> 0..(m + Len(w))]
  BY <1>1, <1>2, <1>6
<1>8. new[0] = from /\ new[n + 1] = m + Len(w) /\ \A i \in 0..n : new[i] = cut[i]
  BY <1>2, <1>6
<1> HIDE DEF n, m, new
<1>9. ASSUME NEW i \in 1..(n + 1)
      PROVE  /\ new[i] = new[i - 1] + Len(Append(todo, w)[i])
             /\ \A j \in 1..Len(Append(todo, w)[i]) :
                  Append(todo, w)[i][j] = (out \o w)[new[i - 1] + j]
  <2>1. CASE i = n + 1
    <3>1. n \in 0..n /\ i - 1 = n
      BY <2>1, <1>2
    <3>2. new[i - 1] = m /\ new[i] = m + Len(w) /\ Append(todo, w)[i] = w
      BY <2>1, <3>1, <1>5, <1>6, <1>8
    <3> QED
      BY <3>2, <1>4
  <2>2. CASE i \in 1..n
    <3>1. i \in 0..n /\ i - 1 \in 0..n
      BY <2>2, <1>2
    <3>2. new[i] = cut[i] /\ new[i - 1] = cut[i - 1] /\ Append(todo, w)[i] = todo[i]
      BY <2>2, <3>1, <1>5, <1>8
    <3>3. /\ cut[i] = cut[i - 1] + Len(todo[i])
          /\ \A j \in 1..Len(todo[i]) : todo[i][j] = out[cut[i - 1] + j]
      BY <2>2 DEF Cuts, n
    <3>4. cut[i] \in 0..m /\ cut[i - 1] \in 0..m
      BY <3>1, <1>6
    <3>5. todo[i] \in Writes
      BY <2>2 DEF n
    <3>6. Len(todo[i]) \in Nat
      BY <3>5, WritesAssumption
    <3>7. \A j \in 1..Len(todo[i]) : cut[i - 1] + j \in 1..m
      BY <3>3, <3>4, <3>6, <1>2
    <3> QED
      BY <3>2, <3>3, <3>7, <1>3
  <2>3. i = n + 1 \/ i \in 1..n
    BY <1>2
  <2> QED
    BY <2>1, <2>2, <2>3
<1>10. Cuts(new, Append(todo, w), out \o w, from)
  BY <1>3, <1>5, <1>7, <1>8, <1>9 DEF Cuts
<1> QED
  BY <1>10

(* The first write in the pipe is the output behind what was copied. *)
LEMMA HeadFits ==
  ASSUME NEW out \in Output, NEW todo \in Seq(Writes), NEW from \in Nat, todo # <<>>,
         NEW cut, Cuts(cut, todo, out, from)
  PROVE  /\ Head(todo) \in Output /\ Len(Head(todo)) \in Nat \ {0} /\ Len(todo) \in Nat \ {0}
         /\ cut[1] = from + Len(Head(todo)) /\ cut[1] <= Len(out)
         /\ \A j \in 1..Len(Head(todo)) : Head(todo)[j] = out[from + j]
<1>1. Len(todo) \in Nat \ {0} /\ Head(todo) = todo[1] /\ Head(todo) \in Writes
  OBVIOUS
<1>2. Head(todo) \in Output /\ Head(todo) # <<>>
  BY <1>1, WritesAssumption DEF Output
<1>3. Len(Head(todo)) \in Nat \ {0}
  BY <1>2 DEF Output
<1>4. 1 \in 1..Len(todo) /\ 1 \in 0..Len(todo) /\ 1 - 1 = 0
  BY <1>1
<1>5. cut[1] = from + Len(todo[1]) /\ \A j \in 1..Len(todo[1]) : todo[1][j] = out[from + j]
  BY <1>4 DEF Cuts
<1>6. Len(out) \in Nat
  BY DEF Output
<1>7. cut \in [0..Len(todo) -> 0..Len(out)]
  BY DEF Cuts
<1>8. cut[1] \in 0..Len(out)
  BY <1>4, <1>7
<1>9. cut[1] <= Len(out)
  BY <1>6, <1>8
<1> QED
  BY <1>1, <1>2, <1>3, <1>5, <1>9

(* A write copied leaves the pipe, and the others follow it. *)
LEMMA CopyCuts ==
  ASSUME NEW out \in Output, NEW todo \in Seq(Writes), NEW from \in Nat, todo # <<>>,
         NEW cut, Cuts(cut, todo, out, from)
  PROVE  \E new : Cuts(new, Tail(todo), out, from + Len(Head(todo)))
<1> DEFINE n == Len(todo)
           new == [i \in 0..(n - 1) |-> cut[i + 1]]
<1>1. n \in Nat \ {0} /\ cut[1] = from + Len(Head(todo))
  BY HeadFits
<1>2. Len(Tail(todo)) = n - 1 /\ \A i \in 1..(n - 1) : Tail(todo)[i] = todo[i + 1]
  BY <1>1
<1>3. cut \in [0..n -> 0..Len(out)] /\ cut[n] = Len(out)
  BY DEF Cuts
<1>4. /\ new \in [0..(n - 1) -> 0..Len(out)]
      /\ new[0] = from + Len(Head(todo)) /\ new[n - 1] = Len(out)
  BY <1>1, <1>3
<1> HIDE DEF n, new
<1>5. ASSUME NEW i \in 1..(n - 1)
      PROVE  /\ new[i] = new[i - 1] + Len(Tail(todo)[i])
             /\ \A j \in 1..Len(Tail(todo)[i]) : Tail(todo)[i][j] = out[new[i - 1] + j]
  <2>1. i + 1 \in 1..n /\ (i + 1) - 1 = i /\ i - 1 \in 0..(n - 1) /\ i \in 0..(n - 1) /\ (i - 1) + 1 = i
    BY <1>1
  <2>2. /\ cut[i + 1] = cut[i] + Len(todo[i + 1])
        /\ \A j \in 1..Len(todo[i + 1]) : todo[i + 1][j] = out[cut[i] + j]
    BY <2>1 DEF Cuts, n
  <2>3. new[i] = cut[i + 1] /\ new[i - 1] = cut[i]
    BY <2>1 DEF new
  <2> QED
    BY <2>2, <2>3, <1>2
<1>6. Cuts(new, Tail(todo), out, from + Len(Head(todo)))
  BY <1>2, <1>4, <1>5 DEF Cuts
<1> QED
  BY <1>6

-------------------------------------------------------------------------------
(* A call begins with nothing written. *)
LEMMA InitIInv == Init => IInv
<1> SUFFICES ASSUME Init PROVE IInv
  OBVIOUS
<1>1. <<>> \in Output /\ <<>> \in Seq(Writes) /\ Len(<<>>) = 0
  BY DEF Output
<1>2. Types /\ Stages
  BY <1>1 DEF Init, Types, Stages, Places
<1>3. Flow
  BY <1>1, WritesAssumption DEF Init, Flow
<1> QED
  BY <1>2, <1>3 DEF IInv

(* Steps that leave the bytes alone. *)
LEMMA FlowStays == ASSUME Flow, UNCHANGED written, UNCHANGED copyVars PROVE Flow'
  BY DEF Flow, copyVars

(* A child starts with an empty pipe. *)
LEMMA StartFlows == ASSUME IInv, StartChild PROVE Flow'
<1>1. CASE UNCHANGED copying
  BY <1>1, FlowStays DEF IInv, StartChild, copyVars
<1>2. CASE copying' = TRUE
  <2> DEFINE cut == [i \in 0..0 |-> 0]
  <2>1. child = "none" /\ ~exceeded /\ ~copying /\ Len(written) = 0
    BY DEF IInv, Stages, StartChild
  <2>2. Len(buf) = 0 /\ pipe = <<>> /\ Len(pipe) = 0
    BY <2>1 DEF IInv, Flow
  <2>3. \A i \in 1..0 : FALSE
    OBVIOUS
  <2>4. cut \in [0..0 -> 0..0] /\ cut[0] = 0
    OBVIOUS
  <2> HIDE DEF cut
  <2>5. Cuts(cut, pipe, written, Len(buf))
    BY <2>1, <2>2, <2>3, <2>4 DEF Cuts
  <2>6. UNCHANGED <<pipe, written, buf, exceeded>>
    BY DEF StartChild
  <2> QED
    BY <1>2, <2>1, <2>5, <2>6 DEF IInv, Flow
<1> QED
  BY <1>1, <1>2 DEF StartChild

(* What the child writes goes behind what is in the pipe. *)
LEMMA WriteFlows ==
  ASSUME IInv, NEW w \in Writes, ChildWrite(w)
  PROVE  Flow' /\ written' \in Output /\ pipe' \in Seq(Writes)
<1>1. w \in Output /\ written \in Output /\ pipe \in Seq(Writes) /\ buf \in Output
  BY WritesAssumption DEF IInv, Types, Output
<1>2. /\ written' = written \o w /\ pipe' = IF copying THEN Append(pipe, w) ELSE pipe
      /\ UNCHANGED <<buf, exceeded, copying>> /\ child = "running"
  BY DEF ChildWrite
<1>3. written' \in Output /\ pipe' \in Seq(Writes)
  BY <1>1, <1>2 DEF Output
<1>4. Len(w) \in Nat /\ Len(written) \in Nat /\ Len(buf) \in Nat
  BY <1>1 DEF Output
<1>5. Len(written') = Len(written) + Len(w) /\ \A j \in 1..Len(written) : written'[j] = written[j]
  BY <1>1, <1>2 DEF Output
<1>6. /\ Len(buf) <= Len(written') /\ Len(buf) <= MaxOutput
      /\ \A j \in 1..Len(buf) : buf[j] = written'[j]
  BY <1>4, <1>5 DEF IInv, Flow
<1>7. ASSUME copying PROVE \E cut : Cuts(cut, pipe', written', Len(buf))
  BY <1>1, <1>2, <1>7, WriteCuts DEF IInv, Flow
<1>8. exceeded => Len(written') > MaxOutput
  BY <1>4, <1>5, WritesAssumption DEF IInv, Flow
<1>9. copying \/ exceeded
  BY <1>2 DEF IInv, Stages
<1> QED
  BY <1>2, <1>3, <1>6, <1>7, <1>8, <1>9 DEF IInv, Flow

(* What is copied is the next part of the output, or passes the cap. *)
LEMMA CopyFlows == ASSUME IInv, CopyOut PROVE Flow' /\ buf' \in Output /\ pipe' \in Seq(Writes)
<1>1. written \in Output /\ pipe \in Seq(Writes) /\ buf \in Output /\ pipe # <<>> /\ copying
  BY DEF IInv, Types, CopyOut
<1>2. Len(buf) \in Nat /\ Len(written) \in Nat /\ MaxOutput \in Nat
  BY Lengths DEF IInv
<1>3. PICK cut : Cuts(cut, pipe, written, Len(buf))
  BY <1>1 DEF IInv, Flow
<1>4. /\ Head(pipe) \in Output /\ Len(Head(pipe)) \in Nat /\ Len(buf) + Len(Head(pipe)) <= Len(written)
      /\ \A j \in 1..Len(Head(pipe)) : Head(pipe)[j] = written[Len(buf) + j]
  BY <1>1, <1>2, <1>3, HeadFits
<1>5. written' = written
  BY DEF CopyOut, childVars
<1>6. \/ /\ Len(buf) + Len(Head(pipe)) > MaxOutput
         /\ exceeded' = TRUE /\ copying' = FALSE /\ pipe' = <<>> /\ buf' = buf
      \/ /\ Len(buf) + Len(Head(pipe)) <= MaxOutput
         /\ buf' = buf \o Head(pipe) /\ pipe' = Tail(pipe)
         /\ exceeded' = exceeded /\ copying' = copying
  BY Zenon DEF CopyOut
<1>7. CASE /\ Len(buf) + Len(Head(pipe)) > MaxOutput
           /\ exceeded' = TRUE /\ copying' = FALSE /\ pipe' = <<>> /\ buf' = buf
  <2>1. exceeded' = TRUE /\ copying' = FALSE /\ pipe' = <<>> /\ UNCHANGED <<buf, written>>
    BY <1>7, <1>5
  <2>2. pipe' \in Seq(Writes)
    BY <2>1
  <2>3. Len(written) > MaxOutput
    BY <1>2, <1>4, <1>7
  <2> QED
    BY <1>1, <2>1, <2>2, <2>3 DEF IInv, Flow
<1>8. CASE /\ Len(buf) + Len(Head(pipe)) <= MaxOutput
           /\ buf' = buf \o Head(pipe) /\ pipe' = Tail(pipe)
           /\ exceeded' = exceeded /\ copying' = copying
  <2>1. buf' = buf \o Head(pipe) /\ pipe' = Tail(pipe) /\ UNCHANGED <<exceeded, copying, written>>
    BY <1>8, <1>5
  <2>2. buf' \in Output /\ pipe' \in Seq(Writes) /\ Len(buf') = Len(buf) + Len(Head(pipe))
    BY <1>1, <1>4, <2>1 DEF Output
  <2>3. ASSUME NEW j \in 1..Len(buf') PROVE buf'[j] = written[j]
    <3>1. CASE j <= Len(buf)
      <4>1. j \in 1..Len(buf)
        BY <3>1, <1>2, <1>4, <2>2
      <4>2. buf \in Seq({"x", "F"}) /\ Head(pipe) \in Seq({"x", "F"})
        BY <1>1, <1>4 DEF Output
      <4>3. (buf \o Head(pipe))[j] = buf[j]
        BY <4>1, <4>2
      <4> QED
        BY <4>1, <4>3, <2>1 DEF IInv, Flow
    <3>2. CASE j > Len(buf)
      <4>1. j - Len(buf) \in 1..Len(Head(pipe)) /\ Len(buf) + (j - Len(buf)) = j
        BY <3>2, <1>2, <1>4, <2>2
      <4>2. (buf \o Head(pipe))[j] = Head(pipe)[j - Len(buf)]
        <5>1. buf \in Seq({"x", "F"}) /\ Head(pipe) \in Seq({"x", "F"})
          BY <1>1, <1>4 DEF Output
        <5>2. j \in 1..(Len(buf) + Len(Head(pipe))) /\ j \notin 1..Len(buf)
          BY <3>2, <1>2, <2>2
        <5> QED
          BY <5>1, <5>2
      <4> QED
        BY <4>1, <4>2, <1>4, <2>1
    <3> QED
      BY <3>1, <3>2, <1>2, <2>2
  <2>4. \E new : Cuts(new, pipe', written, Len(buf'))
    BY <1>1, <1>2, <1>3, <2>1, <2>2, CopyCuts
  <2>5. ~exceeded
    BY <1>1 DEF IInv, Stages
  <2> QED
    BY <1>1, <1>4, <1>8, <2>1, <2>2, <2>3, <2>4, <2>5 DEF Flow
<1> QED
  BY <1>7, <1>8, <1>6

(* At the end of the pipe all of the output was copied. *)
LEMMA EndFlows == ASSUME IInv, CopyEnds PROVE Flow'
<1>1. pipe = <<>> /\ copying /\ copying' = FALSE /\ UNCHANGED <<pipe, buf, exceeded, written>>
  BY DEF CopyEnds, childVars
<1>2. PICK cut : Cuts(cut, pipe, written, Len(buf))
  BY <1>1 DEF IInv, Flow
<1>3. Len(pipe) = 0
  BY <1>1
<1>4. Len(buf) = Len(written)
  BY <1>2, <1>3 DEF Cuts
<1> QED
  BY <1>1, <1>4 DEF IInv, Flow

(* The caller's steps: each check leaves out one of the causes. *)
LEMMA CallerPreserves == ASSUME IInv, CallerStep PROVE IInv'
<1> USE DEF childVars, copyVars, resultVars
<1>1. CASE LookPath
  BY <1>1, FlowStays DEF IInv, LookPath, Return, Types, Stages, Places
<1>2. CASE StartChild
  <2>1. /\ pc = "start" /\ child = "none" /\ ~copying /\ ~exceeded /\ outcome = "none"
        /\ UNCHANGED <<written, pipe, buf, exceeded, outcome>>
    BY <1>2 DEF IInv, StartChild, Stages
  <2>2. \/ runErr' \in {"context", "exec"} /\ pc' = "checkCap" /\ child' = child /\ copying' = copying
        \/ pc' = "wait" /\ child' = "running" /\ copying' = TRUE
    BY <1>2 DEF StartChild
  <2>3. Types'
    BY <2>1, <2>2 DEF IInv, Types, Places
  <2>4. Stages'
    BY <2>1, <2>2 DEF IInv, Stages
  <2> QED
    BY <1>2, <2>3, <2>4, StartFlows DEF IInv
<1>3. CASE RunReturns
  <2>1. child \in {"exited", "failed", "killed"} /\ ~copying /\ pc = "wait" /\ pc' = "checkCap"
    BY <1>3 DEF IInv, RunReturns, Types, Stages
  <2>2. runErr' = "none" => child = "exited"
    BY <1>3, <2>1 DEF RunReturns, RunErrors
  <2>3. Types' /\ Stages'
    BY <1>3, <2>1, <2>2 DEF IInv, RunReturns, Types, Stages, Places
  <2> QED
    BY <1>3, <2>3, FlowStays DEF IInv, RunReturns
<1>4. CASE CheckCap
  BY <1>4, FlowStays DEF IInv, CheckCap, Return, Types, Stages, Places
<1>5. CASE CheckCaller
  BY <1>5, FlowStays DEF IInv, CheckCaller, Return, Types, Stages, Places
<1>6. CASE CheckOwn
  BY <1>6, FlowStays DEF IInv, CheckOwn, Return, Types, Stages, Places
<1>7. CASE CheckRun
  BY <1>7, FlowStays DEF IInv, CheckRun, Return, Types, Stages, Places
<1> QED
  BY <1>1, <1>2, <1>3, <1>4, <1>5, <1>6, <1>7 DEF CallerStep

(* The steps of the child and of the copying. *)
LEMMA OutputPreserves ==
  ASSUME IInv, CopyStep \/ KillChild \/ ChildStep
  PROVE  IInv'
<1> USE DEF childVars, copyVars, resultVars
<1>1. CASE CopyOut
  <2>1. /\ copying /\ pc' = pc /\ child' = child /\ written' = written
        /\ runErr' = runErr /\ outcome' = outcome
    BY <1>1 DEF CopyOut
  <2>2. \/ exceeded' = TRUE /\ copying' = FALSE
        \/ exceeded' = exceeded /\ copying' = copying
    BY <1>1, Zenon DEF CopyOut
  <2>3. Types'
    BY <1>1, <2>1, <2>2, CopyFlows DEF IInv, Types
  <2>4. pc = "wait" /\ child # "none" /\ outcome = "none"
    BY <2>1 DEF IInv, Stages
  <2>5. CASE exceeded' = TRUE /\ copying' = FALSE
    <3>1. Stages'
      BY <2>1, <2>4, <2>5 DEF Stages
    <3> QED
      BY <1>1, <2>3, <3>1, CopyFlows DEF IInv
  <2>6. CASE exceeded' = exceeded /\ copying' = copying
    <3>1. Stages'
      BY <2>1, <2>6 DEF IInv, Stages
    <3> QED
      BY <1>1, <2>3, <3>1, CopyFlows DEF IInv
  <2> QED
    BY <2>2, <2>5, <2>6
<1>2. CASE CopyEnds
  <2>1. Types' /\ Stages'
    BY <1>2 DEF IInv, CopyEnds, Types, Stages
  <2> QED
    BY <1>2, <2>1, EndFlows DEF IInv
<1>3. CASE KillChild
  BY <1>3, FlowStays DEF IInv, KillChild, Types, Stages
<1>4. ASSUME NEW w \in Writes, ChildWrite(w) PROVE IInv'
  <2>1. /\ child = "running" /\ UNCHANGED <<pc, child, buf, exceeded, copying, runErr, outcome>>
    BY <1>4 DEF ChildWrite
  <2>2. Types' /\ Stages'
    BY <1>4, <2>1, WriteFlows DEF IInv, Types, Stages
  <2> QED
    BY <1>4, <2>2, WriteFlows DEF IInv
<1>5. ASSUME NEW status \in {"exited", "failed"}, ChildExit(status) PROVE IInv'
  BY <1>5, FlowStays DEF IInv, ChildExit, Types, Stages
<1> QED
  BY <1>1, <1>2, <1>3, <1>4, <1>5 DEF CopyStep, ChildStep

(* A cancellation or the deadline touches contexts only. *)
LEMMA ContextPreserves ==
  ASSUME IInv, CancelCaller \/ Expire \/ UNCHANGED vars
  PROVE  IInv'
<1>1. UNCHANGED <<pc, child, written, pipe, buf, exceeded, copying, runErr, outcome>>
  BY DEF CancelCaller, Expire, vars, childVars, copyVars, resultVars
<1> QED
  BY <1>1, FlowStays DEF IInv, Types, Stages, copyVars

(* The invariant holds throughout. *)
LEMMA Invariance == Spec => []IInv
<1>1. IInv /\ [Next]_vars => IInv'
  BY CallerPreserves, OutputPreserves, ContextPreserves DEF Next, Terminated
<1> QED
  BY <1>1, InitIInv, PTL DEF Spec

(* Whatever is killed, canceled or cut off, pages are returned only for the whole output
   of a child that ended with success, and no more than the cap is ever kept of it. *)
THEOREM OutputNeverCut == Spec => []OutputWholeAndBounded
<1>1. ASSUME IInv PROVE OutputWholeAndBounded
  <2>1. Len(buf) <= MaxOutput
    BY <1>1 DEF IInv, Flow
  <2>2. ASSUME outcome = "pages" PROVE child = "exited" /\ buf = written
    <3>1. child = "exited" /\ ~exceeded /\ ~copying
      BY <1>1, <2>2 DEF IInv, Stages
    <3>2. Len(buf) = Len(written) /\ \A j \in 1..Len(buf) : buf[j] = written[j]
      BY <1>1, <3>1 DEF IInv, Flow
    <3>3. buf \in Seq({"x", "F"}) /\ written \in Seq({"x", "F"})
      BY <1>1 DEF IInv, Types, Output
    <3> QED
      BY <3>1, <3>2, <3>3
  <2> QED
    BY <2>1, <2>2 DEF OutputWholeAndBounded
<1> QED
  BY <1>1, Invariance, PTL

(* The cancellation the cap itself causes is reported as the cap, and only output past
   the cap is. *)
THEOREM CapNeverMistaken == Spec => []CapReportedAsCap
<1>1. IInv => CapReportedAsCap
  BY DEF IInv, Flow, Stages, CapReportedAsCap
<1> QED
  BY <1>1, Invariance, PTL

-------------------------------------------------------------------------------
(* The pages between the form feeds. *)

(* How many of E are at or before e. *)
Rank(E, e) == Cardinality({x \in E : x <= e})

(* The ranks of a finite set of places are 1, 2, ... without a gap, so each of them
   names one member, and larger members have larger ranks. *)
LEMMA Ranks ==
  ASSUME NEW n \in Nat, NEW E \in SUBSET (1..n)
  PROVE  /\ IsFiniteSet(E) /\ Cardinality(E) \in Nat
         /\ \A e \in E : Rank(E, e) \in 1..Cardinality(E)
         /\ \A e, f \in E : e < f => Rank(E, e) < Rank(E, f)
         /\ \A k \in 1..Cardinality(E) : \E e \in E : Rank(E, e) = k
         /\ n \in E => Rank(E, n) = Cardinality(E)
<1> DEFINE UpTo(e) == {x \in E : x <= e}
<1>0. \A x \in E : x \in Nat /\ 1 <= x /\ x <= n
  OBVIOUS
<1>1. IsFiniteSet(E) /\ Cardinality(E) \in Nat
  <2>1. 1 \in Int /\ n \in Int
    OBVIOUS
  <2> QED
    BY <2>1, FS_Interval, FS_Subset, FS_CardinalityType
<1>2. ASSUME NEW e \in E
      PROVE  /\ IsFiniteSet(UpTo(e)) /\ Cardinality(UpTo(e)) \in Nat
             /\ Cardinality(UpTo(e)) <= Cardinality(E) /\ Cardinality(UpTo(e)) # 0
  <2>1. UpTo(e) \in SUBSET E /\ e \in UpTo(e)
    OBVIOUS
  <2>2. IsFiniteSet(UpTo(e)) /\ Cardinality(UpTo(e)) <= Cardinality(E)
    BY <1>1, <2>1, FS_Subset
  <2> HIDE DEF UpTo
  <2> QED
    BY <2>1, <2>2, FS_CardinalityType, FS_EmptySet
<1>3. \A e \in E : Rank(E, e) \in 1..Cardinality(E)
  BY <1>1, <1>2 DEF Rank
<1>4. ASSUME NEW e \in E, NEW f \in E, e < f PROVE Rank(E, e) < Rank(E, f)
  <2>1. UpTo(e) \in SUBSET UpTo(f) /\ f \in UpTo(f) /\ f \notin UpTo(e)
    <3>1. \A x \in E : x <= e => x <= f
      BY <1>0, <1>4
    <3>2. f <= f /\ ~(f <= e)
      BY <1>0, <1>4
    <3> QED
      BY <3>1, <3>2
  <2>2. Cardinality(UpTo(e)) <= Cardinality(UpTo(f)) /\ Cardinality(UpTo(f)) # Cardinality(UpTo(e))
    <3> HIDE DEF UpTo
    <3> QED
      BY <1>2, <2>1, FS_Subset
  <2> QED
    BY <1>2, <2>2 DEF Rank
<1> DEFINE rank == [e \in E |-> Rank(E, e)]
<1>5. rank \in Injection(E, 1..Cardinality(E))
  <2>1. ASSUME NEW e \in E, NEW f \in E, Rank(E, e) = Rank(E, f) PROVE e = f
    <3>1. ~(e < f) /\ ~(f < e)
      BY <1>1, <1>3, <1>4, <2>1
    <3> QED
      BY <3>1
  <2> QED
    BY <1>3, <2>1 DEF Injection, IsInjective
<1>6. rank \in Surjection(E, 1..Cardinality(E))
  <2>1. 1 \in Int /\ Cardinality(E) \in Int
    BY <1>1
  <2>2. /\ IsFiniteSet(1..Cardinality(E))
        /\ Cardinality(1..Cardinality(E)) =
             IF 1 > Cardinality(E) THEN 0 ELSE Cardinality(E) - 1 + 1
    BY <2>1, FS_Interval
  <2>3. Cardinality(1..Cardinality(E)) = Cardinality(E)
    BY <1>1, <2>2
  <2> HIDE DEF rank
  <2> QED
    BY <1>5, <2>2, <2>3, FS_Injection
<1>7. \A k \in 1..Cardinality(E) : \E e \in E : Rank(E, e) = k
  BY <1>6 DEF Surjection
<1>8. n \in E => Rank(E, n) = Cardinality(E)
  <2>1. {x \in E : x <= n} = E
    BY <1>0
  <2> QED
    BY <2>1 DEF Rank
<1> QED
  BY <1>1, <1>3, <1>4, <1>7, <1>8

(* Ranks grow, and grow past each member. *)
LEMMA RanksGrow ==
  ASSUME NEW n \in Nat, NEW E \in SUBSET (1..n), NEW k \in Nat, NEW m \in Nat
  PROVE  /\ Rank(E, k) \in 0..Cardinality(E)
         /\ k <= m => Rank(E, k) <= Rank(E, m)
         /\ k < m /\ m \in E => Rank(E, k) < Rank(E, m)
<1> DEFINE UpTo(x) == {e \in E : e <= x}
<1>0. \A x \in E : x \in Nat
  OBVIOUS
<1>1. IsFiniteSet(E) /\ Cardinality(E) \in Nat
  BY Ranks
<1>2. ASSUME NEW x \in Nat
      PROVE  /\ IsFiniteSet(UpTo(x)) /\ Cardinality(UpTo(x)) \in Nat
             /\ Cardinality(UpTo(x)) <= Cardinality(E) /\ Rank(E, x) = Cardinality(UpTo(x))
  <2>1. UpTo(x) \in SUBSET E /\ Rank(E, x) = Cardinality(UpTo(x))
    BY DEF Rank
  <2> HIDE DEF UpTo
  <2> QED
    BY <1>1, <2>1, FS_Subset, FS_CardinalityType
<1>3. Rank(E, k) \in 0..Cardinality(E)
  <2> HIDE DEF UpTo
  <2> QED
    BY <1>1, <1>2
<1>4. ASSUME k <= m PROVE Rank(E, k) <= Rank(E, m)
  <2>0. \A x \in E : x <= k => x <= m
    BY <1>0, <1>4
  <2>1. UpTo(k) \in SUBSET UpTo(m)
    BY <2>0
  <2> HIDE DEF UpTo
  <2> QED
    BY <1>2, <2>1, FS_Subset
<1>5. ASSUME k < m, m \in E PROVE Rank(E, k) < Rank(E, m)
  <2>0. (\A x \in E : x <= k => x <= m) /\ m <= m /\ ~(m <= k)
    BY <1>0, <1>5
  <2>1. UpTo(k) \in SUBSET UpTo(m) /\ m \in UpTo(m) /\ m \notin UpTo(k)
    BY <1>5, <2>0
  <2> HIDE DEF UpTo
  <2>2. Cardinality(UpTo(k)) <= Cardinality(UpTo(m)) /\ Cardinality(UpTo(k)) # Cardinality(UpTo(m))
    BY <1>2, <2>1, FS_Subset
  <2> QED
    BY <1>2, <2>2
<1> QED
  BY <1>3, <1>4, <1>5

Feeds(out) == {k \in DOMAIN out : out[k] = "F"}

Feed(out, p) == CHOOSE k \in Feeds(out) : Rank(Feeds(out), k) = p

BlockStart(out, p) == IF p = 1 THEN 1 ELSE Feed(out, p - 1) + 1

BlockEnd(out, p) == IF p = Cardinality(Feeds(out)) + 1 THEN Len(out) ELSE Feed(out, p) - 1

LastBlock(out) ==
  IF out # <<>> /\ Last(out) # "F" THEN Cardinality(Feeds(out)) + 1 ELSE Cardinality(Feeds(out))

(* What splitPages makes, in terms of where its blocks start and end. *)
LEMMA SplitBlocks ==
  ASSUME NEW out
  PROVE  splitPages(out) =
           [p \in 1..LastBlock(out) |->
              [number |-> p, text |-> SubSeq(out, BlockStart(out, p), BlockEnd(out, p))]]
  BY DEF splitPages, LastBlock, BlockStart, BlockEnd, Feed, Feeds, Rank

(* The feeds are bytes of the output, and each of their ranks names one. *)
LEMMA FeedFacts ==
  ASSUME NEW out \in Output
  PROVE  /\ Len(out) \in Nat /\ DOMAIN out = 1..Len(out) /\ Feeds(out) \in SUBSET (1..Len(out))
         /\ Cardinality(Feeds(out)) \in Nat
         /\ \A p \in 1..Cardinality(Feeds(out)) :
              /\ Feed(out, p) \in Feeds(out) /\ Feed(out, p) \in 1..Len(out) /\ Feed(out, p) \in Nat
              /\ Rank(Feeds(out), Feed(out, p)) = p
<1>1. Len(out) \in Nat /\ DOMAIN out = 1..Len(out)
  BY DEF Output
<1>2. Feeds(out) \in SUBSET (1..Len(out))
  BY <1>1 DEF Feeds
<1>3. /\ Cardinality(Feeds(out)) \in Nat
      /\ \A p \in 1..Cardinality(Feeds(out)) : \E k \in Feeds(out) : Rank(Feeds(out), k) = p
  BY <1>1, <1>2, Ranks
<1>4. \A p \in 1..Cardinality(Feeds(out)) : Feed(out, p) \in Feeds(out) /\ Rank(Feeds(out), Feed(out, p)) = p
  BY <1>3 DEF Feed
<1>5. \A k \in Feeds(out) : k \in 1..Len(out) /\ k \in Nat
  BY <1>1, <1>2
<1> QED
  BY <1>1, <1>2, <1>3, <1>4, <1>5

(* A block is where as many feeds are behind as there are blocks in front. *)
LEMMA BlockFacts ==
  ASSUME NEW out \in Output, NEW p \in 1..(Cardinality(Feeds(out)) + 1)
  PROVE  /\ BlockStart(out, p) \in 1..(Len(out) + 1) /\ BlockEnd(out, p) \in 0..Len(out)
         /\ BlockStart(out, p) <= BlockEnd(out, p) + 1
         /\ \A k \in 1..Len(out) :
              out[k] = "x" /\ Rank(Feeds(out), k) = p - 1 <=> k \in BlockStart(out, p)..BlockEnd(out, p)
<1> DEFINE E == Feeds(out)
           N == Cardinality(E)
           n == Len(out)
           a == BlockStart(out, p)
           b == BlockEnd(out, p)
<1>1. n \in Nat /\ N \in Nat /\ E \in SUBSET (1..n) /\ DOMAIN out = 1..n
  BY FeedFacts
<1>2. \A k \in 1..n : out[k] = "x" <=> k \notin E
  <2>1. \A k \in 1..n : out[k] \in {"x", "F"}
    BY DEF Output
  <2> QED
    BY <1>1, <2>1 DEF Feeds
<1>3. \A q \in 1..N : /\ Feed(out, q) \in E /\ Feed(out, q) \in 1..n /\ Feed(out, q) \in Nat
                       /\ Rank(E, Feed(out, q)) = q
  BY FeedFacts
<1>4. \A k, m \in Nat : /\ Rank(E, k) \in 0..N
                        /\ k <= m => Rank(E, k) <= Rank(E, m)
                        /\ k < m /\ m \in E => Rank(E, k) < Rank(E, m)
  BY <1>1, RanksGrow
<1>5. p \in 1..(N + 1) /\ p \in Nat
  BY <1>1
<1>6. /\ a \in 1..(n + 1) /\ a \in Nat
      /\ \A k \in 1..n : k < a /\ out[k] = "x" => Rank(E, k) < p - 1
      /\ \A k \in 1..n : a <= k => Rank(E, k) >= p - 1 /\ (k \in E => Rank(E, k) >= p)
  <2>1. CASE p = 1
    <3>1. a = 1
      BY <2>1 DEF BlockStart
    <3>2. \A k \in 1..n : k \in Nat /\ 0 \in Nat /\ 0 < k /\ ~(k < 1)
      BY <1>1
    <3>3. \A k \in 1..n : Rank(E, k) >= 0 /\ (k \in E => Rank(E, k) >= 1)
      <4>1. ASSUME NEW k \in 1..n PROVE Rank(E, k) >= 0 /\ (k \in E => Rank(E, k) >= 1)
        <5>1. Rank(E, k) \in 0..N /\ Rank(E, 0) \in 0..N /\ (k \in E => Rank(E, 0) < Rank(E, k))
          BY <1>4, <3>2
        <5> HIDE DEF E, N
        <5> QED
          BY <1>1, <5>1
      <4> QED
        BY <4>1
    <3> QED
      BY <1>1, <2>1, <3>1, <3>2, <3>3
  <2>2. CASE p # 1
    <3>1. p - 1 \in 1..N
      BY <1>1, <1>5, <2>2
    <3>2. PICK f : f = Feed(out, p - 1)
      OBVIOUS
    <3>3. f \in E /\ f \in 1..n /\ f \in Nat /\ Rank(E, f) = p - 1 /\ a = f + 1
      BY <1>3, <2>2, <3>1, <3>2 DEF BlockStart
    <3>4. ASSUME NEW k \in 1..n, k < a, out[k] = "x" PROVE Rank(E, k) < p - 1
      <4>1. k # f
        BY <1>2, <3>3, <3>4
      <4>2. k < f /\ k \in Nat
        BY <1>1, <3>3, <3>4, <4>1
      <4> QED
        BY <1>4, <3>3, <4>2
    <3>5. ASSUME NEW k \in 1..n, a <= k PROVE Rank(E, k) >= p - 1 /\ (k \in E => Rank(E, k) >= p)
      <4>1. f < k /\ f <= k /\ k \in Nat
        BY <1>1, <3>3, <3>5
      <4>2. Rank(E, f) <= Rank(E, k) /\ (k \in E => Rank(E, f) < Rank(E, k)) /\ Rank(E, k) \in 0..N
        BY <1>4, <3>3, <4>1
      <4> HIDE DEF E, N
      <4> QED
        BY <1>1, <1>5, <3>3, <4>2
    <3> QED
      BY <1>1, <3>3, <3>4, <3>5
  <2> QED
    BY <2>1, <2>2
<1>7. /\ b \in 0..n /\ b \in Nat
      /\ \A k \in 1..n : k <= b => Rank(E, k) <= p - 1
      /\ \A k \in 1..n : b < k => Rank(E, k) >= p
      /\ a <= b + 1
  <2>1. CASE p = N + 1
    <3>1. b = n
      BY <2>1 DEF BlockEnd
    <3>2. \A k \in 1..n : k \in Nat /\ ~(n < k)
      BY <1>1
    <3>3. \A k \in 1..n : Rank(E, k) <= p - 1
      <4>1. ASSUME NEW k \in 1..n PROVE Rank(E, k) <= p - 1
        <5>1. Rank(E, k) \in 0..N
          BY <1>4, <3>2
        <5> HIDE DEF E, N
        <5> QED
          BY <1>1, <2>1, <5>1
      <4> QED
        BY <4>1
    <3> QED
      BY <1>1, <1>6, <3>1, <3>2, <3>3
  <2>2. CASE p # N + 1
    <3>1. p \in 1..N
      BY <1>1, <1>5, <2>2
    <3>2. PICK f : f = Feed(out, p)
      OBVIOUS
    <3>3. f \in E /\ f \in 1..n /\ f \in Nat /\ Rank(E, f) = p /\ b = f - 1
      BY <1>3, <2>2, <3>1, <3>2 DEF BlockEnd
    <3>4. ASSUME NEW k \in 1..n, k <= b PROVE Rank(E, k) <= p - 1
      <4>1. k < f /\ k \in Nat
        BY <1>1, <3>3, <3>4
      <4>2. Rank(E, k) < Rank(E, f) /\ Rank(E, k) \in 0..N
        BY <1>4, <3>3, <4>1
      <4> HIDE DEF E, N
      <4> QED
        BY <1>1, <1>5, <3>3, <4>2
    <3>5. ASSUME NEW k \in 1..n, b < k PROVE Rank(E, k) >= p
      <4>1. f <= k /\ k \in Nat
        BY <1>1, <3>3, <3>5
      <4>2. Rank(E, f) <= Rank(E, k) /\ Rank(E, k) \in 0..N
        BY <1>4, <3>3, <4>1
      <4> HIDE DEF E, N
      <4> QED
        BY <1>1, <1>5, <3>3, <4>2
    <3>6. a <= f
      <4>1. CASE p = 1
        BY <3>3, <4>1 DEF BlockStart
      <4>2. CASE p # 1
        <5>1. p - 1 \in 1..N
          BY <1>1, <1>5, <4>2
        <5>2. PICK g : g = Feed(out, p - 1)
          OBVIOUS
        <5>3. g \in Nat /\ Rank(E, g) = p - 1 /\ a = g + 1
          BY <1>3, <4>2, <5>1, <5>2 DEF BlockStart
        <5>4. f <= g => Rank(E, f) <= Rank(E, g)
          BY <1>4, <3>3, <5>3
        <5>5. ~(p <= p - 1)
          BY <1>5
        <5>6. ~(f <= g)
          BY <3>3, <5>3, <5>4, <5>5
        <5> QED
          BY <3>3, <5>3, <5>6
      <4> QED
        BY <4>1, <4>2
    <3> QED
      BY <1>1, <3>3, <3>4, <3>5, <3>6
  <2> QED
    BY <2>1, <2>2
<1>8. ASSUME NEW k \in 1..n PROVE out[k] = "x" /\ Rank(E, k) = p - 1 <=> k \in a..b
  <2>1. k \in Nat /\ Rank(E, k) \in Nat /\ (k \notin E <=> out[k] = "x")
    <3>1. k \in Nat
      BY <1>1
    <3>2. Rank(E, k) \in 0..N
      BY <1>4, <3>1
    <3> HIDE DEF E, N
    <3> QED
      BY <1>1, <1>2, <3>1, <3>2
  <2>2. k < a /\ out[k] = "x" => Rank(E, k) < p - 1
    BY <1>6
  <2>3. a <= k => Rank(E, k) >= p - 1 /\ (k \in E => Rank(E, k) >= p)
    BY <1>6
  <2>4. (k <= b => Rank(E, k) <= p - 1) /\ (b < k => Rank(E, k) >= p)
    BY <1>7
  <2>5. a \in Nat /\ b \in Nat
    BY <1>6, <1>7
  <2> HIDE DEF a, b, E, N, n
  <2>6. k \in a..b <=> a <= k /\ k <= b
    BY <2>1, <2>5
  <2> QED
    BY <1>5, <2>1, <2>2, <2>3, <2>4, <2>5, <2>6
<1> QED
  BY <1>6, <1>7, <1>8

(* One page for each block of the output, its number the place of the block and its text
   the text bytes of the block, and a block for every text byte. *)
ByPlace(out, pgs) ==
  /\ DOMAIN pgs = 1..LastBlock(out) /\ LastBlock(out) \in Nat
  /\ \A p \in DOMAIN pgs :
       /\ pgs[p].number = p
       /\ ToSet(pgs[p].text) \subseteq {"x"}
       /\ Len(pgs[p].text) =
            Cardinality({k \in DOMAIN out : out[k] = "x" /\ Rank(Feeds(out), k) = p - 1})
  /\ \A k \in DOMAIN out : out[k] = "x" => Rank(Feeds(out), k) + 1 \in DOMAIN pgs

(* What splitPages makes of an output has every byte of text at its place. *)
LEMMA PagesByPlace == ASSUME NEW out \in Output PROVE ByPlace(out, splitPages(out))
<1> DEFINE pgs == splitPages(out)
           E == Feeds(out)
           N == Cardinality(E)
           n == Len(out)
<1>1. n \in Nat /\ N \in Nat /\ E \in SUBSET (1..n) /\ DOMAIN out = 1..n
  BY FeedFacts
<1>2. LastBlock(out) \in {N, N + 1} /\ LastBlock(out) \in Nat
  BY <1>1 DEF LastBlock
<1>3. pgs = [p \in 1..LastBlock(out) |->
               [number |-> p, text |-> SubSeq(out, BlockStart(out, p), BlockEnd(out, p))]]
  BY SplitBlocks
<1> HIDE DEF pgs
<1>4. DOMAIN pgs = 1..LastBlock(out)
  BY <1>3
<1>5. ASSUME NEW p \in 1..LastBlock(out)
      PROVE  /\ pgs[p].number = p
             /\ ToSet(pgs[p].text) \subseteq {"x"}
             /\ Len(pgs[p].text) = Cardinality({k \in DOMAIN out : out[k] = "x" /\ Rank(E, k) = p - 1})
  <2>1. p \in 1..(N + 1)
    BY <1>1, <1>2
  <2> DEFINE a == BlockStart(out, p)
             b == BlockEnd(out, p)
             t == SubSeq(out, a, b)
  <2>2. /\ a \in 1..(n + 1) /\ b \in 0..n /\ a <= b + 1
        /\ \A k \in 1..n : out[k] = "x" /\ Rank(E, k) = p - 1 <=> k \in a..b
    BY <2>1, BlockFacts
  <2>3. pgs[p].number = p /\ pgs[p].text = t
    BY <1>3
  <2> HIDE DEF a, b
  <2>4. Len(t) = b - a + 1 /\ DOMAIN t = 1..(b - a + 1) /\ \A j \in 1..(b - a + 1) : t[j] = out[j + a - 1]
    <3>1. t = [j \in 1..(1 + b - a) |-> out[j + a - 1]]
      BY <1>1, <2>2 DEF Output
    <3>2. 1 + b - a = b - a + 1 /\ b - a + 1 \in Nat
      BY <1>1, <2>2
    <3> HIDE DEF t
    <3> QED
      BY <3>1, <3>2
  <2> HIDE DEF t
  <2>5. ASSUME NEW j \in 1..(b - a + 1) PROVE t[j] = "x"
    <3>1. j + a - 1 \in a..b /\ j + a - 1 \in 1..n
      BY <1>1, <2>2
    <3>2. PICK k : k = j + a - 1
      OBVIOUS
    <3>3. k \in a..b /\ k \in 1..n /\ t[j] = out[k]
      BY <2>4, <3>1, <3>2
    <3> QED
      BY <2>2, <3>3
  <2>6. ToSet(t) \subseteq {"x"}
    BY <2>4, <2>5 DEF ToSet
  <2>7. {k \in DOMAIN out : out[k] = "x" /\ Rank(E, k) = p - 1} = a..b
    <3>1. \A k \in a..b : k \in 1..n
      BY <1>1, <2>2
    <3> HIDE DEF E, n
    <3> QED
      BY <1>1, <2>2, <3>1
  <2>8. Cardinality(a..b) = b - a + 1
    <3>1. a \in Int /\ b \in Int
      BY <1>1, <2>2
    <3>2. Cardinality(a..b) = IF a > b THEN 0 ELSE b - a + 1
      BY <3>1, FS_Interval
    <3> QED
      BY <1>1, <2>2, <3>2
  <2> QED
    BY <2>3, <2>4, <2>6, <2>7, <2>8
<1>6. ASSUME NEW k \in DOMAIN out, out[k] = "x" PROVE Rank(E, k) + 1 \in 1..LastBlock(out)
  <2>1. k \in 1..n /\ k \in Nat
    BY <1>1
  <2>2. Rank(E, k) \in 0..N
    BY <1>1, <2>1, RanksGrow
  <2>3. CASE LastBlock(out) = N + 1
    <3> HIDE DEF E, N
    <3> QED
      BY <1>1, <2>2, <2>3
  <2>4. CASE LastBlock(out) # N + 1
    <3>1. out # <<>>
      BY <1>1, <2>1
    <3>2. Last(out) = "F"
      BY <2>4, <3>1 DEF LastBlock
    <3>3. n \in 1..n /\ out[n] = "F"
      BY <1>1, <2>1, <3>2 DEF Last
    <3>4. n \in E /\ k # n
      BY <1>1, <1>6, <3>3 DEF Feeds
    <3>5. k < n
      BY <1>1, <2>1, <3>4
    <3>6. Rank(E, k) < Rank(E, n) /\ Rank(E, n) \in 0..N
      BY <1>1, <2>1, <3>4, <3>5, RanksGrow
    <3>7. LastBlock(out) = N
      BY <1>2, <2>4
    <3> HIDE DEF E, N
    <3> QED
      BY <1>1, <2>2, <3>6, <3>7
  <2> QED
    BY <2>3, <2>4
<1>7. ByPlace(out, pgs)
  BY <1>2, <1>4, <1>5, <1>6 DEF ByPlace
<1> QED
  BY <1>7 DEF pgs

(* The pages returned are those of the buffer. *)
PagesInv == outcome = "pages" => pages = splitPages(buf)

(* Every step keeps the pages those of the buffer: nothing is copied once they are returned. *)
LEMMA PagesKept == ASSUME IInv, PagesInv, [Next]_vars PROVE PagesInv'
<1> USE DEF childVars, copyVars, resultVars
<1>1. CASE CheckRun
  BY <1>1 DEF CheckRun, Return, PagesInv
<1>2. CASE UNCHANGED <<outcome, pages, buf>>
  BY <1>2 DEF PagesInv
<1>3. CASE CopyOut
  <2>1. pc = "wait" /\ outcome = "none" /\ outcome' = outcome
    BY <1>3 DEF IInv, Stages, CopyOut
  <2> QED
    BY <2>1 DEF PagesInv
<1>4. CASE outcome' # "pages"
  BY <1>4 DEF PagesInv
<1>5. CheckRun \/ UNCHANGED <<outcome, pages, buf>> \/ CopyOut \/ outcome' # "pages"
  BY DEF Next, CallerStep, CopyStep, ChildStep, LookPath, StartChild, RunReturns, CheckCap, CheckCaller,
         CheckOwn, Return, CopyEnds, KillChild, ChildWrite, ChildExit, CancelCaller, Expire, Terminated, vars
<1> QED
  BY <1>1, <1>2, <1>3, <1>4, <1>5

(* The number of every page is its place between the form feeds of the child, blank pages
   counted, it holds the text of that place, and no text is left out. *)
THEOREM PagesKeepPlaces == Spec => []PageNumbersPositional
<1>1. Init => PagesInv
  BY DEF Init, PagesInv
<1>2. IInv /\ PagesInv /\ [Next]_vars => PagesInv'
  BY PagesKept
<1>3. IInv /\ PagesInv /\ OutputWholeAndBounded => PageNumbersPositional
  <2> SUFFICES ASSUME IInv, PagesInv, OutputWholeAndBounded, outcome = "pages" PROVE PageNumbersPositional
    BY DEF PageNumbersPositional
  <2>1. written \in Output /\ pages = splitPages(written)
    BY DEF IInv, Types, PagesInv, OutputWholeAndBounded
  <2> DEFINE E == Feeds(written)
  <2>2. /\ DOMAIN pages = 1..LastBlock(written) /\ LastBlock(written) \in Nat
        /\ \A p \in DOMAIN pages :
             /\ pages[p].number = p
             /\ ToSet(pages[p].text) \subseteq {"x"}
             /\ Len(pages[p].text) =
                  Cardinality({k \in DOMAIN written : written[k] = "x" /\ Rank(E, k) = p - 1})
        /\ \A k \in DOMAIN written : written[k] = "x" => Rank(E, k) + 1 \in DOMAIN pages
    <3>1. ByPlace(written, splitPages(written))
      BY <2>1, PagesByPlace
    <3>2. ByPlace(written, pages)
      BY <2>1, <3>1
    <3> QED
      BY <3>2 DEF ByPlace
  <2>3. DOMAIN written = 1..Len(written) /\ Len(written) \in Nat
    BY <2>1 DEF Output
  <2>4. ASSUME NEW k \in DOMAIN written
        PROVE  Cardinality({f \in 1..k : written[f] = "F"}) = Rank(E, k) /\ Rank(E, k) \in Nat
    <3>1. {f \in 1..k : written[f] = "F"} = {x \in E : x <= k}
      <4>1. \A f \in 1..k : f \in 1..Len(written) /\ f <= k
        BY <2>3
      <4>2. \A f \in 1..Len(written) : f <= k => f \in 1..k
        BY <2>3
      <4> QED
        BY <2>3, <4>1, <4>2 DEF Feeds
    <3>2. Rank(E, k) \in 0..Cardinality(E) /\ Cardinality(E) \in Nat
      <4>1. k \in Nat /\ E \in SUBSET (1..Len(written)) /\ Cardinality(E) \in Nat
        BY <2>1, <2>3, FeedFacts
      <4> QED
        BY <2>3, <4>1, RanksGrow
    <3> HIDE DEF E
    <3> QED
      BY <3>1, <3>2 DEF Rank
  <2> HIDE DEF E
  <2>5. \A p : PageBytes(p) = {k \in DOMAIN written : written[k] = "x" /\ Rank(E, k) = p - 1}
    BY <2>4 DEF PageBytes
  <2>6. \A p, q \in DOMAIN pages : p < q => pages[p].number < pages[q].number
    BY <2>2
  <2>7. \A p \in DOMAIN pages :
          /\ ToSet(pages[p].text) \subseteq {"x"}
          /\ Len(pages[p].text) = Cardinality(PageBytes(pages[p].number))
    BY <2>2, <2>5
  <2>8. ASSUME NEW k \in DOMAIN written, written[k] = "x"
        PROVE  \E p \in DOMAIN pages : k \in PageBytes(pages[p].number)
    <3>1. PICK p : p = Rank(E, k) + 1
      OBVIOUS
    <3>2. p \in DOMAIN pages
      BY <2>2, <2>8, <3>1
    <3>3. Rank(E, k) \in Nat /\ pages[p].number = p
      BY <2>2, <2>4, <3>2
    <3>4. Rank(E, k) = pages[p].number - 1
      BY <3>1, <3>3
    <3> QED
      BY <2>5, <2>8, <3>2, <3>4
  <2> QED
    BY <2>6, <2>7, <2>8 DEF PageNumbersPositional
<1> QED
  BY <1>1, <1>2, <1>3, OutputNeverCut, Invariance, PTL DEF Spec
==============================================================================
