---------------------------- MODULE RegistryProofs ----------------------------
(* Proofs about BoundedRead for every width of the counter, every positive limit,
   every source and every way a reader cuts its answers, and about Registry for every
   wiring and every call. *)
EXTENDS Registry, FiniteSetTheorems, NaturalsInduction, WellFoundedInduction, TLAPS

-------------------------------------------------------------------------------
(* One bounded read. *)

(* What the reader has given and what it may still give make up the limit; the
   allowance is overdrawn by one byte at most, and then the call has returned. *)
Accounts ==
  /\ got = sent /\ sent + remaining = limit /\ sent <= size
  /\ remaining >= -1
  /\ pc # "returned" => remaining >= 0 /\ outcome = "none"
  /\ pc = "reader" => want <= remaining + 1

IInv == TypeOK /\ Accounts /\ NeverTruncated

(* The invariant holds at the start. *)
LEMMA InitIInv == Init => IInv
  BY LimitsAssumption DEF Init, IInv, TypeOK, Accounts, NeverTruncated, Outcomes

(* A clipped request is at most the allowance plus one, unless it panics. *)
LEMMA ClipBounded ==
  ASSUME NEW p \in Buffers, remaining \in 0..MaxInt, clip(p) >= 0
  PROVE  clip(p) \in Nat /\ clip(p) <= remaining + 1
  BY LimitsAssumption DEF clip, Wrapped

(* A request keeps the invariant. *)
LEMMA RequestStep ==
  ASSUME IInv, NEW p \in Buffers, Request(p)
  PROVE  IInv'
<1>1. remaining \in 0..MaxInt
  BY LimitsAssumption DEF IInv, TypeOK, Accounts, Request
<1>2. p \in Int /\ Wrapped(remaining + 1) \in Int
  BY <1>1, LimitsAssumption DEF Wrapped
<1>3. CASE clip(p) < 0
  BY <1>1, <1>2, <1>3 DEF IInv, TypeOK, Accounts, NeverTruncated, Request, Return, Outcomes
<1>4. CASE ~(clip(p) < 0)
  <2>1. clip(p) \in Nat /\ clip(p) <= remaining + 1
    BY <1>1, <1>2, <1>4, ClipBounded DEF clip
  <2> QED
    BY <1>4, <2>1 DEF IInv, TypeOK, Accounts, NeverTruncated, Request, Outcomes
<1> QED
  BY <1>3, <1>4

(* An answer of the source keeps it. *)
LEMMA AnswerStep ==
  ASSUME IInv, NEW n \in 0..want, NEW err \in {"nil", "EOF", "fail"}, Answer(n, err)
  PROVE  IInv'
<1>1. /\ n \in Nat /\ limit \in Int /\ size \in Nat /\ sent \in Nat
      /\ got \in Nat /\ remaining \in Int /\ want \in Nat
  BY LimitsAssumption DEF IInv, TypeOK
<1>2. n <= remaining + 1 /\ sent + n <= size /\ remaining >= 0
  BY <1>1 DEF IInv, Accounts, Answer
<1>3. Accounts'
  BY <1>1, <1>2 DEF IInv, Accounts, Answer, OutcomeOf
<1>4. TypeOK'
  BY <1>1 DEF IInv, TypeOK, Answer, OutcomeOf, Outcomes
<1>5. NeverTruncated'
  BY <1>1, <1>2 DEF IInv, Accounts, Answer, Answers, OutcomeOf, NeverTruncated
<1> QED
  BY <1>3, <1>4, <1>5 DEF IInv

(* Every step of a read keeps it. *)
LEMMA ReadStep == ASSUME IInv, [Next]_vars PROVE IInv'
<1>1. CASE ReadAborted
  BY <1>1 DEF IInv, TypeOK, Accounts, NeverTruncated, ReadAborted, Return, Outcomes
<1>2. CASE \E p \in Buffers : Request(p)
  BY <1>2, RequestStep
<1>3. CASE \E n \in 0..want, err \in {"nil", "EOF", "fail"} : Answer(n, err)
  BY <1>3, AnswerStep
<1>4. CASE Cancel
  BY <1>4 DEF IInv, TypeOK, Accounts, NeverTruncated, Cancel
<1>5. CASE Terminated \/ UNCHANGED vars
  BY <1>5 DEF IInv, TypeOK, Accounts, NeverTruncated, Terminated, vars
<1> QED
  BY <1>1, <1>2, <1>3, <1>4, <1>5 DEF Next

(* It holds throughout. *)
LEMMA Invariance == Spec => []IInv
  BY InitIInv, ReadStep, PTL DEF Spec

(* The state of a read stays well typed (extract.ReadAll over limitReader). *)
THEOREM TypeCorrect == Spec => []TypeOK
  BY Invariance, PTL DEF IInv

(* limitReader: success is the whole source, within the limit; the limit error is only
   for a source that is longer. *)
THEOREM SourceNeverTruncated == Spec => []NeverTruncated
  BY Invariance, PTL DEF IInv

(* limitReader never takes more than one byte past the limit from the source. *)
THEOREM AtMostOneByteOver == Spec => []OneByteOver
<1>1. IInv => OneByteOver
  BY LimitsAssumption DEF IInv, TypeOK, Accounts, OneByteOver
<1> QED
  BY Invariance, <1>1, PTL

(* Any limit but the largest integer is served: the wrap-around the code does not
   guard against needs remaining + 1 to be past the largest integer. *)
THEOREM SmallerLimitsWork ==
  ASSUME MaxInt \notin Limits
  PROVE  Spec => []PositiveLimitWorks
<1>1. Init => PositiveLimitWorks
  BY DEF Init, PositiveLimitWorks
<1>2. ASSUME IInv, PositiveLimitWorks, [Next]_vars PROVE PositiveLimitWorks'
  <2>1. ASSUME NEW p \in Buffers, Request(p) PROVE outcome' # "panic"
    <3>1. limit \in 1..MaxInt /\ limit # MaxInt /\ sent \in Nat
      BY <1>2, LimitsAssumption DEF IInv, TypeOK
    <3>2. remaining \in Int /\ remaining >= 0 /\ remaining + 1 <= MaxInt
      BY <1>2, <2>1, <3>1, LimitsAssumption DEF IInv, TypeOK, Accounts, Request
    <3>3. clip(p) >= 0
      BY <3>2, LimitsAssumption DEF clip, Wrapped
    <3>4. clip(p) \in Int
      BY <3>2, LimitsAssumption DEF clip, Wrapped
    <3> QED
      BY <1>2, <2>1, <3>3, <3>4 DEF Request, PositiveLimitWorks
  <2>2. ASSUME NEW n \in 0..want, NEW err \in {"nil", "EOF", "fail"}, Answer(n, err)
        PROVE outcome' # "panic"
    BY <2>2 DEF Answer, OutcomeOf
  <2> QED
    BY <1>2, <2>1, <2>2 DEF Next, ReadAborted, Return, Cancel, Terminated, vars, PositiveLimitWorks
<1> QED
  BY Invariance, <1>1, <1>2, PTL DEF Spec

-------------------------------------------------------------------------------
(* The read of a call. *)

(* Nothing is read while the registry is wired, a call that is not over has no result, and
   an extractor is given a source of its kind. *)
CallInv ==
  /\ stage \in {"wiring", "reading", "done"}
  /\ stage = "wiring" =>
       /\ sent = 0 /\ got = 0 /\ want = 0 /\ remaining = limit
       /\ pc = "request" /\ outcome = "none" /\ used = "none"
  /\ stage # "done" => result = "none"
  /\ used # "none" => source \in Sources /\ Suits(source, used)

(* What a call with a limit finds is a read that can begin. *)
LEMMA FreshRead ==
  ASSUME IInv, CallInv, stage = "wiring", size' \in Sizes, limit' \in Limits, remaining' = limit',
         UNCHANGED <<sent, want, got, pc, canceled, outcome>>
  PROVE  IInv'
<1>1. size' \in Nat /\ limit' \in Nat /\ limit' >= 1
  BY LimitsAssumption
<1>2. sent' = 0 /\ got' = 0 /\ want' = 0 /\ pc' = "request" /\ outcome' = "none" /\ canceled' \in BOOLEAN
  BY DEF CallInv, IInv, TypeOK
<1>3. TypeOK'
  BY <1>1, <1>2 DEF TypeOK, Outcomes
<1>4. \A r \in Nat : 0 + r = r /\ r >= 0 /\ r >= -1
  OBVIOUS
<1>5. Accounts'
  <2>1. remaining' = limit'
    OBVIOUS
  <2> QED
    BY <1>1, <1>2, <1>4, <2>1, Zenon DEF Accounts
<1>6. NeverTruncated'
  BY <1>2 DEF NeverTruncated
<1> QED
  BY <1>3, <1>5, <1>6 DEF IInv

(* Every step of the registry keeps the invariant of the read. *)
LEMMA CallStep == ASSUME IInv, CallInv, [RegistryNext]_<<vars, callVars>> PROVE IInv' /\ CallInv'
<1> USE DEF callVars, Reply
<1>1. ASSUME NEW mt \in MediaTypes, NEW e \in Extractors, Register(mt, e) PROVE IInv' /\ CallInv'
  <2>1. UNCHANGED vars /\ UNCHANGED used /\ stage = "wiring"
    BY <1>1 DEF Register
  <2>2. (stage' = "done" /\ result' = "panic") \/ (stage' = stage /\ result' = result)
    BY <1>1 DEF Register
  <2>3. IInv'
    BY <2>1 DEF IInv, TypeOK, Accounts, NeverTruncated, vars
  <2> QED
    BY <2>1, <2>2, <2>3 DEF CallInv, vars
<1>2. CASE RegisterDocuments
  <2>1. UNCHANGED vars /\ UNCHANGED used /\ stage = "wiring"
    BY <1>2 DEF RegisterDocuments
  <2>2. (stage' = "done" /\ result' = "panic") \/ (stage' = stage /\ result' = result)
    BY <1>2 DEF RegisterDocuments
  <2>3. IInv'
    BY <2>1 DEF IInv, TypeOK, Accounts, NeverTruncated, vars
  <2> QED
    BY <2>1, <2>2, <2>3 DEF CallInv, vars
<1>3. ASSUME stage = "wiring", NEW mt \in MediaTypes, NEW reader \in Sources, NEW parentID \in {"", "parent"},
             NEW maxBytes \in Limits \union {0}, Extract(mt, reader, parentID, maxBytes)
      PROVE  IInv' /\ CallInv'
  <2>1. UNCHANGED <<sent, want, got, pc, canceled, outcome>>
    BY <1>3 DEF Extract
  <2>2. CASE UNCHANGED <<size, used, limit, remaining>> /\ stage' = "done"
    <3>1. IInv'
      BY <2>1, <2>2 DEF IInv, TypeOK, Accounts, NeverTruncated
    <3>2. used' = "none"
      BY <1>3, <2>2 DEF CallInv
    <3> QED
      BY <2>2, <3>1, <3>2 DEF CallInv
  <2>3. CASE /\ size' = reader.size /\ limit' = (IF maxBytes = 0 THEN limit ELSE maxBytes)
             /\ remaining' = limit'
             /\ source' = reader /\ used' = extractors[canonical[mt]] /\ Suits(reader, used')
             /\ (stage' = "done" \/ (stage' = "reading" /\ result' = result))
    <3>1. size' \in Sizes /\ limit' \in Limits
      <4>1. reader.size \in Sizes
        BY RegistryAssumption
      <4>2. limit \in Limits
        BY DEF IInv, TypeOK
      <4> QED
        BY <1>3, <2>3, <4>1, <4>2
    <3>2. IInv'
      BY <1>3, <2>1, <2>3, <3>1, FreshRead
    <3>3. (used # "none" => source \in Sources /\ Suits(source, used))'
      BY <2>3 DEF Suits
    <3> QED
      BY <1>3, <2>3, <3>2, <3>3 DEF CallInv
  <2> QED
    BY <1>3, <2>2, <2>3 DEF Extract
<1>4. CASE Reading
  <2>1. IInv'
    BY <1>4, ReadStep DEF Reading
  <2> QED
    BY <1>4, <2>1 DEF Reading, CallInv
<1>5. CASE ReadFailed \/ EngineFailed \/ Extracted
  <2>1. UNCHANGED vars /\ stage' = "done" /\ UNCHANGED <<source, used>>
    BY <1>5 DEF ReadFailed, EngineFailed, Extracted
  <2>2. IInv'
    BY <2>1 DEF IInv, TypeOK, Accounts, NeverTruncated, vars
  <2>3. (used # "none" => source \in Sources /\ Suits(source, used))'
    BY <2>1 DEF CallInv, Suits
  <2> QED
    BY <2>1, <2>2, <2>3 DEF CallInv
<1>6. CASE Returned \/ UNCHANGED <<vars, callVars>>
  <2>1. UNCHANGED vars /\ UNCHANGED callVars
    BY <1>6 DEF Returned
  <2>2. IInv'
    BY <2>1 DEF IInv, TypeOK, Accounts, NeverTruncated, vars
  <2> QED
    BY <2>1, <2>2 DEF CallInv, vars
<1> QED
  BY <1>1, <1>2, <1>3, <1>4, <1>5, <1>6 DEF RegistryNext

(* The invariant of the read holds throughout a call. *)
LEMMA CallInvariance == RegistrySpec => [](IInv /\ CallInv)
<1>1. RegistryInit => IInv /\ CallInv
  <2> SUFFICES ASSUME RegistryInit PROVE IInv /\ CallInv
    OBVIOUS
  <2>1. IInv
    BY InitIInv DEF RegistryInit
  <2> QED
    BY <2>1 DEF RegistryInit, Init, CallInv
<1> QED
  BY <1>1, CallStep, PTL DEF RegistrySpec

(* Registry.Extract: the source of a call that succeeds is read whole within the limit
   of the call, and one is refused as too large only when it is. *)
THEOREM CallsNeverTruncate == RegistrySpec => []NeverTruncated
  BY CallInvariance, PTL DEF IInv

(* Registry.Extract: no call takes more than one byte past its limit from its source. *)
THEOREM CallsKeepLimit == RegistrySpec => []OneByteOver
<1>1. IInv => OneByteOver
  BY LimitsAssumption DEF IInv, TypeOK, Accounts, OneByteOver
<1> QED
  BY CallInvariance, <1>1, PTL

-------------------------------------------------------------------------------
(* The dispatch. *)

Wirings == [type : MediaTypes, extractor : Extractors \union STRING]

(* The key a registration is under. *)
KeyOf(registration) == canonical[registration.type]

(* The registry has exactly the registrations that returned, each under its own key, and
   a call found or missed its extractor under the key of its media type. *)
DispatchInv ==
  /\ wired \in Seq(Wirings)
  /\ DOMAIN extractors = {KeyOf(wired[k]) : k \in DOMAIN wired}
  /\ \A k \in DOMAIN wired : extractors[KeyOf(wired[k])] = wired[k].extractor
  /\ \A j, k \in DOMAIN wired : KeyOf(wired[j]) = KeyOf(wired[k]) => j = k
  /\ used # "none" => /\ canonical[mediaType] \in DOMAIN extractors
                      /\ used = extractors[canonical[mediaType]]
  /\ result = "unsupported" => canonical[mediaType] \notin DOMAIN extractors

(* The elements of a sequence over S are in S. *)
LEMMA ElementOf == ASSUME NEW S, NEW s \in Seq(S), NEW n \in DOMAIN s PROVE s[n] \in S
  OBVIOUS

(* What is registered under new keys keeps the registry and its history together. *)
LEMMA WiredWith ==
  ASSUME DispatchInv, used = "none", result = "none",
         NEW more \in Seq(Wirings), NEW keys, keys = {KeyOf(more[k]) : k \in DOMAIN more},
         \A key \in keys : key \notin DOMAIN extractors,
         \A j, k \in DOMAIN more : KeyOf(more[j]) = KeyOf(more[k]) => j = k,
         wired' = wired \o more,
         DOMAIN extractors' = DOMAIN extractors \union keys,
         \A key \in DOMAIN extractors : extractors'[key] = extractors[key],
         \A k \in DOMAIN more : extractors'[KeyOf(more[k])] = more[k].extractor,
         used' = used, result' # "unsupported"
  PROVE  DispatchInv'
<1> DEFINE n == Len(wired)
<1>1. wired \in Seq(Wirings) /\ n \in Nat /\ DOMAIN wired = 1..n
  BY DEF DispatchInv
<1>2. Len(more) \in Nat /\ DOMAIN more = 1..Len(more)
  OBVIOUS
<1>3. wired' \in Seq(Wirings) /\ DOMAIN wired' = 1..(n + Len(more))
  BY <1>1
<1>4. \A k \in 1..n : k \in DOMAIN wired' /\ wired'[k] = wired[k]
  BY <1>1, <1>2
<1>5. \A k \in 1..Len(more) : n + k \in DOMAIN wired' /\ wired'[n + k] = more[k]
  BY <1>1, <1>2
<1>6. ASSUME NEW k \in DOMAIN wired'
      PROVE  \/ k \in DOMAIN wired
             \/ \E m \in DOMAIN more : k = n + m
  <2>1. CASE k <= n
    BY <1>1, <1>3, <2>1
  <2>2. CASE k > n
    <3>1. k - n \in 1..Len(more) /\ k = n + (k - n)
      BY <1>1, <1>2, <1>3, <2>2
    <3> QED
      BY <1>2, <3>1
  <2> QED
    BY <1>1, <1>3, <2>1, <2>2
<1> HIDE DEF n
<1>7. ASSUME NEW k \in DOMAIN wired'
      PROVE  \/ /\ k \in DOMAIN wired /\ wired'[k] = wired[k]
                /\ KeyOf(wired[k]) \in DOMAIN extractors
             \/ \E m \in DOMAIN more : k = n + m /\ wired'[k] = more[m] /\ KeyOf(more[m]) \in keys
  <2>1. CASE k \in DOMAIN wired
    <3>1. KeyOf(wired[k]) \in DOMAIN extractors
      BY <2>1 DEF DispatchInv
    <3> QED
      BY <1>1, <1>4, <2>1, <3>1
  <2>2. CASE k \notin DOMAIN wired
    <3>1. PICK m \in DOMAIN more : k = n + m
      BY <1>6, <2>2
    <3>2. wired'[k] = more[m]
      BY <1>2, <1>5, <3>1
    <3>3. KeyOf(more[m]) \in keys
      OBVIOUS
    <3> QED
      BY <3>1, <3>2, <3>3
  <2> QED
    BY <2>1, <2>2
<1>8. DOMAIN extractors' = {KeyOf(wired'[k]) : k \in DOMAIN wired'}
  <2>1. ASSUME NEW key \in DOMAIN extractors' PROVE \E k \in DOMAIN wired' : key = KeyOf(wired'[k])
    <3>1. CASE key \in DOMAIN extractors
      <4>1. PICK k \in DOMAIN wired : key = KeyOf(wired[k])
        BY <3>1 DEF DispatchInv
      <4> QED
        BY <1>1, <1>4, <4>1
    <3>2. CASE key \in keys
      <4>1. PICK m \in DOMAIN more : key = KeyOf(more[m])
        BY <3>2
      <4> QED
        BY <1>2, <1>5, <4>1
    <3> QED
      BY <3>1, <3>2
  <2>2. ASSUME NEW k \in DOMAIN wired' PROVE KeyOf(wired'[k]) \in DOMAIN extractors'
    BY <1>7
  <2> DEFINE known == DOMAIN extractors'
             listed == {KeyOf(wired'[k]) : k \in DOMAIN wired'}
  <2>3. \A key \in known : key \in listed
    BY <2>1
  <2>4. \A key \in listed : key \in known
    BY <2>2
  <2> HIDE DEF known, listed
  <2>5. known = listed
    BY <2>3, <2>4
  <2> QED
    BY <2>5 DEF known, listed
<1>9. ASSUME NEW k \in DOMAIN wired' PROVE extractors'[KeyOf(wired'[k])] = wired'[k].extractor
  <2>1. CASE k \in DOMAIN wired /\ wired'[k] = wired[k] /\ KeyOf(wired[k]) \in DOMAIN extractors
    BY <2>1 DEF DispatchInv
  <2> QED
    BY <1>7, <2>1
<1>10. ASSUME NEW j \in DOMAIN wired', NEW k \in DOMAIN wired', KeyOf(wired'[j]) = KeyOf(wired'[k])
       PROVE  j = k
  <2>1. CASE j \in DOMAIN wired /\ k \in DOMAIN wired
    BY <1>1, <1>4, <1>10, <2>1 DEF DispatchInv
  <2>2. \A i \in DOMAIN wired' : i \notin DOMAIN wired =>
          \E m \in DOMAIN more : i = n + m /\ KeyOf(wired'[i]) = KeyOf(more[m]) /\ KeyOf(more[m]) \in keys
    BY <1>7
  <2>3. \A i \in DOMAIN wired' : i \in DOMAIN wired => KeyOf(wired'[i]) \in DOMAIN extractors
    BY <1>1, <1>4, <1>7 DEF DispatchInv
  <2>4. \A x \in keys : x \notin DOMAIN extractors
    OBVIOUS
  <2>5. CASE j \notin DOMAIN wired /\ k \notin DOMAIN wired
    <3>1. PICK m \in DOMAIN more : j = n + m /\ KeyOf(wired'[j]) = KeyOf(more[m])
      BY <2>2, <2>5
    <3>2. PICK l \in DOMAIN more : k = n + l /\ KeyOf(wired'[k]) = KeyOf(more[l])
      BY <2>2, <2>5
    <3>3. m = l
      BY <1>10, <3>1, <3>2
    <3> QED
      BY <3>1, <3>2, <3>3
  <2>6. CASE j \in DOMAIN wired /\ k \notin DOMAIN wired
    <3>1. KeyOf(wired'[k]) \in keys
      BY <2>2, <2>6
    <3>2. KeyOf(wired'[j]) \in DOMAIN extractors
      BY <2>3, <2>6
    <3> QED
      BY <1>10, <2>4, <3>1, <3>2
  <2>7. CASE j \notin DOMAIN wired /\ k \in DOMAIN wired
    <3>1. KeyOf(wired'[j]) \in keys
      BY <2>2, <2>7
    <3>2. KeyOf(wired'[k]) \in DOMAIN extractors
      BY <2>3, <2>7
    <3> QED
      BY <1>10, <2>4, <3>1, <3>2
  <2> QED
    BY <2>1, <2>5, <2>6, <2>7
<1>11. (\A k \in DOMAIN wired : extractors[KeyOf(wired[k])] = wired[k].extractor)'
  BY <1>9 DEF KeyOf
<1>12. (\A j, k \in DOMAIN wired : KeyOf(wired[j]) = KeyOf(wired[k]) => j = k)'
  BY <1>10 DEF KeyOf
<1>13. (DOMAIN extractors = {KeyOf(wired[k]) : k \in DOMAIN wired})'
  BY <1>8 DEF KeyOf
<1> QED
  BY <1>3, <1>11, <1>12, <1>13 DEF DispatchInv, Wirings

(* Every step keeps the registry and its history together. *)
LEMMA DispatchStep ==
  ASSUME IInv, CallInv, DispatchInv, [RegistryNext]_<<vars, callVars>>
  PROVE  DispatchInv'
<1> USE DEF callVars, Reply
<1>1. ASSUME NEW mt \in MediaTypes, NEW e \in Extractors, Register(mt, e) PROVE DispatchInv'
  <2>1. used = "none" /\ result = "none" /\ UNCHANGED <<used, mediaType>>
    BY <1>1 DEF Register, CallInv
  <2>2. CASE result' = "panic" /\ UNCHANGED <<extractors, wired>>
    BY <2>1, <2>2 DEF DispatchInv, KeyOf, Wirings
  <2> DEFINE key == canonical[mt]
             r == [type |-> mt, extractor |-> e]
             more == <<r>>
  <2>3. CASE /\ key \notin DOMAIN extractors /\ extractors' = With(key, e)
             /\ wired' = Append(wired, r) /\ result' = result
    <3>1. r \in Wirings /\ KeyOf(r) = key /\ r.extractor = e
      BY DEF Wirings, KeyOf
    <3> HIDE DEF r, key
    <3>2. more \in Seq(Wirings) /\ DOMAIN more = {1} /\ more[1] = r
      BY <3>1
    <3>3. wired' = wired \o more
      BY <2>3, <3>1 DEF DispatchInv
    <3>4. /\ DOMAIN extractors' = DOMAIN extractors \union {key}
          /\ \A x \in DOMAIN extractors : extractors'[x] = extractors[x]
          /\ extractors'[key] = e
      BY <2>3 DEF With
    <3> HIDE DEF more
    <3>5. {key} = {KeyOf(more[k]) : k \in DOMAIN more}
      BY <3>1, <3>2
    <3>6. \A x \in {key} : x \notin DOMAIN extractors
      BY <2>3
    <3>7. \A j, k \in DOMAIN more : KeyOf(more[j]) = KeyOf(more[k]) => j = k
      BY <3>2
    <3>8. \A k \in DOMAIN more : extractors'[KeyOf(more[k])] = more[k].extractor
      BY <3>1, <3>2, <3>4
    <3>9. result' # "unsupported" /\ used' = used
      BY <2>1, <2>3
    <3> QED
      BY <2>1, <3>2, <3>3, <3>4, <3>5, <3>6, <3>7, <3>8, <3>9, WiredWith
  <2> QED
    BY <1>1, <2>2, <2>3 DEF Register
<1>2. CASE RegisterDocuments
  <2>1. used = "none" /\ result = "none" /\ UNCHANGED <<used, mediaType>>
    BY <1>2 DEF RegisterDocuments, CallInv
  <2> DEFINE key(n) == canonical[Preset[n].type]
  <2>2. PICK made \in 0..Len(Preset) :
          LET at(k) == CHOOSE n \in 1..made : key(n) = k
          IN  /\ \A n \in 1..made : key(n) \notin DOMAIN extractors
              /\ extractors' = [k \in DOMAIN extractors \union {key(n) : n \in 1..made} |->
                                  IF k \in DOMAIN extractors THEN extractors[k] ELSE Preset[at(k)].extractor]
              /\ wired' = wired \o SubSeq(Preset, 1, made)
              /\ result' = result \/ result' = "panic"
    BY <1>2 DEF RegisterDocuments
  <2> DEFINE more == SubSeq(Preset, 1, made)
             keys == {key(n) : n \in 1..made}
             at(k) == CHOOSE n \in 1..made : key(n) = k
  <2>3. /\ Preset \in Seq([type : MediaTypes, extractor : STRING]) /\ Len(Preset) \in Nat
        /\ DOMAIN Preset = 1..Len(Preset) /\ made \in Nat /\ \A n \in 1..made : n \in DOMAIN Preset
    <3>1. Preset \in Seq([type : MediaTypes, extractor : STRING])
      BY RegistryAssumption
    <3> QED
      BY <3>1
  <2>4. /\ DOMAIN more = 1..made /\ \A n \in 1..made : more[n] = Preset[n] /\ KeyOf(more[n]) = key(n)
        /\ more \in Seq(Wirings)
    <3>1. /\ more = [n \in 1..made |-> Preset[n]] /\ DOMAIN more = 1..made
          /\ \A n \in 1..made : more[n] = Preset[n]
      BY <2>3
    <3>2. \A n \in 1..made : Preset[n] \in [type : MediaTypes, extractor : STRING]
      BY <2>3, ElementOf
    <3>3. [type : MediaTypes, extractor : STRING] \subseteq Wirings
      BY DEF Wirings
    <3>4. \A n \in 1..made : Preset[n] \in Wirings
      BY <3>2, <3>3, Zenon
    <3>5. [n \in 1..made |-> Preset[n]] \in Seq(Wirings)
      BY <2>3, <3>4
    <3> QED
      BY <3>1, <3>5 DEF KeyOf
  <2>5. ASSUME NEW m \in 1..made, NEW n \in 1..made, key(m) = key(n) PROVE m = n
    BY <2>3, <2>5, RegistryAssumption
  <2>6. ASSUME NEW n \in 1..made PROVE at(key(n)) = n
    BY <2>5
  <2>7. /\ \A k \in keys : k \notin DOMAIN extractors
        /\ DOMAIN extractors' = DOMAIN extractors \union keys
        /\ \A k \in DOMAIN extractors : extractors'[k] = extractors[k]
    BY <2>2
  <2>8. ASSUME NEW n \in 1..made PROVE extractors'[key(n)] = Preset[n].extractor
    <3>1. key(n) \in keys /\ key(n) \notin DOMAIN extractors
      BY <2>7
    <3>2. extractors' = [k \in DOMAIN extractors \union keys |->
                           IF k \in DOMAIN extractors THEN extractors[k] ELSE Preset[at(k)].extractor]
      BY <2>2, Zenon
    <3>3. at(key(n)) = n
      BY <2>6
    <3> HIDE DEF at, keys
    <3> QED
      BY <3>1, <3>2, <3>3
  <2>9. wired' = wired \o more /\ result' # "unsupported" /\ used' = used
    BY <2>1, <2>2
  <2>10. keys = {KeyOf(more[k]) : k \in DOMAIN more}
    <3> HIDE DEF more
    <3>1. DOMAIN more = 1..made /\ \A n \in 1..made : KeyOf(more[n]) = key(n)
      BY <2>4
    <3> HIDE DEF key
    <3> QED
      BY <3>1
  <2>11. \A j, k \in DOMAIN more : KeyOf(more[j]) = KeyOf(more[k]) => j = k
    <3> HIDE DEF more
    <3>1. \A j, k \in DOMAIN more : KeyOf(more[j]) = key(j) /\ KeyOf(more[k]) = key(k) /\ j \in 1..made /\ k \in 1..made
      BY <2>4
    <3>2. \A j, k \in 1..made : key(j) = key(k) => j = k
      BY <2>5
    <3> HIDE DEF key
    <3> QED
      BY <3>1, <3>2
  <2>12. \A k \in DOMAIN more : extractors'[KeyOf(more[k])] = more[k].extractor
    BY <2>4, <2>8
  <2> HIDE DEF keys, key
  <2> QED
    BY <2>1, <2>4, <2>7, <2>9, <2>10, <2>11, <2>12, WiredWith
<1>3. ASSUME stage = "wiring", NEW mt \in MediaTypes, NEW reader \in Sources, NEW parentID \in {"", "parent"},
             NEW maxBytes \in Limits \union {0}, Extract(mt, reader, parentID, maxBytes)
      PROVE  DispatchInv'
  <2>1. UNCHANGED <<extractors, wired>> /\ mediaType' = mt /\ used = "none" /\ result = "none"
    BY <1>3 DEF Extract, CallInv
  <2>2. /\ used' # "none" => canonical[mt] \in DOMAIN extractors /\ used' = extractors[canonical[mt]]
        /\ result' = "unsupported" => canonical[mt] \notin DOMAIN extractors
    BY <1>3, <2>1 DEF Extract
  <2>3. (/\ wired \in Seq(Wirings)
         /\ DOMAIN extractors = {KeyOf(wired[k]) : k \in DOMAIN wired}
         /\ \A k \in DOMAIN wired : extractors[KeyOf(wired[k])] = wired[k].extractor
         /\ \A j, k \in DOMAIN wired : KeyOf(wired[j]) = KeyOf(wired[k]) => j = k)'
    BY <2>1 DEF DispatchInv, KeyOf, Wirings
  <2>4. (/\ used # "none" => /\ canonical[mediaType] \in DOMAIN extractors
                             /\ used = extractors[canonical[mediaType]]
         /\ result = "unsupported" => canonical[mediaType] \notin DOMAIN extractors)'
    BY <2>1, <2>2
  <2> QED
    BY <2>3, <2>4 DEF DispatchInv
<1>4. CASE UNCHANGED <<extractors, wired, mediaType, used>> /\ (result' = "unsupported" => result = "unsupported")
  BY <1>4 DEF DispatchInv, KeyOf, Wirings
<1>5. CASE Reading \/ ReadFailed \/ EngineFailed \/ Extracted \/ Returned \/ UNCHANGED <<vars, callVars>>
  <2>1. ReadFailed => result' \in Outcomes
    BY DEF ReadFailed, IInv, TypeOK
  <2>2. EngineFailed => result' \in EngineErrors
    BY RegistryAssumption DEF EngineFailed, CallInv, Suits
  <2> QED
    BY <1>4, <1>5, <2>1, <2>2 DEF EngineFailed, EngineErrors, Reading, ReadFailed, Extracted, Returned, Outcomes
<1> QED
  BY <1>1, <1>2, <1>3, <1>4, <1>5 DEF RegistryNext

(* Registry.Extract: a source goes to the one extractor wired for its media type, however
   either is spelled, and is refused as unsupported only when none is. *)
THEOREM DispatchKept == RegistrySpec => []DispatchAsRegistered
<1>1. RegistryInit => DispatchInv
  BY DEF RegistryInit, DispatchInv, KeyOf
<1>2. DispatchInv => DispatchAsRegistered
  <2> SUFFICES ASSUME DispatchInv PROVE DispatchAsRegistered
    OBVIOUS
  <2> DEFINE wiredFor == {k \in DOMAIN wired : canonical[wired[k].type] = canonical[mediaType]}
  <2>1. ASSUME used # "none"
        PROVE  {wired[k].extractor : k \in wiredFor} = {used} /\ Cardinality(wiredFor) = 1
    <3>1. PICK k \in DOMAIN wired : KeyOf(wired[k]) = canonical[mediaType]
      BY <2>1 DEF DispatchInv
    <3>2. wiredFor = {k}
      BY <3>1 DEF DispatchInv, KeyOf
    <3>3. wired[k].extractor = used
      BY <2>1, <3>1 DEF DispatchInv
    <3> QED
      BY <3>2, <3>3, FS_Singleton
  <2>2. ASSUME result = "unsupported" PROVE wiredFor = {} /\ ~Supports(mediaType)
    BY <2>2 DEF DispatchInv, KeyOf, Supports
  <2> QED
    BY <2>1, <2>2 DEF DispatchAsRegistered
<1> QED
  BY <1>1, <1>2, DispatchStep, CallInvariance, PTL DEF RegistrySpec

-------------------------------------------------------------------------------
(* What is kept of a source, and Markdown. *)

(* A non-empty set of numbers has a least one. *)
LEMMA Least ==
  ASSUME NEW S \in SUBSET Nat, S # {}
  PROVE  \E x \in S : \A y \in S : x <= y
<1>1. PICK x \in S : \A y \in S : <<y, x>> \notin OpToRel(<, Nat)
  BY WFMin, NatLessThanWellFounded
<1>2. ASSUME NEW y \in S PROVE x <= y
  <2>1. x \in Nat /\ y \in Nat /\ <<y, x>> \notin {ss \in Nat \X Nat : ss[1] < ss[2]}
    BY <1>1 DEF OpToRel
  <2>2. ~(y < x)
    BY <2>1
  <2> QED
    BY <2>1, <2>2
<1> QED
  BY <1>2

(* What Extracted keeps of the candidates. *)
Kept == At(Candidates, {k \in DOMAIN Candidates : ~isBlankText(Candidates[k].Text)})

(* A call that succeeds has answered with what is kept of its candidates. *)
KeptInv == result \in {"ok", "no content"} => artifacts = Kept

(* The candidates are those of the source and of the extractor. *)
LEMMA SameKept == ASSUME UNCHANGED <<source, used>> PROVE Kept' = Kept
<1>1. Decoded' = Decoded
  BY DEF Decoded
<1>2. Pages' = Pages
  BY DEF Pages
<1>3. Candidates' = Candidates
  BY <1>1, <1>2 DEF Candidates
<1> QED
  BY <1>3 DEF Kept

(* The artifacts of a call that read its source are what is kept of it. *)
LEMMA KeptStep ==
  ASSUME IInv, CallInv, KeptInv, [RegistryNext]_<<vars, callVars>>
  PROVE  KeptInv'
<1> USE DEF callVars, Reply
<1>1. CASE Extracted
  <2>1. artifacts' = Kept
    BY <1>1 DEF Extracted, Kept
  <2>2. Kept' = Kept
    BY <1>1, SameKept DEF Extracted
  <2> QED
    BY <2>1, <2>2 DEF KeptInv
<1>2. CASE result' \notin {"ok", "no content"}
  BY <1>2 DEF KeptInv
<1>3. CASE UNCHANGED <<source, used, artifacts, result>>
  <2>1. Kept' = Kept
    BY <1>3, SameKept
  <2> QED
    BY <1>3, <2>1 DEF KeptInv
<1>4. ASSUME NEW mt \in MediaTypes, NEW e \in Extractors, Register(mt, e)
      PROVE  UNCHANGED <<source, used, artifacts, result>> \/ result' \notin {"ok", "no content"}
  BY <1>4 DEF Register
<1>5. RegisterDocuments => UNCHANGED <<source, used, artifacts, result>> \/ result' \notin {"ok", "no content"}
  BY DEF RegisterDocuments
<1>6. ASSUME NEW mt \in MediaTypes, NEW reader \in Sources, NEW parentID \in {"", "parent"},
             NEW maxBytes \in Limits \union {0}, Extract(mt, reader, parentID, maxBytes), stage = "wiring"
      PROVE  result' \notin {"ok", "no content"}
  BY <1>6 DEF Extract, CallInv
<1>7. ReadFailed => result' \notin {"ok", "no content"}
  BY DEF ReadFailed, IInv, TypeOK, Outcomes
<1>8. EngineFailed => result' \notin {"ok", "no content"}
  BY RegistryAssumption DEF EngineFailed, CallInv, Suits, EngineErrors
<1>9. Reading \/ Returned \/ UNCHANGED <<vars, callVars>> => UNCHANGED <<source, used, artifacts, result>>
  BY DEF Reading, Returned
<1> QED
  BY <1>1, <1>2, <1>3, <1>4, <1>5, <1>6, <1>7, <1>8, <1>9 DEF RegistryNext

(* The artifacts and the outcome of a call stay in agreement, along with the call. *)
LEMMA KeptInvariance == RegistrySpec => []KeptInv
<1>1. RegistryInit => KeptInv
  BY DEF RegistryInit, KeptInv
<1> QED
  BY <1>1, KeptStep, CallInvariance, PTL DEF RegistrySpec

(* Of one candidate all is kept or nothing. *)
LEMMA KeptOfOne ==
  ASSUME NEW a, NEW ks, ks = {} \/ ks = {1}
  PROVE  At(<<a>>, ks) = IF ks = {} THEN <<>> ELSE <<a>>
<1>1. CASE ks = {}
  <2>1. 1..Cardinality(ks) = {}
    BY <1>1, FS_EmptySet
  <2> QED
    BY <1>1, <2>1 DEF At
<1>2. CASE ks = {1}
  <2>1. Cardinality(ks) = 1
    BY <1>2, FS_Singleton
  <2> DEFINE nth(n) == CHOOSE k \in ks : Cardinality({j \in ks : j <= k}) = n
  <2>2. nth(1) = 1
    <3>1. {j \in {1} : j <= 1} = {1}
      OBVIOUS
    <3> QED
      BY <1>2, <2>1, <3>1
  <2>3. At(<<a>>, ks) = [n \in 1..1 |-> <<a>>[nth(n)]]
    BY <2>1 DEF At
  <2> HIDE DEF nth
  <2>4. At(<<a>>, ks) = [n \in 1..1 |-> a]
    BY <2>2, <2>3
  <2> QED
    BY <1>2, <2>4
<1> QED
  BY <1>1, <1>2

(* What is stripped is the one leading block between two lines of the same delimiter. *)
LEMMA Stripped ==
  ASSUME NEW S, NEW text \in Seq(S)
  PROVE  LET isMatter(n) ==
               /\ n > 1 /\ TrimRight(text[1]) \in Delimiters /\ TrimRight(text[n]) = TrimRight(text[1])
               /\ \A k \in 2..(n - 1) : TrimRight(text[k]) # TrimRight(text[1])
             matter == {n \in DOMAIN text : isMatter(n)}
         IN  stripFrontMatter(text) = SubSeq(text, Max({0} \union matter) + 1, Len(text))
<1> DEFINE isMatter(n) ==
             /\ n > 1 /\ TrimRight(text[1]) \in Delimiters /\ TrimRight(text[n]) = TrimRight(text[1])
             /\ \A k \in 2..(n - 1) : TrimRight(text[k]) # TrimRight(text[1])
           matter == {n \in DOMAIN text : isMatter(n)}
<1> SUFFICES stripFrontMatter(text) = SubSeq(text, Max({0} \union matter) + 1, Len(text))
  OBVIOUS
<1>1. Len(text) \in Nat /\ DOMAIN text = 1..Len(text)
  OBVIOUS
<1>2. closing(text) \subseteq 2..Len(text)
  BY DEF closing
<1>3. CASE text # <<>> /\ TrimRight(text[1]) \in Delimiters /\ closing(text) # {}
  <2>1. PICK c \in closing(text) : \A k \in closing(text) : c <= k
    <3>1. closing(text) \subseteq Nat
      BY <1>1, <1>2
    <3> QED
      BY <1>3, <3>1, Least
  <2>2. c \in 2..Len(text)
    BY <1>2, <2>1
  <2>3. Min(closing(text)) = c
    BY <1>1, <1>2, <2>1 DEF Min
  <2>4. matter = {c}
    <3>1. isMatter(c)
      BY <1>1, <1>3, <2>1, <2>2 DEF closing
    <3>2. ASSUME NEW n \in DOMAIN text, isMatter(n) PROVE n = c
      <4>1. n \in closing(text)
        BY <1>1, <3>2 DEF closing
      <4>2. ~(c < n)
        BY <1>1, <2>1, <2>2, <3>2 DEF closing
      <4> QED
        BY <1>1, <2>1, <2>2, <4>1, <4>2
    <3>3. c \in DOMAIN text
      BY <1>1, <2>2
    <3> HIDE DEF isMatter
    <3> QED
      BY <3>1, <3>2, <3>3
  <2> HIDE DEF matter
  <2>5. Max({0} \union matter) = c
    BY <1>1, <2>2, <2>4 DEF Max
  <2>6. stripFrontMatter(text) = SubSeq(text, c + 1, Len(text))
    BY <1>3, <2>3 DEF stripFrontMatter
  <2> QED
    BY <2>5, <2>6
<1>4. CASE ~(text # <<>> /\ TrimRight(text[1]) \in Delimiters /\ closing(text) # {})
  <2>1. ASSUME NEW n \in DOMAIN text, isMatter(n) PROVE FALSE
    <3>1. n \in closing(text)
      BY <1>1, <2>1 DEF closing
    <3>2. text # <<>>
      BY <1>1, <2>1
    <3> QED
      BY <1>4, <2>1, <3>1, <3>2
  <2>2. matter = {}
    BY <2>1
  <2> HIDE DEF matter
  <2>3. Max({0} \union matter) = 0
    BY <2>2 DEF Max
  <2>4. stripFrontMatter(text) = text
    BY <1>4 DEF stripFrontMatter
  <2>5. SubSeq(text, 0 + 1, Len(text)) = text
    <3>1. SubSeq(text, 1, Len(text)) = [k \in 1..(1 + Len(text) - 1) |-> text[k + 1 - 1]]
      OBVIOUS
    <3>2. 1..(1 + Len(text) - 1) = DOMAIN text /\ \A k \in DOMAIN text : k + 1 - 1 = k
      BY <1>1
    <3>3. text = [k \in DOMAIN text |-> text[k]]
      OBVIOUS
    <3> QED
      BY <3>1, <3>2, <3>3
  <2> QED
    BY <2>3, <2>4, <2>5
<1> QED
  BY <1>3, <1>4

(* A sequence of one element. *)
LEMMA OneElement == ASSUME NEW a PROVE DOMAIN <<a>> = {1} /\ <<a>>[1] = a /\ <<a>> # <<>>
<1>1. <<a>> \in Seq({a}) /\ Len(<<a>>) = 1
  OBVIOUS
<1>2. DOMAIN <<a>> = 1..1
  BY <1>1
<1>3. 1..1 = {1}
  OBVIOUS
<1> QED
  BY <1>1, <1>2, <1>3

(* The one candidate of a call is kept unless it is blank. *)
LEMMA OneKept ==
  ASSUME NEW a, Candidates = <<a>>
  PROVE  Kept = IF isBlankText(a.Text) THEN <<>> ELSE <<a>>
<1> DEFINE ks == {k \in DOMAIN <<a>> : ~isBlankText(<<a>>[k].Text)}
<1>1. DOMAIN <<a>> = {1} /\ <<a>>[1] = a
  BY OneElement
<1>2. Kept = At(<<a>>, ks)
  BY DEF Kept
<1>3. ks = IF isBlankText(a.Text) THEN {} ELSE {1}
  BY <1>1
<1> HIDE DEF ks
<1>4. At(<<a>>, ks) = IF isBlankText(a.Text) THEN <<>> ELSE <<a>>
  BY <1>3, KeptOfOne
<1> QED
  BY <1>2, <1>4

(* The text of a source is still a sequence of lines when its bytes are valid. *)
LEMMA ValidLines ==
  ASSUME NEW text \in Lines
  PROVE  \E S : ToValidUTF8(text) \in Seq(S)
<1> DEFINE line(k) == [i \in DOMAIN text[k] |-> IF text[k][i] = "bytes" THEN "replaced" ELSE text[k][i]]
           S == {line(k) : k \in DOMAIN text}
<1>1. Len(text) \in Nat /\ DOMAIN text = 1..Len(text)
  BY DEF Lines
<1>2. ToValidUTF8(text) = [k \in DOMAIN text |-> line(k)]
  BY DEF ToValidUTF8
<1>3. \A k \in DOMAIN text : line(k) \in S
  OBVIOUS
<1> HIDE DEF line, S
<1>4. ToValidUTF8(text) \in Seq(S)
  BY <1>1, <1>2, <1>3
<1> QED
  BY <1>4

(* What extractors get: a source of lines has a text. *)
LEMMA LinesSource ==
  ASSUME CallInv, used \in {"text", "markdown"}
  PROVE  source.kind = "lines" /\ source.lines \in Lines
<1>1. source \in Sources /\ Suits(source, used)
  BY DEF CallInv
<1>2. source.kind = "lines"
  BY <1>1, RegistryAssumption DEF Suits
<1>3. source \in [kind : {"lines"}, size : Sizes, bom : BOOLEAN, lines : Lines]
  BY <1>1, <1>2, RegistryAssumption
<1> QED
  BY <1>2, <1>3

(* Markdown is kept as it is but for one leading block between two lines of the same
   delimiter (the markdown extractor's stripFrontMatter). *)
THEOREM BodiesKept == RegistrySpec => []BodyVerbatim
<1>1. CallInv /\ KeptInv => BodyVerbatim
  <2> SUFFICES ASSUME CallInv, KeptInv, used = "markdown", result \in {"ok", "no content"}
               PROVE  BodyVerbatim
    BY DEF BodyVerbatim
  <2> DEFINE text == ToValidUTF8(source.lines)
             isMatter(n) ==
               /\ n > 1 /\ TrimRight(text[1]) \in Delimiters /\ TrimRight(text[n]) = TrimRight(text[1])
               /\ \A k \in 2..(n - 1) : TrimRight(text[k]) # TrimRight(text[1])
             matter == {n \in DOMAIN text : isMatter(n)}
             body == SubSeq(text, Max({0} \union matter) + 1, Len(text))
             a == Artifact("text/markdown", body, 0)
  <2>1. PICK S : text \in Seq(S)
    BY LinesSource, ValidLines
  <2>2. stripFrontMatter(text) = body
    BY <2>1, Stripped
  <2>3. Candidates = <<a>>
    BY <2>2 DEF Candidates
  <2> HIDE DEF body
  <2>4. a.Text = body
    BY DEF Artifact
  <2> HIDE DEF a
  <2>5. DOMAIN <<a>> = {1} /\ <<a>>[1] = a /\ <<a>> # <<>>
    BY OneElement
  <2>6. artifacts = IF isBlankText(body) THEN <<>> ELSE <<a>>
    BY <2>3, <2>4, OneKept DEF KeptInv
  <2>7. IF artifacts = <<>> THEN isBlankText(body) ELSE artifacts[1].Text = body
    BY <2>4, <2>5, <2>6
  <2> QED
    BY <2>7 DEF BodyVerbatim, body
<1> QED
  BY <1>1, KeptInvariance, CallInvariance, PTL

-------------------------------------------------------------------------------
(* The members of a set of places, counted. *)

(* How many of E are at or before e. *)
Rank(E, e) == Cardinality({x \in E : x <= e})

(* The ranks of a finite set of places are 1, 2, ... without a gap, so each of them
   names one member, and larger members have larger ranks. *)
LEMMA Ranks ==
  ASSUME NEW n \in Nat, NEW E \in SUBSET (1..n)
  PROVE  /\ IsFiniteSet(E) /\ Cardinality(E) \in Nat
         /\ \A e \in E : Rank(E, e) \in 1..Cardinality(E)
         /\ \A e, f \in E : e < f => Rank(E, e) < Rank(E, f)
         /\ \A k \in 1..Cardinality(E) : \E e \in E : Rank(E, e) = k
         /\ n \in E => Rank(E, n) = Cardinality(E)
<1> DEFINE UpTo(e) == {x \in E : x <= e}
<1>0. \A x \in E : x \in Nat /\ 1 <= x /\ x <= n
  OBVIOUS
<1>1. IsFiniteSet(E) /\ Cardinality(E) \in Nat
  <2>1. 1 \in Int /\ n \in Int
    OBVIOUS
  <2> QED
    BY <2>1, FS_Interval, FS_Subset, FS_CardinalityType
<1>2. ASSUME NEW e \in E
      PROVE  /\ IsFiniteSet(UpTo(e)) /\ Cardinality(UpTo(e)) \in Nat
             /\ Cardinality(UpTo(e)) <= Cardinality(E) /\ Cardinality(UpTo(e)) # 0
  <2>1. UpTo(e) \in SUBSET E /\ e \in UpTo(e)
    OBVIOUS
  <2>2. IsFiniteSet(UpTo(e)) /\ Cardinality(UpTo(e)) <= Cardinality(E)
    BY <1>1, <2>1, FS_Subset
  <2> HIDE DEF UpTo
  <2> QED
    BY <2>1, <2>2, FS_CardinalityType, FS_EmptySet
<1>3. \A e \in E : Rank(E, e) \in 1..Cardinality(E)
  BY <1>1, <1>2 DEF Rank
<1>4. ASSUME NEW e \in E, NEW f \in E, e < f PROVE Rank(E, e) < Rank(E, f)
  <2>1. UpTo(e) \in SUBSET UpTo(f) /\ f \in UpTo(f) /\ f \notin UpTo(e)
    <3>1. \A x \in E : x <= e => x <= f
      BY <1>0, <1>4
    <3>2. f <= f /\ ~(f <= e)
      BY <1>0, <1>4
    <3> QED
      BY <3>1, <3>2
  <2>2. Cardinality(UpTo(e)) <= Cardinality(UpTo(f)) /\ Cardinality(UpTo(f)) # Cardinality(UpTo(e))
    <3> HIDE DEF UpTo
    <3> QED
      BY <1>2, <2>1, FS_Subset
  <2> QED
    BY <1>2, <2>2 DEF Rank
<1> DEFINE rank == [e \in E |-> Rank(E, e)]
<1>5. rank \in Injection(E, 1..Cardinality(E))
  <2>1. ASSUME NEW e \in E, NEW f \in E, Rank(E, e) = Rank(E, f) PROVE e = f
    <3>1. ~(e < f) /\ ~(f < e)
      BY <1>1, <1>3, <1>4, <2>1
    <3> QED
      BY <3>1
  <2> QED
    BY <1>3, <2>1 DEF Injection, IsInjective
<1>6. rank \in Surjection(E, 1..Cardinality(E))
  <2>1. 1 \in Int /\ Cardinality(E) \in Int
    BY <1>1
  <2>2. /\ IsFiniteSet(1..Cardinality(E))
        /\ Cardinality(1..Cardinality(E)) =
             IF 1 > Cardinality(E) THEN 0 ELSE Cardinality(E) - 1 + 1
    BY <2>1, FS_Interval
  <2>3. Cardinality(1..Cardinality(E)) = Cardinality(E)
    BY <1>1, <2>2
  <2> HIDE DEF rank
  <2> QED
    BY <1>5, <2>2, <2>3, FS_Injection
<1>7. \A k \in 1..Cardinality(E) : \E e \in E : Rank(E, e) = k
  BY <1>6 DEF Surjection
<1>8. n \in E => Rank(E, n) = Cardinality(E)
  <2>1. {x \in E : x <= n} = E
    BY <1>0
  <2> QED
    BY <2>1 DEF Rank
<1> QED
  BY <1>1, <1>3, <1>4, <1>7, <1>8

(* Ranks grow, and grow past each member. *)
LEMMA RanksGrow ==
  ASSUME NEW n \in Nat, NEW E \in SUBSET (1..n), NEW k \in Nat, NEW m \in Nat
  PROVE  /\ Rank(E, k) \in 0..Cardinality(E)
         /\ k <= m => Rank(E, k) <= Rank(E, m)
         /\ k < m /\ m \in E => Rank(E, k) < Rank(E, m)
<1> DEFINE UpTo(x) == {e \in E : e <= x}
<1>0. \A x \in E : x \in Nat
  OBVIOUS
<1>1. IsFiniteSet(E) /\ Cardinality(E) \in Nat
  BY Ranks
<1>2. ASSUME NEW x \in Nat
      PROVE  /\ IsFiniteSet(UpTo(x)) /\ Cardinality(UpTo(x)) \in Nat
             /\ Cardinality(UpTo(x)) <= Cardinality(E) /\ Rank(E, x) = Cardinality(UpTo(x))
  <2>1. UpTo(x) \in SUBSET E /\ Rank(E, x) = Cardinality(UpTo(x))
    BY DEF Rank
  <2> HIDE DEF UpTo
  <2> QED
    BY <1>1, <2>1, FS_Subset, FS_CardinalityType
<1>3. Rank(E, k) \in 0..Cardinality(E)
  <2> HIDE DEF UpTo
  <2> QED
    BY <1>1, <1>2
<1>4. ASSUME k <= m PROVE Rank(E, k) <= Rank(E, m)
  <2>0. \A x \in E : x <= k => x <= m
    BY <1>0, <1>4
  <2>1. UpTo(k) \in SUBSET UpTo(m)
    BY <2>0
  <2> HIDE DEF UpTo
  <2> QED
    BY <1>2, <2>1, FS_Subset
<1>5. ASSUME k < m, m \in E PROVE Rank(E, k) < Rank(E, m)
  <2>0. (\A x \in E : x <= k => x <= m) /\ m <= m /\ ~(m <= k)
    BY <1>0, <1>5
  <2>1. UpTo(k) \in SUBSET UpTo(m) /\ m \in UpTo(m) /\ m \notin UpTo(k)
    BY <1>5, <2>0
  <2> HIDE DEF UpTo
  <2>2. Cardinality(UpTo(k)) <= Cardinality(UpTo(m)) /\ Cardinality(UpTo(k)) # Cardinality(UpTo(m))
    BY <1>2, <2>1, FS_Subset
  <2> QED
    BY <1>2, <2>2
<1> QED
  BY <1>3, <1>4, <1>5

(* The n-th member of a set of places. *)
Nth(E, n) == CHOOSE k \in E : Rank(E, k) = n

(* The members of a set of places, counted. *)
LEMMA NthFacts ==
  ASSUME NEW n \in Nat, NEW E \in SUBSET (1..n)
  PROVE  /\ \A i \in 1..Cardinality(E) : Nth(E, i) \in E /\ Rank(E, Nth(E, i)) = i
         /\ \A e \in E : Nth(E, Rank(E, e)) = e
         /\ \A i, j \in 1..Cardinality(E) : i < j => Nth(E, i) < Nth(E, j)
<1>0. \A e \in E : e \in Nat
  OBVIOUS
<1>1. \A i \in 1..Cardinality(E) : Nth(E, i) \in E /\ Rank(E, Nth(E, i)) = i
  BY Ranks DEF Nth
<1>2. ASSUME NEW e \in E, NEW f \in E, Rank(E, e) = Rank(E, f) PROVE e = f
  <2>1. /\ Cardinality(E) \in Nat
        /\ Rank(E, e) \in 1..Cardinality(E) /\ Rank(E, f) \in 1..Cardinality(E)
        /\ e < f => Rank(E, e) < Rank(E, f)
        /\ f < e => Rank(E, f) < Rank(E, e)
    BY Ranks
  <2>2. ~(e < f) /\ ~(f < e)
    BY <1>2, <2>1
  <2> QED
    BY <1>0, <2>2
<1>3. ASSUME NEW e \in E PROVE Nth(E, Rank(E, e)) = e
  <2>1. Nth(E, Rank(E, e)) \in E /\ Rank(E, Nth(E, Rank(E, e))) = Rank(E, e)
    BY DEF Nth
  <2> QED
    BY <1>2, <2>1
<1>4. ASSUME NEW i \in 1..Cardinality(E), NEW j \in 1..Cardinality(E), i < j
      PROVE  Nth(E, i) < Nth(E, j)
  <2>1. Nth(E, i) \in E /\ Nth(E, j) \in E /\ Rank(E, Nth(E, i)) = i /\ Rank(E, Nth(E, j)) = j
    BY <1>1
  <2>2. Nth(E, j) < Nth(E, i) => j < i
    BY <2>1, Ranks
  <2>3. i \in Int /\ j \in Int /\ ~(j < i) /\ i # j
    BY <1>4, Ranks
  <2>4. Nth(E, j) # Nth(E, i) /\ ~(Nth(E, j) < Nth(E, i))
    BY <2>1, <2>2, <2>3
  <2>5. Nth(E, i) \in Nat /\ Nth(E, j) \in Nat
    BY <1>0, <2>1
  <2> QED
    BY <2>4, <2>5
<1> QED
  BY <1>1, <1>3, <1>4

(* At, by the members counted. *)
LEMMA AtNth == ASSUME NEW s, NEW E PROVE At(s, E) = [n \in 1..Cardinality(E) |-> s[Nth(E, n)]]
  BY DEF At, Nth, Rank

(* Two sets of places that an ascending function maps to one another are counted alike. *)
LEMMA CountedAlike ==
  ASSUME NEW n \in Nat, NEW F \in SUBSET (1..n), NEW m \in Nat, NEW G \in SUBSET (1..m),
         NEW f \in [F -> G], G = {f[k] : k \in F},
         \A j, k \in F : j < k => f[j] < f[k]
  PROVE  /\ Cardinality(G) = Cardinality(F)
         /\ \A i \in 1..Cardinality(F) : Nth(G, i) = f[Nth(F, i)]
<1>0. (\A k \in F : k \in Nat) /\ (\A k \in G : k \in Nat)
  OBVIOUS
<1>1. \A j, k \in F : f[j] = f[k] => j = k
  <2> SUFFICES ASSUME NEW j \in F, NEW k \in F, f[j] = f[k] PROVE j = k
    OBVIOUS
  <2>1. ~(j < k) /\ ~(k < j)
    <3>1. f[j] \in Nat /\ f[k] \in Nat
      BY <1>0
    <3> QED
      BY <3>1
  <2> QED
    BY <1>0, <2>1
<1>2. ASSUME NEW e \in F PROVE Rank(G, f[e]) = Rank(F, e)
  <2> DEFINE A == {x \in F : x <= e}
             B == {x \in G : x <= f[e]}
             g == [x \in A |-> f[x]]
  <2>1. ASSUME NEW x \in F PROVE x <= e <=> f[x] <= f[e]
    <3>1. x \in Nat /\ e \in Nat /\ f[x] \in Nat /\ f[e] \in Nat
      BY <1>0
    <3>2. x < e => f[x] < f[e]
      OBVIOUS
    <3>3. e < x => f[e] < f[x]
      OBVIOUS
    <3> QED
      BY <3>1, <3>2, <3>3
  <2>2. \A x \in A : g[x] \in B
    BY <2>1
  <2>3. \A y \in B : \E x \in A : g[x] = y
    BY <2>1
  <2>4. \A x, y \in A : g[x] = g[y] => x = y
    BY <1>1
  <2>5. IsFiniteSet(A)
    BY Ranks, FS_Subset
  <2>6. g \in Bijection(A, B)
    <3> HIDE DEF A, B
    <3>1. g \in [A -> B]
      BY <2>2
    <3> QED
      BY <2>3, <2>4, <3>1 DEF Bijection, Injection, Surjection, IsInjective
  <2>7. Cardinality(A) = Cardinality(B)
    <3> HIDE DEF A, B, g
    <3>1. ExistsBijection(A, B)
      BY <2>6 DEF ExistsBijection
    <3> QED
      BY <2>5, <3>1, FS_Bijection
  <2> QED
    BY <2>7 DEF Rank
<1>3. f \in Bijection(F, G)
  BY <1>1 DEF Bijection, Injection, Surjection, IsInjective
<1>4. Cardinality(G) = Cardinality(F)
  <2>1. IsFiniteSet(F)
    BY Ranks
  <2>2. ExistsBijection(F, G)
    BY <1>3 DEF ExistsBijection
  <2> QED
    BY <2>1, <2>2, FS_Bijection
<1>5. ASSUME NEW i \in 1..Cardinality(F) PROVE Nth(G, i) = f[Nth(F, i)]
  <2>1. Nth(F, i) \in F /\ Rank(F, Nth(F, i)) = i
    BY NthFacts
  <2>2. f[Nth(F, i)] \in G /\ Rank(G, f[Nth(F, i)]) = i
    BY <1>2, <2>1
  <2>3. \A e \in G : Nth(G, Rank(G, e)) = e
    BY NthFacts
  <2> QED
    BY <2>2, <2>3
<1> QED
  BY <1>4, <1>5

(* The first and the last member of a set of places. *)
LEMMA Ends ==
  ASSUME NEW n \in Nat, NEW E \in SUBSET (1..n), E # {}
  PROVE  /\ Cardinality(E) \in Nat /\ Cardinality(E) >= 1
         /\ Nth(E, 1) \in E /\ Nth(E, Cardinality(E)) \in E
         /\ \A e \in E : Nth(E, 1) <= e /\ e <= Nth(E, Cardinality(E))
<1> DEFINE c == Cardinality(E)
<1>0. c \in Nat /\ \A e \in E : e \in Nat /\ Rank(E, e) \in 1..c
  <2>1. \A e \in E : e \in Nat
    OBVIOUS
  <2>2. c \in Nat /\ \A e \in E : Rank(E, e) \in 1..c
    BY Ranks
  <2> QED
    BY <2>1, <2>2
<1>1. c >= 1
  <2>1. PICK e \in E : TRUE
    OBVIOUS
  <2>2. Rank(E, e) \in 1..c
    BY <1>0
  <2> HIDE DEF c
  <2> QED
    BY <1>0, <2>2
<1>2. 1 \in 1..c /\ c \in 1..c
  BY <1>0, <1>1
<1>3. Nth(E, 1) \in E /\ Nth(E, c) \in E
  BY <1>2, NthFacts
<1>4. ASSUME NEW e \in E PROVE Nth(E, 1) <= e /\ e <= Nth(E, c)
  <2> DEFINE r == Rank(E, e)
  <2>1. r \in 1..c /\ Nth(E, r) = e
    BY <1>0, NthFacts
  <2>2. /\ 1 < r => Nth(E, 1) < Nth(E, r)
        /\ r < c => Nth(E, r) < Nth(E, c)
    BY <1>2, <2>1, NthFacts
  <2>3. Nth(E, 1) \in Nat /\ Nth(E, c) \in Nat /\ e \in Nat
    BY <1>0, <1>3
  <2> HIDE DEF r, c
  <2>4. (1 < r \/ r = 1) /\ (r < c \/ r = c)
    BY <1>0, <2>1
  <2>5. Nth(E, 1) <= e
    BY <2>1, <2>2, <2>3, <2>4
  <2>6. e <= Nth(E, c)
    BY <2>1, <2>2, <2>3, <2>4
  <2> QED
    BY <2>5, <2>6 DEF c
<1> QED
  BY <1>0, <1>1, <1>3, <1>4

(* Nothing is left of nothing. *)
LEMMA TrimmedEmpty == ASSUME NEW blank PROVE Trimmed(<<>>, blank) = <<>>
<1>1. {k \in DOMAIN <<>> : <<>>[k] # blank} = {}
  OBVIOUS
<1> QED
  BY <1>1 DEF Trimmed

(* What is left of a sequence trimmed is what lies between the first and the last element
   that is no blank. *)
LEMMA TrimmedSpan ==
  ASSUME NEW S, NEW l \in Seq(S), NEW blank
  PROVE  LET kept == {k \in DOMAIN l : l[k] # blank}
         IN  /\ kept = {} => Trimmed(l, blank) = <<>>
             /\ kept # {} => \E lo \in kept, hi \in kept :
                               /\ \A k \in kept : lo <= k /\ k <= hi
                               /\ Trimmed(l, blank) = SubSeq(l, lo, hi)
<1> DEFINE kept == {k \in DOMAIN l : l[k] # blank}
<1>0. Len(l) \in Nat /\ DOMAIN l = 1..Len(l)
  OBVIOUS
<1>1. kept \in SUBSET (1..Len(l))
  BY <1>0
<1>2. kept = {} => Trimmed(l, blank) = <<>>
  BY DEF Trimmed
<1>3. ASSUME kept # {}
      PROVE  \E lo \in kept, hi \in kept :
               /\ \A k \in kept : lo <= k /\ k <= hi
               /\ Trimmed(l, blank) = SubSeq(l, lo, hi)
  <2> DEFINE lo == Nth(kept, 1)
             hi == Nth(kept, Cardinality(kept))
  <2>0. Trimmed(l, blank) = SubSeq(l, Min(kept), Max(kept))
    BY <1>3 DEF Trimmed
  <2> HIDE DEF kept
  <2>1. lo \in kept /\ hi \in kept /\ \A k \in kept : lo <= k /\ k <= hi
    BY <1>0, <1>1, <1>3, Ends
  <2>2. \A k \in kept : k \in Nat
    BY <1>0, <1>1
  <2> HIDE DEF lo, hi
  <2>3. Min(kept) = lo /\ Max(kept) = hi
    <3>1. \A x \in kept : (\A y \in kept : x <= y) => x = lo
      BY <2>1, <2>2
    <3>2. \A x \in kept : (\A y \in kept : x >= y) => x = hi
      BY <2>1, <2>2
    <3>3. \A y \in kept : hi >= y
      BY <2>1, <2>2
    <3> QED
      BY <2>1, <3>1, <3>2, <3>3 DEF Min, Max
  <2> QED
    BY <2>0, <2>1, <2>3
<1> QED
  BY <1>2, <1>3

(* A sequence trimmed is a sequence, and empty only if it has nothing but blanks; trimmed
   again it is empty only if it was. *)
LEMMA TrimmedFacts ==
  ASSUME NEW S, NEW l \in Seq(S), NEW blank
  PROVE  /\ Trimmed(l, blank) \in Seq(S)
         /\ Trimmed(l, blank) = <<>> <=> \A k \in DOMAIN l : l[k] = blank
         /\ Trimmed(Trimmed(l, blank), blank) = <<>> <=> Trimmed(l, blank) = <<>>
<1> DEFINE Rest(s) == {k \in DOMAIN s : s[k] # blank}
<1>1. ASSUME NEW s \in Seq(S)
      PROVE  /\ Trimmed(s, blank) \in Seq(S)
             /\ Rest(s) = {} => Trimmed(s, blank) = <<>>
             /\ Rest(s) # {} => Trimmed(s, blank) # <<>> /\ Rest(Trimmed(s, blank)) # {}
  <2>0. Len(s) \in Nat /\ DOMAIN s = 1..Len(s)
    OBVIOUS
  <2>1. CASE Rest(s) = {}
    <3>1. Trimmed(s, blank) = <<>>
      BY <2>1, TrimmedSpan
    <3> QED
      BY <2>1, <3>1
  <2>2. CASE Rest(s) # {}
    <3>1. PICK lo \in Rest(s), hi \in Rest(s) :
             lo <= hi /\ Trimmed(s, blank) = SubSeq(s, lo, hi)
      BY <2>2, TrimmedSpan
    <3>2. lo \in 1..Len(s) /\ hi \in 1..Len(s) /\ s[lo] # blank
      BY <2>0, <3>1
    <3> DEFINE t == SubSeq(s, lo, hi)
    <3>3. t = [j \in 1..(1 + hi - lo) |-> s[j + lo - 1]]
      BY <2>0, <3>2
    <3>4. 1 + hi - lo \in Nat /\ 1 + hi - lo >= 1 /\ 1 \in 1..(1 + hi - lo) /\ 1 + lo - 1 = lo
      BY <2>0, <3>1, <3>2
    <3>5. \A j \in 1..(1 + hi - lo) : j + lo - 1 \in DOMAIN s
      BY <2>0, <3>1, <3>2
    <3>6. t \in Seq(S)
      <4>1. \A j \in 1..(1 + hi - lo) : s[j + lo - 1] \in S
        BY <3>5, ElementOf
      <4> HIDE DEF t
      <4>2. PICK m \in Nat : m = 1 + hi - lo
        BY <3>4
      <4>3. t = [j \in 1..m |-> s[j + lo - 1]] /\ \A j \in 1..m : s[j + lo - 1] \in S
        BY <3>3, <4>1, <4>2
      <4> QED
        BY <4>3
    <3> HIDE DEF t
    <3>7. 1 \in DOMAIN t /\ t[1] = s[lo]
      BY <3>3, <3>4
    <3>8. t # <<>>
      BY <3>7
    <3> QED
      BY <2>2, <3>1, <3>2, <3>6, <3>7, <3>8 DEF t
  <2> QED
    BY <2>1, <2>2
<1> QED
  BY <1>1

-------------------------------------------------------------------------------
(* The paragraphs of a text. *)

(* A line without the blanks at its ends. *)
Line(text, k) == Trimmed(text[k], "sp")

FullLines(text) == {k \in DOMAIN text : Line(text, k) # <<>>}

(* The lines that are not blank behind another blank line. *)
Lasting(text) == {k \in DOMAIN text : Line(text, k) = <<>> => k = 1 \/ Line(text, k - 1) # <<>>}

(* The members of E that the next member follows at once. *)
Joined(E) == {i \in 1..(Cardinality(E) - 1) : Nth(E, i + 1) = Nth(E, i) + 1}

(* Between two full lines, one after the other, at most one blank line lasts. *)
LEMMA OneBlank ==
  ASSUME NEW X, NEW text \in Seq(Seq(X)), NEW j \in FullLines(text), NEW k \in FullLines(text), j < k,
         \A x \in FullLines(text) : ~(j < x /\ x < k)
  PROVE  Rank(Lasting(text), k) = Rank(Lasting(text), j) + (IF k = j + 1 THEN 1 ELSE 2)
<1> DEFINE n == Len(text)
           S == Lasting(text)
           A == {x \in S : x <= j}
           B == {x \in S : x <= k}
<1>1. n \in Nat /\ DOMAIN text = 1..n
  OBVIOUS
<1>2. S \in SUBSET (1..n) /\ IsFiniteSet(S) /\ \A x \in S : x \in Nat
  <2>1. S \in SUBSET (1..n)
    BY <1>1 DEF Lasting
  <2> HIDE DEF S, n
  <2>2. IsFiniteSet(S)
    BY <1>1, <2>1, Ranks
  <2> QED
    BY <1>1, <2>1, <2>2
<1>3. j \in 1..n /\ k \in 1..n /\ k \in S /\ j \in S
  BY <1>1 DEF FullLines, Lasting
<1> HIDE DEF n
<1>4. IsFiniteSet(A) /\ Cardinality(A) \in Nat
  <2>1. A \in SUBSET S
    OBVIOUS
  <2> HIDE DEF A, S
  <2> QED
    BY <1>2, <2>1, FS_Subset, FS_CardinalityType
<1>5. CASE k = j + 1
  <2>1. B = A \union {k}
    <3>1. \A x \in S : x <= k <=> (x <= j \/ x = k)
      BY <1>1, <1>2, <1>3, <1>5
    <3> HIDE DEF S
    <3> QED
      BY <1>3, <3>1
  <2>2. k \notin A
    BY <1>1, <1>3
  <2>3. Cardinality(A \union {k}) = Cardinality(A) + 1
    <3> HIDE DEF A
    <3> QED
      BY <1>4, <2>2, FS_AddElement
  <2> QED
    BY <1>5, <2>1, <2>3 DEF Rank
<1>6. CASE k # j + 1
  <2>0. j \in Nat /\ k \in Nat /\ j + 1 \in 1..n /\ j + 1 < k
    BY <1>1, <1>3, <1>6
  <2>1. j + 1 \in S
    <3>1. j + 1 \in DOMAIN text /\ (j + 1) - 1 = j /\ Line(text, j) # <<>>
      BY <1>1, <2>0 DEF FullLines, n
    <3> QED
      BY <3>1 DEF Lasting
  <2>2. ASSUME NEW x \in S, j + 1 < x, x < k PROVE FALSE
    <3>1. x \in Nat /\ x - 1 \in Nat /\ x \in DOMAIN text /\ x - 1 \in DOMAIN text /\ x # 1
      BY <1>1, <1>2, <1>3, <2>0, <2>2 DEF n
    <3>2. j < x /\ j < x - 1 /\ x - 1 < k
      BY <2>0, <2>2, <3>1
    <3>3. x \notin FullLines(text) /\ x - 1 \notin FullLines(text)
      BY <2>2, <3>2
    <3>4. Line(text, x) = <<>> /\ Line(text, x - 1) = <<>>
      BY <3>1, <3>3 DEF FullLines
    <3> QED
      BY <2>2, <3>1, <3>4 DEF Lasting
  <2>3. B = (A \union {j + 1}) \union {k}
    <3>1. \A x \in S : x <= k <=> (x <= j \/ x = j + 1 \/ x = k)
      <4>1. \A x \in S : x <= k => x <= j \/ x = j + 1 \/ x = k
        BY <1>2, <2>0, <2>2
      <4>2. \A x \in S : x <= j \/ x = j + 1 \/ x = k => x <= k
        BY <1>2, <2>0
      <4> QED
        BY <4>1, <4>2
    <3> HIDE DEF S
    <3> QED
      BY <1>3, <2>1, <3>1
  <2>4. j + 1 \notin A /\ k \notin A \union {j + 1}
    BY <2>0
  <2>5. Cardinality((A \union {j + 1}) \union {k}) = Cardinality(A) + 2
    <3> HIDE DEF A
    <3>1. IsFiniteSet(A \union {j + 1}) /\ Cardinality(A \union {j + 1}) = Cardinality(A) + 1
      BY <1>4, <2>4, FS_AddElement
    <3>2. Cardinality((A \union {j + 1}) \union {k}) = Cardinality(A \union {j + 1}) + 1
      BY <2>4, <3>1, FS_AddElement
    <3> QED
      BY <1>4, <3>1, <3>2
  <2> QED
    BY <1>6, <2>3, <2>5 DEF Rank
<1> QED
  BY <1>5, <1>6

(* No member lies between two that are counted one after the other. *)
LEMMA NoneBetween ==
  ASSUME NEW n \in Nat, NEW E \in SUBSET (1..n), NEW i \in 1..Cardinality(E), i + 1 \in 1..Cardinality(E)
  PROVE  /\ Nth(E, i) \in E /\ Nth(E, i + 1) \in E /\ Nth(E, i) < Nth(E, i + 1)
         /\ \A x \in E : ~(Nth(E, i) < x /\ x < Nth(E, i + 1))
<1>0. Cardinality(E) \in Nat
  BY Ranks
<1>1. Nth(E, i) \in E /\ Nth(E, i + 1) \in E /\ Rank(E, Nth(E, i)) = i /\ Rank(E, Nth(E, i + 1)) = i + 1
  BY NthFacts
<1>2. Nth(E, i) < Nth(E, i + 1)
  <2>1. i < i + 1
    BY <1>0
  <2> QED
    BY <2>1, NthFacts
<1>3. ASSUME NEW x \in E, Nth(E, i) < x, x < Nth(E, i + 1) PROVE FALSE
  <2>1. i < Rank(E, x) /\ Rank(E, x) < i + 1 /\ Rank(E, x) \in Nat
    <3>1. Rank(E, x) \in Nat
      BY Ranks
    <3>2. Rank(E, Nth(E, i)) < Rank(E, x)
      BY <1>1, <1>3, Ranks
    <3>3. Rank(E, x) < Rank(E, Nth(E, i + 1))
      BY <1>1, <1>3, Ranks
    <3> QED
      BY <1>1, <3>1, <3>2, <3>3
  <2> QED
    BY <1>0, <2>1
<1> QED
  BY <1>1, <1>2, <1>3

(* A count from 1 that grows by 1 at the members of a set J and by 2 elsewhere. *)
LEMMA Counting ==
  ASSUME NEW c \in Nat, c >= 1, NEW J \in SUBSET (1..(c - 1)), NEW g \in [1..c -> Nat], g[1] = 1,
         \A i \in 1..(c - 1) : g[i + 1] = g[i] + (IF i \in J THEN 1 ELSE 2)
  PROVE  g[c] = 2 * c - 1 - Cardinality(J)
<1> DEFINE Behind(i) == {x \in J : x < i}
           right(i) == g[i] = 2 * i - 1 - Cardinality(Behind(i))
           bad == {i \in 1..c : ~right(i)}
<1>0. \A x \in J : x \in Nat /\ x >= 1 /\ x <= c - 1
  OBVIOUS
<1>1. \A i \in 1..c : IsFiniteSet(Behind(i)) /\ Cardinality(Behind(i)) \in Nat
  <2>1. IsFiniteSet(J)
    <3>1. c - 1 \in Nat
      OBVIOUS
    <3> QED
      BY <3>1, Ranks
  <2> QED
    BY <2>1, FS_Subset, FS_CardinalityType
<1>2. right(1)
  <2>1. Behind(1) = {}
    <3>1. \A x \in J : ~(x < 1)
      BY <1>0
    <3> QED
      BY <3>1
  <2>2. Cardinality(Behind(1)) = 0
    BY <2>1, FS_EmptySet
  <2> QED
    BY <2>2
<1>3. ASSUME NEW i \in 1..(c - 1), right(i) PROVE right(i + 1)
  <2>0. i \in 1..c /\ i \in Nat /\ g[i] \in Nat
    OBVIOUS
  <2>1. CASE i \in J
    <3>1. Behind(i + 1) = Behind(i) \union {i}
      <4>1. \A x \in J : x < i + 1 <=> (x < i \/ x = i)
        BY <1>0, <2>0
      <4> QED
        BY <2>1, <4>1
    <3>2. i \notin Behind(i)
      BY <2>0
    <3> HIDE DEF Behind
    <3>3. Cardinality(Behind(i + 1)) = Cardinality(Behind(i)) + 1
      BY <1>1, <2>0, <3>1, <3>2, FS_AddElement
    <3>4. g[i + 1] = g[i] + 1
      BY <2>1
    <3> QED
      BY <1>1, <1>3, <2>0, <3>3, <3>4
  <2>2. CASE i \notin J
    <3>1. Behind(i + 1) = Behind(i)
      <4>1. \A x \in J : x < i + 1 <=> x < i
        BY <1>0, <2>0, <2>2
      <4> QED
        BY <4>1
    <3>2. g[i + 1] = g[i] + 2
      BY <2>2
    <3> HIDE DEF Behind
    <3> QED
      BY <1>1, <1>3, <2>0, <3>1, <3>2
  <2> QED
    BY <2>1, <2>2
<1>4. bad = {}
  <2> SUFFICES ASSUME bad # {} PROVE FALSE
    OBVIOUS
  <2>1. PICK x \in bad : \A y \in bad : x <= y
    <3>1. bad \in SUBSET Nat
      OBVIOUS
    <3> HIDE DEF bad
    <3> QED
      BY <3>1, Least
  <2>2. x \in 1..c /\ ~right(x)
    BY <2>1
  <2> HIDE DEF right
  <2>3. x # 1
    BY <1>2, <2>2
  <2>4. x - 1 \in 1..(c - 1) /\ x - 1 \in 1..c /\ (x - 1) + 1 = x /\ ~(x <= x - 1)
    BY <2>2, <2>3
  <2>5. right(x - 1)
    BY <2>1, <2>4
  <2>6. right((x - 1) + 1)
    BY <1>3, <2>4, <2>5
  <2> QED
    BY <2>2, <2>4, <2>6
<1>5. right(c)
  <2>1. c \in 1..c
    OBVIOUS
  <2> HIDE DEF right
  <2> QED
    BY <1>4, <2>1
<1>6. Behind(c) = J
  <2>1. \A x \in J : x < c
    BY <1>0
  <2> QED
    BY <2>1
<1> QED
  BY <1>5, <1>6

(* A place between two others, counted from the first of them. *)
LEMMA Shifted ==
  ASSUME NEW lo \in Nat \ {0}, NEW hi \in Nat, NEW r \in Nat, lo <= r, r <= hi
  PROVE  r - (lo - 1) \in 1..(hi - (lo - 1)) /\ r - (lo - 1) + (lo - 1) = r
  OBVIOUS

(* A stretch of a sequence. *)
LEMMA StretchOf ==
  ASSUME NEW T, NEW s \in Seq(T), NEW a \in 1..Len(s), NEW b \in 1..Len(s), a <= b
  PROVE  /\ SubSeq(s, a, b) \in Seq(T)
         /\ Len(SubSeq(s, a, b)) = b - a + 1 /\ Len(SubSeq(s, a, b)) \in Nat
         /\ \A j \in 1..Len(SubSeq(s, a, b)) :
              j + a - 1 \in 1..Len(s) /\ SubSeq(s, a, b)[j] = s[j + a - 1]
<1> DEFINE t == SubSeq(s, a, b)
<1>0. Len(s) \in Nat /\ DOMAIN s = 1..Len(s)
  OBVIOUS
<1>1. t = [j \in 1..(1 + b - a) |-> s[j + a - 1]]
  BY <1>0
<1>2. PICK m \in Nat : m = 1 + b - a
  BY <1>0
<1>3. m = b - a + 1 /\ \A j \in 1..m : j + a - 1 \in 1..Len(s)
  BY <1>0, <1>2
<1>4. \A j \in 1..m : s[j + a - 1] \in T
  BY <1>0, <1>3, ElementOf
<1> HIDE DEF t
<1>5. t = [j \in 1..m |-> s[j + a - 1]]
  BY <1>1, <1>2
<1>6. t \in Seq(T) /\ Len(t) = m /\ \A j \in 1..m : t[j] = s[j + a - 1]
  BY <1>4, <1>5
<1> QED
  BY <1>2, <1>3, <1>6 DEF t

(* Where the full lines of a text are in out, which starts behind the first off of the
   lines that last. *)
Places(text, off) == [k \in FullLines(text) |-> Rank(Lasting(text), k) - off]

(* A line that is full lasts. *)
LEMMA LinesOf ==
  ASSUME NEW X, NEW text \in Seq(Seq(X))
  PROVE  /\ Len(text) \in Nat /\ DOMAIN text = 1..Len(text)
         /\ Lasting(text) \in SUBSET (1..Len(text)) /\ FullLines(text) \in SUBSET Lasting(text)
         /\ FullLines(text) \in SUBSET (1..Len(text))
         /\ \A k \in DOMAIN text : Line(text, k) \in Seq(X)
<1>1. Len(text) \in Nat /\ DOMAIN text = 1..Len(text)
  OBVIOUS
<1>2. \A k \in DOMAIN text : text[k] \in Seq(X)
  BY ElementOf
<1>3. \A k \in DOMAIN text : Line(text, k) \in Seq(X)
  BY <1>2, TrimmedFacts DEF Line
<1> QED
  BY <1>1, <1>3 DEF Lasting, FullLines

(* What NormalizeWhitespace makes of a text: from its first full line to its last, the lines
   that last. *)
LEMMA Normalized ==
  ASSUME NEW X, NEW text \in Seq(Seq(X))
  PROVE  LET F == FullLines(text)
             out == NormalizeWhitespace(text)
         IN  /\ F = {} => out = <<>>
             /\ F # {} => \E off \in Nat :
                  LET at == Places(text, off)
                  IN  /\ out \in Seq(Seq(X)) /\ at \in [F -> 1..Len(out)]
                      /\ \E k \in F : at[k] = 1
                      /\ \E k \in F : at[k] = Len(out)
                      /\ \A k \in F : out[at[k]] = Line(text, k)
                      /\ \A j \in 1..Len(out) : out[j] # <<>> => \E k \in F : at[k] = j
<1> DEFINE n == Len(text)
           F == FullLines(text)
           S == Lasting(text)
           c == Cardinality(S)
           trimmed == [k \in DOMAIN text |-> Line(text, k)]
           mid == At(trimmed, S)
           kept == {j \in DOMAIN mid : mid[j] # <<>>}
<1>1. n \in Nat /\ DOMAIN text = 1..n /\ S \in SUBSET (1..n) /\ F \in SUBSET S /\ c \in Nat
  BY LinesOf, Ranks
<1>2. NormalizeWhitespace(text) = Trimmed(mid, <<>>)
  <2>1. {k \in DOMAIN text : trimmed[k] = <<>> => k = 1 \/ trimmed[k - 1] # <<>>} = S
    <3>1. ASSUME NEW k \in DOMAIN text
          PROVE  (trimmed[k] = <<>> => k = 1 \/ trimmed[k - 1] # <<>>)
                   <=> (Line(text, k) = <<>> => k = 1 \/ Line(text, k - 1) # <<>>)
      <4>1. CASE k = 1
        BY <4>1
      <4>2. CASE k # 1
        <5>1. k - 1 \in DOMAIN text
          BY <1>1, <4>2
        <5> QED
          BY <5>1
      <4> QED
        BY <4>1, <4>2
    <3> QED
      BY <3>1 DEF Lasting
  <2> QED
    BY <2>1 DEF NormalizeWhitespace, Line
<1>3. mid = [j \in 1..c |-> Line(text, Nth(S, j))] /\ \A j \in 1..c : Nth(S, j) \in S /\ Nth(S, j) \in DOMAIN text
  <2>1. \A j \in 1..c : Nth(S, j) \in S /\ Nth(S, j) \in DOMAIN text
    BY <1>1, NthFacts
  <2>2. mid = [j \in 1..c |-> trimmed[Nth(S, j)]]
    BY AtNth
  <2> HIDE DEF mid
  <2> QED
    BY <2>1, <2>2
<1>4. mid \in Seq(Seq(X)) /\ DOMAIN mid = 1..c /\ Len(mid) = c
  <2>1. \A j \in 1..c : Line(text, Nth(S, j)) \in Seq(X)
    BY <1>3, LinesOf
  <2> HIDE DEF mid, S, c
  <2> QED
    BY <1>1, <1>3, <2>1
<1>5. \A k \in F : Rank(S, k) \in 1..c /\ Nth(S, Rank(S, k)) = k /\ Rank(S, k) \in kept
  <2>1. \A k \in F : Rank(S, k) \in 1..c /\ Nth(S, Rank(S, k)) = k
    BY <1>1, Ranks, NthFacts
  <2>2. ASSUME NEW k \in F PROVE mid[Rank(S, k)] # <<>>
    <3>1. mid[Rank(S, k)] = Line(text, k)
      BY <1>3, <2>1
    <3> QED
      BY <3>1 DEF FullLines
  <2> HIDE DEF mid
  <2> QED
    BY <1>4, <2>1, <2>2
<1>6. ASSUME NEW j \in kept PROVE Nth(S, j) \in F /\ Rank(S, Nth(S, j)) = j /\ j \in 1..c
  <2>1. j \in 1..c /\ Line(text, Nth(S, j)) # <<>>
    BY <1>3, <1>4
  <2>2. Nth(S, j) \in F
    BY <1>3, <2>1 DEF FullLines
  <2> QED
    BY <1>1, <2>1, <2>2, NthFacts
<1>7. CASE F = {}
  <2>1. kept = {}
    BY <1>6, <1>7
  <2> HIDE DEF mid
  <2>2. Trimmed(mid, <<>>) = <<>>
    BY <1>4, <2>1, TrimmedSpan
  <2> QED
    BY <1>2, <1>7, <2>2
<1>8. CASE F # {}
  <2>0. kept # {}
    BY <1>5, <1>8
  <2>1. PICK lo \in kept, hi \in kept :
           /\ \A k \in kept : lo <= k /\ k <= hi
           /\ Trimmed(mid, <<>>) = SubSeq(mid, lo, hi)
    <3> HIDE DEF mid
    <3> QED
      BY <1>4, <2>0, TrimmedSpan
  <2> DEFINE off == lo - 1
             at == Places(text, off)
             out == SubSeq(mid, lo, hi)
  <2>2. lo \in 1..c /\ hi \in 1..c /\ lo <= hi /\ off \in Nat
    BY <1>1, <1>6, <2>1
  <2>3. /\ out \in Seq(Seq(X)) /\ Len(out) = hi - off /\ Len(out) \in Nat
        /\ \A j \in 1..Len(out) : j + off \in 1..c /\ out[j] = mid[j + off]
    <3> HIDE DEF mid
    <3>1. /\ out \in Seq(Seq(X)) /\ Len(out) = hi - lo + 1 /\ Len(out) \in Nat
          /\ \A j \in 1..Len(out) : j + lo - 1 \in 1..c /\ out[j] = mid[j + lo - 1]
      <4>1. lo \in 1..Len(mid) /\ hi \in 1..Len(mid)
        BY <1>4, <2>2
      <4> HIDE DEF c
      <4> QED
        BY <1>4, <2>2, <4>1, StretchOf
    <3> HIDE DEF out
    <3>2. hi - lo + 1 = hi - off /\ \A j \in 1..Len(out) : j + lo - 1 = j + off
      BY <1>1, <2>2, <3>1
    <3> QED
      BY <3>1, <3>2
  <2> HIDE DEF mid, out, off
  <2>4. ASSUME NEW k \in F
        PROVE  at[k] = Rank(S, k) - off /\ at[k] \in 1..Len(out) /\ at[k] + off = Rank(S, k)
    <3>1. at[k] = Rank(S, k) - off
      BY DEF Places
    <3>2. lo <= Rank(S, k) /\ Rank(S, k) <= hi /\ Rank(S, k) \in 1..c
      BY <1>5, <2>1
    <3> HIDE DEF at, S, c
    <3>3. lo \in Nat \ {0} /\ hi \in Nat /\ \A r \in 1..c : r \in Nat
      BY <1>1, <2>2
    <3>4. \A r \in 1..c : lo <= r /\ r <= hi => r - off \in 1..(hi - off) /\ r - off + off = r
      BY <3>3, Shifted DEF off
    <3> QED
      BY <2>3, <3>1, <3>2, <3>4
  <2>5. ASSUME NEW k \in F PROVE out[at[k]] = Line(text, k)
    <3>1. out[at[k]] = mid[Rank(S, k)]
      BY <2>3, <2>4
    <3>2. mid[Rank(S, k)] = Line(text, k)
      BY <1>3, <1>5
    <3> QED
      BY <3>1, <3>2
  <2>6. ASSUME NEW j \in 1..Len(out), out[j] # <<>> PROVE \E k \in F : at[k] = j
    <3>1. j + off \in kept
      BY <1>4, <2>3, <2>6
    <3>2. PICK k \in F : Rank(S, k) = j + off
      BY <1>6, <3>1
    <3>3. at[k] = Rank(S, k) - off
      BY <2>4
    <3>4. \A x \in 1..Len(out) : x + off - off = x
      BY <2>2, <2>3
    <3> HIDE DEF S, at
    <3>5. at[k] = j
      BY <2>2, <2>3, <3>2, <3>3, <3>4
    <3> QED
      BY <3>5
  <2>7. PICK k \in F, m \in F : Rank(S, k) = lo /\ Rank(S, m) = hi
    BY <1>6, <2>1
  <2>8. at[k] = 1 /\ at[m] = Len(out)
    <3>1. at[k] = lo - off /\ at[m] = hi - off
      BY <2>4, <2>7
    <3> QED
      BY <1>1, <2>2, <2>3, <3>1 DEF off
  <2>9. at \in [F -> 1..Len(out)]
    <3>1. at = [x \in F |-> at[x]]
      BY DEF Places
    <3> HIDE DEF at
    <3> QED
      BY <2>4, <3>1
  <2>10. NormalizeWhitespace(text) = out
    BY <1>2, <2>1 DEF out
  <2> QED
    BY <1>8, <2>2, <2>3, <2>5, <2>6, <2>8, <2>9, <2>10
<1> QED
  BY <1>7, <1>8

(* The places counted, as SameParagraphs has them. *)
LEMMA JoinedOf ==
  ASSUME NEW X, NEW t \in Seq(Seq(X))
  PROVE  LET at == At([k \in DOMAIN t |-> k], FullLines(t))
         IN  {n \in 1..(Len(at) - 1) : at[n + 1] = at[n] + 1} = Joined(FullLines(t))
<1> DEFINE E == FullLines(t)
           c == Cardinality(E)
           at == At([k \in DOMAIN t |-> k], E)
<1>1. Len(t) \in Nat /\ DOMAIN t = 1..Len(t) /\ E \in SUBSET (1..Len(t)) /\ c \in Nat
  BY LinesOf, Ranks
<1>2. \A i \in 1..c : Nth(E, i) \in E /\ Nth(E, i) \in DOMAIN t
  BY <1>1, NthFacts
<1>3. at = [i \in 1..c |-> [k \in DOMAIN t |-> k][Nth(E, i)]]
  BY AtNth
<1> HIDE DEF at
<1>4. at = [i \in 1..c |-> Nth(E, i)]
  BY <1>2, <1>3
<1>5. Len(at) = c
  BY <1>1, <1>4
<1>6. \A i \in 1..(c - 1) : i \in 1..c /\ i + 1 \in 1..c
  BY <1>1
<1>7. \A i \in 1..(c - 1) : at[i + 1] = Nth(E, i + 1) /\ at[i] = Nth(E, i)
  BY <1>4, <1>6
<1>8. {n \in 1..(Len(at) - 1) : at[n + 1] = at[n] + 1} = {i \in 1..(c - 1) : Nth(E, i + 1) = Nth(E, i) + 1}
  BY <1>5, <1>7
<1> QED
  BY <1>8 DEF Joined, at

(* What is to be shown of two texts, by their full lines. *)
LEMMA ParagraphsByPlace ==
  ASSUME NEW X, NEW text \in Seq(Seq(X)), NEW out \in Seq(Seq(X)),
         At(out, FullLines(out)) =
           [n \in 1..Cardinality(FullLines(text)) |-> Line(text, Nth(FullLines(text), n))],
         Joined(FullLines(out)) = Joined(FullLines(text)),
         out # <<>> => Len(out) = 2 * Cardinality(FullLines(out)) - 1 - Cardinality(Joined(FullLines(out)))
  PROVE  SameParagraphs(text, out)
<1> DEFINE F == FullLines(text)
           G == FullLines(out)
           full(t) == {k \in DOMAIN t : Trimmed(t[k], "sp") # <<>>}
           joined(t) == LET at == At([k \in DOMAIN t |-> k], full(t))
                        IN  {n \in 1..(Len(at) - 1) : at[n + 1] = at[n] + 1}
<1>1. full(text) = F /\ full(out) = G
  BY DEF FullLines, Line
<1>2. joined(text) = Joined(F) /\ joined(out) = Joined(G)
  <2> HIDE DEF full
  <2> QED
    BY <1>1, JoinedOf
<1>3. At(out, G) = [n \in DOMAIN At(text, F) |-> Trimmed(At(text, F)[n], "sp")]
  <2>1. At(text, F) = [n \in 1..Cardinality(F) |-> text[Nth(F, n)]]
    BY AtNth
  <2> DEFINE these == At(text, F)
  <2>2. DOMAIN these = 1..Cardinality(F) /\ \A n \in 1..Cardinality(F) : Trimmed(these[n], "sp") = Line(text, Nth(F, n))
    BY <2>1 DEF Line
  <2> HIDE DEF these
  <2>3. At(out, G) = [n \in DOMAIN these |-> Trimmed(these[n], "sp")]
    BY <2>2
  <2> QED
    BY <2>3 DEF these
<1> HIDE DEF full, joined, F, G
<1>4. /\ At(out, full(out)) = [n \in DOMAIN At(text, full(text)) |-> Trimmed(At(text, full(text))[n], "sp")]
      /\ joined(out) = joined(text)
      /\ out # <<>> => Len(out) = 2 * Cardinality(full(out)) - 1 - Cardinality(joined(out))
  BY <1>1, <1>2, <1>3 DEF F, G
<1> QED
  BY <1>4 DEF SameParagraphs, full, joined

(* A text of blank lines only leaves nothing. *)
LEMMA NothingFull ==
  ASSUME NEW X, NEW text \in Seq(Seq(X)), FullLines(text) = {}
  PROVE  NormalizeWhitespace(text) = <<>> /\ SameParagraphs(text, <<>>)
<1> DEFINE out == <<>>
<1>1. NormalizeWhitespace(text) = out
  BY Normalized
<1>2. out \in Seq(Seq(X)) /\ DOMAIN out = {}
  OBVIOUS
<1>3. FullLines(out) = {}
  BY <1>2 DEF FullLines
<1>4. 1..Cardinality({}) = {}
  BY FS_EmptySet
<1>5. At(out, {}) = [n \in 1..Cardinality({}) |-> Line(text, Nth({}, n))]
  <2>1. At(out, {}) = [n \in 1..Cardinality({}) |-> out[Nth({}, n)]]
    BY AtNth
  <2> QED
    BY <1>4, <2>1
<1> HIDE DEF out
<1>6. SameParagraphs(text, out)
  BY <1>2, <1>3, <1>5, ParagraphsByPlace DEF out
<1> QED
  BY <1>1, <1>6 DEF out

(* What is left of a text with words has its full lines, in order, one after the other
   if they were and with one blank line between them if they were not. *)
LEMMA FullKept ==
  ASSUME NEW X, NEW text \in Seq(Seq(X)), FullLines(text) # {}
  PROVE  LET out == NormalizeWhitespace(text)
         IN  /\ out \in Seq(Seq(X)) /\ out # <<>> /\ ~isBlankText(out)
             /\ SameParagraphs(text, out)
<1> DEFINE out == NormalizeWhitespace(text)
           F == FullLines(text)
           G == FullLines(out)
           c == Cardinality(F)
<1>1. PICK off \in Nat :
        LET at == Places(text, off)
        IN  /\ out \in Seq(Seq(X)) /\ at \in [F -> 1..Len(out)]
            /\ \E k \in F : at[k] = 1
            /\ \E k \in F : at[k] = Len(out)
            /\ \A k \in F : out[at[k]] = Line(text, k)
            /\ \A j \in 1..Len(out) : out[j] # <<>> => \E k \in F : at[k] = j
  BY Normalized
<1> DEFINE at == Places(text, off)
<1>2. /\ out \in Seq(Seq(X)) /\ at \in [F -> 1..Len(out)]
      /\ \E k \in F : at[k] = 1
      /\ \E k \in F : at[k] = Len(out)
      /\ \A k \in F : out[at[k]] = Line(text, k)
      /\ \A j \in 1..Len(out) : out[j] # <<>> => \E k \in F : at[k] = j
  BY <1>1
<1>3. /\ Len(text) \in Nat /\ F \in SUBSET (1..Len(text)) /\ F \in SUBSET Lasting(text)
      /\ Lasting(text) \in SUBSET (1..Len(text)) /\ c \in Nat
  BY LinesOf, Ranks
<1> HIDE DEF out
<1>4. Len(out) \in Nat /\ DOMAIN out = 1..Len(out) /\ G \in SUBSET (1..Len(out))
  BY <1>2, LinesOf
<1>5. G = {at[k] : k \in F}
  <2>1. ASSUME NEW k \in F PROVE at[k] \in G
    <3>1. Line(text, k) # <<>> /\ text[k] \in Seq(X)
      <4>1. k \in DOMAIN text /\ Line(text, k) # <<>>
        BY DEF FullLines
      <4> QED
        BY <4>1, ElementOf
    <3>2. Trimmed(Line(text, k), "sp") # <<>>
      BY <3>1, TrimmedFacts DEF Line
    <3>3. Line(out, at[k]) # <<>> /\ at[k] \in DOMAIN out
      BY <1>2, <1>4, <3>2 DEF Line
    <3> QED
      BY <3>3 DEF FullLines
  <2>2. ASSUME NEW j \in G PROVE \E k \in F : at[k] = j
    <3>1. j \in 1..Len(out) /\ Line(out, j) # <<>>
      BY <1>4 DEF FullLines
    <3>2. out[j] # <<>>
      BY <3>1, TrimmedEmpty DEF Line
    <3> QED
      BY <1>2, <3>1, <3>2
  <2> HIDE DEF at, G, F
  <2> QED
    BY <2>1, <2>2
<1>6. ASSUME NEW k \in F PROVE at[k] = Rank(Lasting(text), k) - off /\ Rank(Lasting(text), k) \in Nat
  <2>1. Rank(Lasting(text), k) \in 1..Cardinality(Lasting(text)) /\ Cardinality(Lasting(text)) \in Nat
    BY <1>3, Ranks
  <2> QED
    BY <2>1 DEF Places
<1>7. \A j, k \in F : j < k => at[j] < at[k]
  <2> SUFFICES ASSUME NEW j \in F, NEW k \in F, j < k PROVE at[j] < at[k]
    OBVIOUS
  <2>1. Rank(Lasting(text), j) < Rank(Lasting(text), k)
    BY <1>3, Ranks
  <2>2. \A a, b \in Nat : a < b => a - off < b - off
    OBVIOUS
  <2> QED
    BY <1>6, <2>1, <2>2
<1>8. at \in [F -> G]
  <2> HIDE DEF at, G, F
  <2> QED
    BY <1>2, <1>5
<1>9. Cardinality(G) = c /\ \A i \in 1..c : Nth(G, i) = at[Nth(F, i)] /\ Nth(F, i) \in F
  <2>1. \A i \in 1..c : Nth(F, i) \in F
    BY <1>3, NthFacts
  <2> HIDE DEF at, G, F
  <2>2. /\ Cardinality(G) = Cardinality(F)
        /\ \A i \in 1..Cardinality(F) : Nth(G, i) = at[Nth(F, i)]
    <3>1. Len(text) \in Nat /\ F \in SUBSET (1..Len(text))
      BY <1>3
    <3>2. Len(out) \in Nat /\ G \in SUBSET (1..Len(out))
      BY <1>4
    <3> QED
      BY <1>5, <1>7, <1>8, <3>1, <3>2, CountedAlike
  <2> QED
    BY <2>1, <2>2
<1>10. c >= 1 /\ Nth(G, 1) = 1 /\ Nth(G, c) = Len(out)
  <2>1. G # {}
    BY <1>5
  <2>2. /\ c >= 1 /\ Nth(G, 1) \in G /\ Nth(G, c) \in G
        /\ \A e \in G : Nth(G, 1) <= e /\ e <= Nth(G, c)
    BY <1>4, <1>9, <2>1, Ends
  <2>3. 1 \in G /\ Len(out) \in G
    BY <1>2, <1>5
  <2> HIDE DEF G, c
  <2>4. Nth(G, 1) \in 1..Len(out) /\ Nth(G, c) \in 1..Len(out) /\ Nth(G, 1) <= 1 /\ Len(out) <= Nth(G, c)
    BY <1>4, <2>2, <2>3
  <2> QED
    BY <1>4, <2>2, <2>4
<1>11. ASSUME NEW i \in 1..(c - 1)
       PROVE  /\ i \in 1..c /\ i + 1 \in 1..c
              /\ Nth(G, i + 1) = Nth(G, i) + (IF Nth(F, i + 1) = Nth(F, i) + 1 THEN 1 ELSE 2)
  <2>1. i \in 1..c /\ i + 1 \in 1..c
    BY <1>3
  <2> DEFINE j == Nth(F, i)
             k == Nth(F, i + 1)
  <2>2. j \in F /\ k \in F /\ j < k /\ \A x \in F : ~(j < x /\ x < k)
    BY <1>3, <2>1, NoneBetween
  <2> HIDE DEF j, k
  <2>3. Rank(Lasting(text), k) = Rank(Lasting(text), j) + (IF k = j + 1 THEN 1 ELSE 2)
    BY <2>2, OneBlank
  <2>4. \A a, b \in Nat : (b = a + 1 => b - off = (a - off) + 1) /\ (b = a + 2 => b - off = (a - off) + 2)
    OBVIOUS
  <2>5. at[k] = at[j] + (IF k = j + 1 THEN 1 ELSE 2)
    <3> HIDE DEF at, F
    <3> QED
      BY <1>6, <2>2, <2>3, <2>4
  <2> QED
    BY <1>9, <2>1, <2>5 DEF j, k
<1>12. \A i \in 1..c : Nth(G, i) \in Nat
  <2>1. \A i \in 1..Cardinality(G) : Nth(G, i) \in G
    BY <1>4, NthFacts
  <2>2. \A x \in G : x \in Nat
    BY <1>4
  <2> HIDE DEF G, F
  <2> QED
    BY <1>9, <2>1, <2>2
<1>13. Joined(G) = Joined(F)
  <2>1. ASSUME NEW i \in 1..(c - 1)
        PROVE  Nth(G, i + 1) = Nth(G, i) + 1 <=> Nth(F, i + 1) = Nth(F, i) + 1
    <3>1. Nth(G, i) \in Nat
      BY <1>11, <1>12
    <3> QED
      BY <1>11, <3>1
  <2> QED
    BY <1>9, <2>1 DEF Joined
<1>14. Len(out) = 2 * Cardinality(G) - 1 - Cardinality(Joined(G))
  <2> DEFINE g == [i \in 1..c |-> Nth(G, i)]
             J == Joined(G)
  <2>1. g \in [1..c -> Nat]
    BY <1>12
  <2>2. J \in SUBSET (1..(c - 1))
    BY <1>9 DEF Joined
  <2>3. ASSUME NEW i \in 1..(c - 1) PROVE g[i + 1] = g[i] + (IF i \in J THEN 1 ELSE 2)
    <3>1. i \in Joined(F) <=> Nth(F, i + 1) = Nth(F, i) + 1
      BY DEF Joined
    <3> QED
      BY <1>11, <1>13, <3>1
  <2>4. g[1] = 1 /\ g[c] = Len(out)
    <3>1. 1 \in 1..c /\ c \in 1..c
      BY <1>3, <1>10
    <3> QED
      BY <1>10, <3>1
  <2> HIDE DEF g, J
  <2>5. g[c] = 2 * c - 1 - Cardinality(J)
    BY <1>3, <1>10, <2>1, <2>2, <2>3, <2>4, Counting
  <2> QED
    BY <1>9, <2>4, <2>5 DEF J
<1>15. At(out, G) = [n \in 1..c |-> Line(text, Nth(F, n))]
  <2>1. At(out, G) = [n \in 1..c |-> out[Nth(G, n)]]
    BY <1>9, AtNth
  <2>2. \A n \in 1..c : out[Nth(G, n)] = Line(text, Nth(F, n))
    BY <1>2, <1>9
  <2> QED
    BY <2>1, <2>2
<1>16. SameParagraphs(text, out)
  BY <1>2, <1>13, <1>14, <1>15, ParagraphsByPlace
<1>17. out # <<>> /\ ~isBlankText(out)
  <2>1. 1 \in G
    BY <1>2, <1>5
  <2>2. 1 \in DOMAIN out /\ Trimmed(out[1], "sp") # <<>>
    BY <2>1 DEF FullLines, Line
  <2> QED
    BY <2>2 DEF isBlankText
<1> QED
  BY <1>2, <1>16, <1>17 DEF out

-------------------------------------------------------------------------------
(* Text and PDF. *)

(* The bytes replaced in a text of tokens from Y leave a text of those and of replacements. *)
LEMMA ReplacedLines ==
  ASSUME NEW Y, NEW text \in Seq(Seq(Y))
  PROVE  ToValidUTF8(text) \in Seq(Seq(Y \union {"replaced"}))
<1> DEFINE W == Y \union {"replaced"}
           line(k) == [i \in DOMAIN text[k] |-> IF text[k][i] = "bytes" THEN "replaced" ELSE text[k][i]]
<1>1. Len(text) \in Nat /\ DOMAIN text = 1..Len(text)
  OBVIOUS
<1>2. ASSUME NEW k \in DOMAIN text PROVE line(k) \in Seq(W)
  <2>1. text[k] \in Seq(Y)
    BY ElementOf
  <2>2. Len(text[k]) \in Nat /\ DOMAIN text[k] = 1..Len(text[k])
    BY <2>1
  <2>3. \A i \in DOMAIN text[k] : (IF text[k][i] = "bytes" THEN "replaced" ELSE text[k][i]) \in W
    BY <2>1, ElementOf
  <2> HIDE DEF W
  <2> QED
    BY <2>2, <2>3
<1>3. ToValidUTF8(text) = [k \in DOMAIN text |-> line(k)]
  BY DEF ToValidUTF8
<1> HIDE DEF line, W
<1>4. ToValidUTF8(text) \in Seq(Seq(W))
  BY <1>1, <1>2, <1>3
<1> QED
  BY <1>4 DEF W

(* A sequence over Y is one over any wider set. *)
LEMMA WiderSeq == ASSUME NEW Y, NEW Z, Y \subseteq Z, NEW s \in Seq(Y) PROVE s \in Seq(Z)
<1>1. Len(s) \in Nat /\ s = [k \in 1..Len(s) |-> s[k]] /\ \A k \in 1..Len(s) : s[k] \in Z
  OBVIOUS
<1> QED
  BY <1>1

(* A text with a token in front is a text. *)
LEMMA MarkedLines ==
  ASSUME NEW Y, NEW text \in Seq(Seq(Y)), NEW b
  PROVE  /\ text \in Seq(Seq(Y \union {b}))
         /\ [text EXCEPT ![1] = <<b>> \o @] \in Seq(Seq(Y \union {b}))
<1> DEFINE Z == Y \union {b}
           t == [text EXCEPT ![1] = <<b>> \o @]
<1>1. Len(text) \in Nat /\ DOMAIN text = 1..Len(text) /\ text = [k \in 1..Len(text) |-> text[k]]
  OBVIOUS
<1>2. \A k \in DOMAIN text : text[k] \in Seq(Z)
  <2> SUFFICES ASSUME NEW k \in DOMAIN text PROVE text[k] \in Seq(Z)
    OBVIOUS
  <2>1. text[k] \in Seq(Y)
    BY ElementOf
  <2>2. Y \subseteq Z
    OBVIOUS
  <2> HIDE DEF Z
  <2> QED
    BY <2>1, <2>2, WiderSeq
<1>3. b \in Z
  OBVIOUS
<1> HIDE DEF Z
<1>4. text \in Seq(Seq(Z))
  BY <1>1, <1>2
<1>5. t \in Seq(Seq(Z))
  <2>1. \A k \in 1..Len(text) : t[k] \in Seq(Z)
    <3> SUFFICES ASSUME NEW k \in 1..Len(text) PROVE t[k] \in Seq(Z)
      OBVIOUS
    <3>1. text[k] \in Seq(Z)
      BY <1>1, <1>2
    <3>2. <<b>> \in Seq(Z)
      BY <1>3
    <3>3. <<b>> \o text[k] \in Seq(Z)
      BY <3>1, <3>2
    <3>4. t[k] = IF k = 1 THEN <<b>> \o text[k] ELSE text[k]
      BY <1>1
    <3> QED
      BY <3>1, <3>3, <3>4
  <2>2. t = [k \in 1..Len(text) |-> t[k]]
    BY <1>1
  <2> HIDE DEF t
  <2> QED
    BY <1>1, <2>1, <2>2
<1> QED
  BY <1>4, <1>5 DEF Z

(* What the text extractor decodes is a text. *)
LEMMA DecodedLines == ASSUME source.lines \in Lines PROVE \E X : Decoded \in Seq(Seq(X))
<1> DEFINE raw == IF source.bom THEN [source.lines EXCEPT ![1] = <<"bom">> \o @] ELSE source.lines
<1>1. raw \in Seq(Seq(STRING \union {"bom"}))
  BY MarkedLines DEF Lines
<1>2. Decoded = ToValidUTF8(raw)
  BY DEF Decoded
<1> HIDE DEF raw
<1>3. Decoded \in Seq(Seq((STRING \union {"bom"}) \union {"replaced"}))
  BY <1>1, <1>2, ReplacedLines
<1> QED
  BY <1>3

(* NormalizeWhitespace keeps every word in its paragraph, and leaves nothing only of a
   text without any word. *)
LEMMA NormalizeKeeps ==
  ASSUME NEW X, NEW text \in Seq(Seq(X))
  PROVE  LET out == NormalizeWhitespace(text)
         IN  SameParagraphs(text, IF isBlankText(out) THEN <<>> ELSE out) /\ (out = <<>> <=> isBlankText(out))
<1>1. isBlankText(<<>>)
  <2>1. DOMAIN <<>> = {}
    OBVIOUS
  <2> QED
    BY <2>1 DEF isBlankText
<1>2. CASE FullLines(text) = {}
  BY <1>1, <1>2, NothingFull
<1>3. CASE FullLines(text) # {}
  BY <1>3, FullKept
<1> QED
  BY <1>2, <1>3

(* The text extractor keeps every word of its source, in order and in its paragraph, with
   one blank line between two of them (TextExtractor.Extract, NormalizeWhitespace). *)
THEOREM TextsKept == RegistrySpec => []TextKept
<1>1. CallInv /\ KeptInv => TextKept
  <2> SUFFICES ASSUME CallInv, KeptInv, used = "text", result \in {"ok", "no content"} PROVE TextKept
    BY DEF TextKept
  <2> DEFINE out == NormalizeWhitespace(Decoded)
             a == Artifact("text/plain", out, 0)
  <2>1. PICK X : Decoded \in Seq(Seq(X))
    BY LinesSource, DecodedLines
  <2>2. SameParagraphs(Decoded, IF isBlankText(out) THEN <<>> ELSE out)
    BY <2>1, NormalizeKeeps
  <2>3. Candidates = <<a>>
    BY DEF Candidates
  <2> HIDE DEF out
  <2>4. a.Text = out
    BY DEF Artifact
  <2> HIDE DEF a
  <2>5. artifacts = IF isBlankText(out) THEN <<>> ELSE <<a>>
    BY <2>3, <2>4, OneKept DEF KeptInv
  <2>6. (IF artifacts = <<>> THEN <<>> ELSE artifacts[1].Text) = IF isBlankText(out) THEN <<>> ELSE out
    BY <2>4, <2>5, OneElement
  <2> QED
    BY <2>2, <2>6 DEF TextKept
<1> QED
  BY <1>1, KeptInvariance, CallInvariance, PTL

(* The places of a sequence. *)
LEMMA SeqDomain == ASSUME NEW S, NEW s \in Seq(S) PROVE Len(s) \in Nat /\ DOMAIN s = 1..Len(s)
  OBVIOUS

(* A place is a number. *)
LEMMA PlaceIsNat == ASSUME NEW m \in Nat, NEW x \in 1..m PROVE x \in Nat
  OBVIOUS

(* One element or none, picked from a sequence. *)
LEMMA AtOne ==
  ASSUME NEW s, NEW i \in Nat
  PROVE  /\ At(s, {}) = <<>>
         /\ At(s, {i}) # <<>> /\ At(s, {i})[1] = s[i]
<1>1. At(s, {}) = <<>>
  <2>1. 1..Cardinality({}) = {}
    BY FS_EmptySet
  <2>2. At(s, {}) = [n \in {} |-> s[Nth({}, n)]]
    BY <2>1, AtNth
  <2> QED
    BY <2>2
<1>2. Cardinality({i}) = 1 /\ 1 \in 1..1
  BY FS_Singleton
<1>3. Nth({i}, 1) = i
  <2>1. {x \in {i} : x <= i} = {i}
    OBVIOUS
  <2>2. Rank({i}, i) = 1
    BY <1>2, <2>1 DEF Rank
  <2> QED
    BY <2>2 DEF Nth
<1>4. At(s, {i}) = [n \in 1..1 |-> s[Nth({i}, n)]]
  BY <1>2, AtNth
<1>5. DOMAIN At(s, {i}) = 1..1 /\ At(s, {i})[1] = s[i]
  BY <1>2, <1>3, <1>4
<1>6. DOMAIN <<>> = {}
  OBVIOUS
<1> QED
  BY <1>1, <1>2, <1>5, <1>6

(* What a PDF extractor gets: an answer of its engine with its pages apart. *)
LEMMA PagedSource ==
  ASSUME CallInv, used = "pdf"
  PROVE  /\ source.pages \in Seq([Number : Nat, Text : Lines])
         /\ \A j, k \in DOMAIN source.pages : source.pages[j].Number = source.pages[k].Number => j = k
<1>1. source \in Sources /\ Suits(source, used)
  BY DEF CallInv
<1>2. source.kind = "pdf"
  BY <1>1, RegistryAssumption DEF Suits
<1>3. source \in [kind : {"pdf"}, size : Sizes, err : EngineErrors \union {"none"},
                  pages : Seq([Number : Nat, Text : Lines])]
  BY <1>1, <1>2, RegistryAssumption
<1>4. source.pages \in Seq([Number : Nat, Text : Lines])
  BY <1>3
<1>5. \A j, k \in DOMAIN source.pages : source.pages[j].Number = source.pages[k].Number => j = k
  BY <1>1, <1>2, RegistryAssumption
<1> QED
  BY <1>4, <1>5

(* The PDF extractor keeps the words of every page, under the number of the page, and drops
   a page only when it has none (pdf.Extractor.Extract). *)
THEOREM PageTextsKept == RegistrySpec => []PagesKept
<1>1. CallInv /\ KeptInv => PagesKept
  <2> SUFFICES ASSUME CallInv, KeptInv, used = "pdf", result \in {"ok", "no content"},
                      NEW k \in DOMAIN source.pages
               PROVE  LET page == source.pages[k]
                          out == At(artifacts, {n \in DOMAIN artifacts : artifacts[n].Page = page.Number})
                      IN  SameParagraphs(page.Text, IF out = <<>> THEN <<>> ELSE out[1].Text)
    BY DEF PagesKept
  <2> DEFINE pages == source.pages
             n == Len(pages)
             made(i) == NormalizeWhitespace(pages[i].Text)
             E == {i \in 1..n : ~isBlankText(made(i))}
             these == {i \in DOMAIN artifacts : artifacts[i].Page = pages[k].Number}
             out == At(artifacts, these)
  <2>1. /\ n \in Nat /\ DOMAIN pages = 1..n /\ pages[k].Text \in Lines
        /\ \A i, j \in 1..n : pages[i].Number = pages[j].Number => i = j
    <3>1. pages \in Seq([Number : Nat, Text : Lines])
      BY PagedSource
    <3>2. pages[k] \in [Number : Nat, Text : Lines]
      BY <3>1, ElementOf
    <3>3. n \in Nat /\ DOMAIN pages = 1..n
      BY <3>1, SeqDomain
    <3> QED
      BY <3>2, <3>3, PagedSource
  <2>2. Candidates = [i \in 1..n |-> Artifact("text/plain", made(i), pages[i].Number)]
    BY <2>1 DEF Candidates, Pages
  <2> HIDE DEF made
  <2>3. \A i \in 1..n : Candidates[i].Text = made(i) /\ Candidates[i].Page = pages[i].Number
    BY <2>2 DEF Artifact
  <2>4. DOMAIN Candidates = 1..n
    BY <2>2
  <2> HIDE DEF n, pages
  <2>5. artifacts = At(Candidates, E)
    <3>1. {i \in DOMAIN Candidates : ~isBlankText(Candidates[i].Text)} = E
      BY <2>3, <2>4
    <3> QED
      BY <3>1 DEF KeptInv, Kept
  <2>6. E \in SUBSET (1..n)
    OBVIOUS
  <2> DEFINE c == Cardinality(E)
  <2> HIDE DEF E
  <2>7. artifacts = [i \in 1..c |-> Candidates[Nth(E, i)]]
    BY <2>5, AtNth
  <2>8. \A i \in 1..c : Nth(E, i) \in E /\ Nth(E, i) \in 1..n /\ Rank(E, Nth(E, i)) = i
    BY <2>1, <2>6, NthFacts
  <2>9. DOMAIN artifacts = 1..c /\ \A i \in 1..c : artifacts[i].Text = made(Nth(E, i))
                                                /\ artifacts[i].Page = pages[Nth(E, i)].Number
    BY <2>3, <2>7, <2>8
  <2>10. k \in 1..n /\ (k \in E <=> ~isBlankText(made(k)))
    BY <2>1 DEF E, pages
  <2>11. CASE k \in E
    <3> DEFINE r == Rank(E, k)
    <3>1. r \in 1..c /\ Nth(E, r) = k /\ r \in Nat
      <4>1. r \in 1..c /\ c \in Nat
        BY <2>1, <2>6, <2>11, Ranks
      <4>2. Nth(E, r) = k
        BY <2>1, <2>6, <2>11, NthFacts
      <4>3. r \in Nat
        BY <4>1, PlaceIsNat
      <4> QED
        BY <4>1, <4>2, <4>3
    <3> HIDE DEF r
    <3>2. ASSUME NEW i \in these PROVE i = r
      <4>1. i \in 1..c /\ pages[Nth(E, i)].Number = pages[k].Number
        BY <2>9
      <4>2. Nth(E, i) = k
        BY <2>1, <2>8, <2>10, <4>1
      <4> QED
        BY <2>8, <4>1, <4>2 DEF r
    <3>3. r \in these
      BY <2>9, <3>1
    <3>4. these = {r}
      BY <3>2, <3>3
    <3> HIDE DEF these
    <3>5. out # <<>> /\ out[1].Text = made(k)
      <4>1. out # <<>> /\ out[1] = artifacts[r]
        BY <3>1, <3>4, AtOne
      <4> QED
        BY <2>9, <3>1, <4>1
    <3> QED
      BY <2>1, <2>10, <2>11, <3>5, NormalizeKeeps DEF made, pages, Lines, these
  <2>12. CASE k \notin E
    <3>1. ASSUME NEW i \in these PROVE FALSE
      <4>1. i \in 1..c /\ pages[Nth(E, i)].Number = pages[k].Number
        BY <2>9
      <4>2. Nth(E, i) \in E /\ Nth(E, i) \in 1..n
        BY <2>8, <4>1
      <4>3. Nth(E, i) = k
        BY <2>1, <2>10, <4>1, <4>2
      <4> QED
        BY <2>12, <4>2, <4>3
    <3>2. these = {}
      BY <3>1
    <3>3. out = <<>>
      <4> HIDE DEF these
      <4> QED
        BY <3>2, AtOne
    <3> QED
      BY <2>1, <2>10, <2>12, <3>3, NormalizeKeeps DEF made, pages, Lines
  <2> QED
    BY <2>11, <2>12
<1> QED
  BY <1>1, KeptInvariance, CallInvariance, PTL
-------------------------------------------------------------------------------
(* The HTML page. *)

(* What a page is made of. *)
Events == Seq([what : STRING, word : STRING])

(* How many of the first i events are breaks of a kind. *)
Before(events, i, whats) == Cardinality({j \in Visible(events) : j <= i /\ events[j].what \in whats})

(* Counting goes on by one at an event of the kind and shown, and not at others. *)
LEMMA BeforeSteps ==
  ASSUME NEW events \in Events, NEW i \in 1..Len(events), NEW whats
  PROVE  /\ Before(events, 0, whats) = 0
         /\ Before(events, i - 1, whats) \in Nat
         /\ Before(events, i, whats) =
              Before(events, i - 1, whats)
                + IF i \in Visible(events) /\ events[i].what \in whats THEN 1 ELSE 0
<1> DEFINE n == Len(events)
           B(k) == {j \in Visible(events) : j <= k /\ events[j].what \in whats}
<1>1. n \in Nat /\ DOMAIN events = 1..n
  BY DEF Events
<1>2. Visible(events) \in SUBSET (1..n)
  BY <1>1 DEF Visible
<1>3. IsFiniteSet(Visible(events))
  BY <1>1, <1>2, Ranks
<1>4. \A k : B(k) \in SUBSET Visible(events)
  OBVIOUS
<1>5. \A k : IsFiniteSet(B(k)) /\ Cardinality(B(k)) \in Nat
  BY <1>3, <1>4, FS_Subset, FS_CardinalityType
<1>6. B(0) = {}
  BY <1>1, <1>2
<1>7. B(i) = B(i - 1) \union IF i \in Visible(events) /\ events[i].what \in whats THEN {i} ELSE {}
  <2>1. \A j \in Visible(events) : j <= i <=> j <= i - 1 \/ j = i
    BY <1>1, <1>2
  <2> QED
    BY <2>1
<1>8. i \notin B(i - 1)
  BY <1>1
<1>9. \A k : Before(events, k, whats) = Cardinality(B(k))
  BY DEF Before
<1> HIDE DEF B
<1>10. Cardinality(B(i - 1) \union {i}) = Cardinality(B(i - 1)) + 1
  BY <1>5, <1>8, FS_AddElement
<1>11. Cardinality(B(0)) = 0
  BY <1>6, FS_EmptySet
<1>12. CASE i \in Visible(events) /\ events[i].what \in whats
  BY <1>5, <1>7, <1>9, <1>10, <1>11, <1>12
<1>13. CASE ~(i \in Visible(events) /\ events[i].what \in whats)
  <2>1. B(i) = B(i - 1)
    BY <1>7, <1>13
  <2> QED
    BY <1>5, <1>9, <1>11, <1>13, <2>1
<1> QED
  BY <1>12, <1>13

(* How many ends of line are written at an event. *)
LinesEnded(events, i) ==
  IF i \notin Visible(events) THEN 0
  ELSE IF events[i].what = "br" THEN 1
  ELSE IF events[i].what \in {"block", "endblock"} THEN 2
  ELSE 0

(* The page goes on below by as many lines as are ended. *)
LEMMA RowSteps ==
  ASSUME NEW events \in Events, NEW i \in 1..Len(events)
  PROVE  /\ Row(events, i - 1) \in Nat \ {0}
         /\ Row(events, i) = Row(events, i - 1) + LinesEnded(events, i)
<1>1. \A k : Row(events, k) = 1 + Before(events, k, {"br"}) + 2 * Before(events, k, {"block", "endblock"})
  BY DEF Row, Before
<1>2. /\ Before(events, i - 1, {"br"}) \in Nat
      /\ Before(events, i, {"br"}) = Before(events, i - 1, {"br"})
           + IF i \in Visible(events) /\ events[i].what \in {"br"} THEN 1 ELSE 0
  BY BeforeSteps
<1>3. /\ Before(events, i - 1, {"block", "endblock"}) \in Nat
      /\ Before(events, i, {"block", "endblock"}) = Before(events, i - 1, {"block", "endblock"})
           + IF i \in Visible(events) /\ events[i].what \in {"block", "endblock"} THEN 1 ELSE 0
  BY BeforeSteps
<1> DEFINE a0 == Before(events, i - 1, {"br"})
           a1 == Before(events, i, {"br"})
           b0 == Before(events, i - 1, {"block", "endblock"})
           b1 == Before(events, i, {"block", "endblock"})
           da == IF i \in Visible(events) /\ events[i].what = "br" THEN 1 ELSE 0
           db == IF i \in Visible(events) /\ events[i].what \in {"block", "endblock"} THEN 1 ELSE 0
           r0 == Row(events, i - 1)
           r1 == Row(events, i)
           ended == LinesEnded(events, i)
<1>4. ended = da + 2 * db
  BY DEF LinesEnded
<1>5. /\ a0 \in Nat /\ b0 \in Nat /\ da \in Nat /\ db \in Nat
      /\ a1 = a0 + da /\ b1 = b0 + db
  BY <1>2, <1>3
<1>6. r0 = 1 + a0 + 2 * b0 /\ r1 = 1 + a1 + 2 * b1
  BY <1>1
<1> HIDE DEF a0, a1, b0, b1, da, db, r0, r1, ended
<1>7. r0 \in Nat \ {0} /\ r1 = r0 + ended
  BY <1>4, <1>5, <1>6
<1> QED
  BY <1>7 DEF r0, r1, ended

(* A page begins with one line. *)
LEMMA FirstRow == ASSUME NEW events \in Events PROVE Row(events, 0) = 1
<1>1. Visible(events) \in SUBSET Nat /\ \A j \in Visible(events) : ~(j <= 0)
  <2>1. DOMAIN events = 1..Len(events) /\ Len(events) \in Nat
    BY DEF Events
  <2> QED
    BY <2>1 DEF Visible
<1>2. \A whats : {j \in Visible(events) : j <= 0 /\ events[j].what \in whats} = {}
  BY <1>1
<1>3. \A whats : Before(events, 0, whats) = 0
  BY <1>2, FS_EmptySet DEF Before
<1>4. Row(events, 0) = 1 + Before(events, 0, {"br"}) + 2 * Before(events, 0, {"block", "endblock"})
  BY DEF Row, Before
<1> QED
  BY <1>3, <1>4

(* The places of the events and those shown. *)
LEMMA EventPlaces ==
  ASSUME NEW events \in Events
  PROVE  /\ Len(events) \in Nat /\ DOMAIN events = 1..Len(events)
         /\ Visible(events) \in SUBSET (1..Len(events))
         /\ \A i \in 1..Len(events) : i \in Nat /\ events[i].what \in STRING /\ events[i].word \in STRING
<1>1. Len(events) \in Nat /\ DOMAIN events = 1..Len(events)
  BY DEF Events
<1>2. Visible(events) \in SUBSET (1..Len(events))
  BY <1>1 DEF Visible
<1>3. \A i \in 1..Len(events) : events[i] \in [what : STRING, word : STRING]
  BY <1>1, ElementOf DEF Events
<1> QED
  BY <1>1, <1>2, <1>3

(* Rows only grow. *)
LEMMA RowsGrow ==
  ASSUME NEW events \in Events, NEW j \in 1..Len(events), NEW k \in 1..Len(events), j <= k
  PROVE  Row(events, j) <= Row(events, k)
<1> DEFINE B(i, whats) == {x \in Visible(events) : x <= i /\ events[x].what \in whats}
<1>1. Visible(events) \in SUBSET (1..Len(events)) /\ Len(events) \in Nat /\ j \in Nat /\ k \in Nat
  BY EventPlaces
<1>2. IsFiniteSet(Visible(events))
  BY <1>1, Ranks
<1>3. \A whats : B(j, whats) \in SUBSET B(k, whats)
  <2>1. \A x \in Visible(events) : x <= j => x <= k
    BY <1>1
  <2> QED
    BY <2>1
<1>4. \A i, whats : B(i, whats) \in SUBSET Visible(events) /\ Before(events, i, whats) = Cardinality(B(i, whats))
  BY DEF Before
<1> HIDE DEF B
<1>5. \A i, whats : IsFiniteSet(B(i, whats)) /\ Cardinality(B(i, whats)) \in Nat
  BY <1>2, <1>4, FS_Subset, FS_CardinalityType
<1>6. \A whats : Cardinality(B(j, whats)) <= Cardinality(B(k, whats))
  BY <1>3, <1>5, FS_Subset
<1>7. \A i : Row(events, i) = 1 + Before(events, i, {"br"}) + 2 * Before(events, i, {"block", "endblock"})
  BY DEF Row, Before
<1> DEFINE a(i) == Cardinality(B(i, {"br"}))
           b(i) == Cardinality(B(i, {"block", "endblock"}))
<1>8. /\ a(j) \in Nat /\ a(k) \in Nat /\ b(j) \in Nat /\ b(k) \in Nat
      /\ a(j) <= a(k) /\ b(j) <= b(k)
  BY <1>5, <1>6
<1>9. Row(events, j) = 1 + a(j) + 2 * b(j) /\ Row(events, k) = 1 + a(k) + 2 * b(k)
  BY <1>4, <1>7
<1> HIDE DEF a, b
<1> QED
  BY <1>8, <1>9

(* A sequence of two elements. *)
LEMMA TwoElements ==
  ASSUME NEW S, NEW a \in S, NEW b \in S
  PROVE  <<a, b>> \in Seq(S) /\ Len(<<a, b>>) = 2 /\ <<a, b>>[1] = a /\ <<a, b>>[2] = b
OBVIOUS

(* A sequence behind another. *)
LEMMA Joining ==
  ASSUME NEW S, NEW s \in Seq(S), NEW u \in Seq(S)
  PROVE  /\ s \o u \in Seq(S) /\ Len(s \o u) = Len(s) + Len(u)
         /\ \A x \in 1..(Len(s) + Len(u)) : (s \o u)[x] = IF x <= Len(s) THEN s[x] ELSE u[x - Len(s)]
OBVIOUS

(* Two elements behind a sequence. *)
LEMMA Behind ==
  ASSUME NEW S, NEW s \in Seq(S), NEW u \in Seq(S), Len(u) = 2, NEW k \in Nat, Len(s) = k
  PROVE  /\ DOMAIN (s \o u) = 1..(k + 2)
         /\ \A t \in 1..k : (s \o u)[t] = s[t]
         /\ (s \o u)[k + 1] = u[1] /\ (s \o u)[k + 2] = u[2]
<1> DEFINE r == s \o u
<1>1. /\ r \in Seq(S) /\ Len(r) = k + 2
      /\ \A x \in 1..(k + 2) : r[x] = IF x <= k THEN s[x] ELSE u[x - k]
  <2>1. /\ r \in Seq(S) /\ Len(r) = Len(s) + Len(u)
        /\ \A x \in 1..(Len(s) + Len(u)) : r[x] = IF x <= Len(s) THEN s[x] ELSE u[x - Len(s)]
    BY Joining, Zenon
  <2> HIDE DEF r
  <2> QED
    BY <2>1
<1> HIDE DEF r
<1>2. DOMAIN r = 1..(k + 2)
  BY <1>1
<1>3. \A t \in 1..k : t \in 1..(k + 2) /\ t <= k
  OBVIOUS
<1>4. /\ (k + 1) - k = 1 /\ ~(k + 1 <= k) /\ k + 1 \in 1..(k + 2)
      /\ (k + 2) - k = 2 /\ ~(k + 2 <= k) /\ k + 2 \in 1..(k + 2)
  OBVIOUS
<1>5. (\A t \in 1..k : r[t] = s[t]) /\ r[k + 1] = u[1] /\ r[k + 2] = u[2]
  BY <1>1, <1>3, <1>4
<1> QED
  BY <1>2, <1>5 DEF r

(* An element behind a sequence. *)
LEMMA Adding ==
  ASSUME NEW S, NEW s \in Seq(S), NEW e \in S
  PROVE  /\ DOMAIN Append(s, e) = 1..(Len(s) + 1)
         /\ \A x \in 1..Len(s) : Append(s, e)[x] = s[x]
         /\ Append(s, e)[Len(s) + 1] = e
OBVIOUS

(* What a line of a page is made of. *)
Tokens == STRING \union {"sp"}

(* A line with the words of some events, each with a space behind it. *)
Spaced(events, E) ==
  [t \in 1..(2 * Cardinality(E)) |-> IF t % 2 = 1 THEN events[Nth(E, (t + 1) \div 2)].word ELSE "sp"]

(* A later event adds its word at the end of the line. *)
LEMMA SpacedAppend ==
  ASSUME NEW events \in Events, NEW n \in 1..Len(events), NEW E \in SUBSET (1..(n - 1))
  PROVE  /\ Spaced(events, E) \in Seq(Tokens)
         /\ Spaced(events, E \union {n}) = Spaced(events, E) \o <<events[n].word, "sp">>
<1> DEFINE c == Cardinality(E)
           F == E \union {n}
<1>1. n \in Nat /\ n - 1 \in Nat /\ E \in SUBSET (1..n) /\ F \in SUBSET (1..n) /\ n \notin E
  BY EventPlaces
<1>2. IsFiniteSet(E) /\ c \in Nat
  BY <1>1, Ranks
<1>3. Cardinality(F) = c + 1
  BY <1>1, <1>2, FS_AddElement
<1>4. ASSUME NEW e \in E PROVE Rank(F, e) = Rank(E, e)
  <2>1. e \in 1..(n - 1) /\ ~(n <= e)
    BY <1>1
  <2>2. {x \in F : x <= e} = {x \in E : x <= e}
    BY <2>1
  <2> QED
    BY <2>2 DEF Rank
<1>5. \A i \in 1..c : Nth(E, i) \in E /\ Rank(E, Nth(E, i)) = i
  BY <1>1, NthFacts
<1>6. \A i \in 1..c : Nth(F, i) = Nth(E, i)
  <2> SUFFICES ASSUME NEW i \in 1..c PROVE Nth(F, i) = Nth(E, i)
    OBVIOUS
  <2>1. Nth(E, i) \in F /\ Rank(F, Nth(E, i)) = i
    BY <1>4, <1>5
  <2>2. Nth(F, Rank(F, Nth(E, i))) = Nth(E, i)
    BY <1>1, <2>1, NthFacts
  <2> QED
    BY <2>1, <2>2
<1>7. Nth(F, c + 1) = n
  <2>1. {x \in F : x <= n} = F
    <3>1. \A x \in 1..n : x <= n
      BY <1>1
    <3> QED
      BY <1>1, <3>1
  <2>2. Rank(F, n) = c + 1
    BY <1>3, <2>1 DEF Rank
  <2>3. Nth(F, Rank(F, n)) = n
    BY <1>1, NthFacts
  <2> QED
    BY <2>2, <2>3
<1>8. \A i \in 1..c : events[Nth(E, i)].word \in STRING
  <2>1. \A e \in E : e \in 1..Len(events)
    BY <1>1, EventPlaces
  <2> QED
    BY <1>5, <2>1, EventPlaces
<1> DEFINE w(i) == events[Nth(E, i)].word
           v(i) == events[Nth(F, i)].word
<1>9. (\A i \in 1..c : v(i) = w(i) /\ w(i) \in STRING) /\ v(c + 1) = events[n].word /\ events[n].word \in STRING
  BY <1>6, <1>7, <1>8, EventPlaces
<1>10. /\ Spaced(events, E) = [t \in 1..(2 * c) |-> IF t % 2 = 1 THEN w((t + 1) \div 2) ELSE "sp"]
       /\ Spaced(events, F) = [t \in 1..(2 * (c + 1)) |-> IF t % 2 = 1 THEN v((t + 1) \div 2) ELSE "sp"]
  BY <1>3 DEF Spaced
<1> HIDE DEF c, w, v, F
<1>11. \A t \in 1..(2 * c) : t % 2 = 1 => (t + 1) \div 2 \in 1..c
  BY <1>2
<1>12. \A t \in 1..(2 * (c + 1)) :
         t \in 1..(2 * c) \/ (t = 2 * c + 1 /\ t % 2 = 1 /\ (t + 1) \div 2 = c + 1) \/ (t = 2 * c + 2 /\ t % 2 # 1)
  BY <1>2
<1>13. Spaced(events, E) \in Seq(Tokens) /\ Len(Spaced(events, E)) = 2 * c
  <2>1. 2 * c \in Nat
    BY <1>2
  <2>2. ASSUME NEW t \in 1..(2 * c) PROVE Spaced(events, E)[t] \in Tokens
    <3>1. Spaced(events, E)[t] = IF t % 2 = 1 THEN w((t + 1) \div 2) ELSE "sp"
      BY <1>10
    <3>3. CASE t % 2 = 1
      BY <1>9, <1>11, <3>1, <3>3 DEF Tokens
    <3>4. CASE t % 2 # 1
      BY <3>1, <3>4 DEF Tokens
    <3> QED
      BY <3>3, <3>4
  <2> QED
    BY <1>10, <2>1, <2>2
<1>14. Spaced(events, F) = Spaced(events, E) \o <<events[n].word, "sp">>
  <2> DEFINE s == Spaced(events, E)
             u == <<events[n].word, "sp">>
             r == s \o u
  <2>1. u \in Seq(Tokens) /\ Len(u) = 2 /\ u[1] = events[n].word /\ u[2] = "sp"
    <3>1. events[n].word \in Tokens /\ "sp" \in Tokens
      BY <1>9 DEF Tokens
    <3> QED
      BY <3>1, TwoElements
  <2>2. \A t \in 1..(2 * c) : s[t] = IF t % 2 = 1 THEN w((t + 1) \div 2) ELSE "sp"
    BY <1>10
  <2>3. s \in Seq(Tokens) /\ Len(s) = 2 * c
    BY <1>13
  <2> HIDE DEF s, u
  <2>4. /\ DOMAIN r = 1..(2 * c + 2)
        /\ \A t \in 1..(2 * c) : r[t] = s[t]
        /\ r[2 * c + 1] = u[1] /\ r[2 * c + 2] = u[2]
    <3>1. 2 * c \in Nat
      BY <1>2
    <3> DEFINE k == 2 * c
    <3>2. k \in Nat /\ Len(s) = k
      BY <2>3, <3>1
    <3> HIDE DEF k
    <3>3. /\ DOMAIN r = 1..(k + 2)
          /\ \A t \in 1..k : r[t] = s[t]
          /\ r[k + 1] = u[1] /\ r[k + 2] = u[2]
      BY <2>1, <2>3, <3>2, Behind
    <3> QED
      BY <3>3 DEF k
  <2>5. r \in Seq(Tokens)
    BY <2>1, <2>3
  <2> HIDE DEF r
  <2>6. \A t \in 1..(2 * (c + 1)) : r[t] = IF t % 2 = 1 THEN v((t + 1) \div 2) ELSE "sp"
    BY <1>2, <1>9, <1>11, <1>12, <2>1, <2>2, <2>4
  <2>7. 2 * (c + 1) = 2 * c + 2
    BY <1>2
  <2>8. r = [t \in DOMAIN r |-> r[t]]
    BY <2>5
  <2>9. Spaced(events, F) = r
    BY <1>10, <2>4, <2>6, <2>7, <2>8
  <2> QED
    BY <2>9 DEF r, s, u
<1> QED
  BY <1>13, <1>14 DEF F

(* A line of a page is made of tokens. *)
LEMMA SpacedIsLine ==
  ASSUME NEW events \in Events, NEW E \in SUBSET (1..Len(events))
  PROVE  Spaced(events, E) \in Seq(Tokens)
<1> DEFINE c == Cardinality(E)
           w(i) == events[Nth(E, i)].word
<1>1. c \in Nat /\ \A i \in 1..c : Nth(E, i) \in E
  BY EventPlaces, Ranks, NthFacts
<1>2. \A i \in 1..c : w(i) \in STRING
  BY <1>1, EventPlaces
<1>3. Spaced(events, E) = [t \in 1..(2 * c) |-> IF t % 2 = 1 THEN w((t + 1) \div 2) ELSE "sp"]
  BY DEF Spaced
<1> HIDE DEF c, w
<1>4. 2 * c \in Nat /\ \A t \in 1..(2 * c) : t % 2 = 1 => (t + 1) \div 2 \in 1..c
  BY <1>1
<1>5. ASSUME NEW t \in 1..(2 * c) PROVE Spaced(events, E)[t] \in Tokens
  BY <1>2, <1>3, <1>4 DEF Tokens
<1> QED
  BY <1>3, <1>4, <1>5

(* The texts on a row of the page among the first n events. *)
Texts(events, n, row) ==
  {i \in Visible(events) : i <= n /\ events[i].what = "text" /\ Row(events, i) = row}

(* The page after the first n events. *)
PageUpTo(events, n) == [row \in 1..Row(events, n) |-> Spaced(events, Texts(events, n, row))]

(* An event adds itself to its row, which is the last one so far. *)
LEMMA TextsStep ==
  ASSUME NEW events \in Events, NEW n \in 1..Len(events), NEW row
  PROVE  /\ Texts(events, n - 1, row) \in SUBSET (1..(n - 1))
         /\ Texts(events, n, row) =
              Texts(events, n - 1, row)
                \union IF n \in Visible(events) /\ events[n].what = "text" /\ Row(events, n) = row THEN {n} ELSE {}
         /\ row \in Nat /\ row > Row(events, n - 1) => Texts(events, n - 1, row) = {}
<1>1. /\ Visible(events) \in SUBSET (1..Len(events)) /\ Len(events) \in Nat /\ n \in Nat
      /\ \A i \in Visible(events) : i \in Nat /\ i >= 1
  BY EventPlaces
<1>2. \A i \in Visible(events) : i <= n <=> i <= n - 1 \/ i = n
  BY <1>1
<1>3. Texts(events, n - 1, row) \in SUBSET (1..(n - 1))
  <2>1. \A i \in Visible(events) : i <= n - 1 => i \in 1..(n - 1)
    BY <1>1
  <2> QED
    BY <2>1 DEF Texts
<1>4. Texts(events, n, row) =
        Texts(events, n - 1, row)
          \union IF n \in Visible(events) /\ events[n].what = "text" /\ Row(events, n) = row THEN {n} ELSE {}
  BY <1>2, <1>1 DEF Texts
<1>5. ASSUME row \in Nat, row > Row(events, n - 1) PROVE Texts(events, n - 1, row) = {}
  <2> SUFFICES ASSUME NEW i \in Texts(events, n - 1, row) PROVE FALSE
    OBVIOUS
  <2>1. i \in Visible(events) /\ i <= n - 1 /\ Row(events, i) = row
    BY DEF Texts
  <2>2. i \in 1..Len(events) /\ n - 1 \in 1..Len(events)
    BY <1>1, <2>1
  <2>3. Row(events, i) <= Row(events, n - 1)
    BY <2>1, <2>2, RowsGrow
  <2>4. Row(events, n - 1) \in Nat
    BY RowSteps
  <2> QED
    BY <1>5, <2>1, <2>3, <2>4
<1> QED
  BY <1>3, <1>4, <1>5

(* A line without a text is empty. *)
LEMMA SpacedNothing == ASSUME NEW events PROVE Spaced(events, {}) = <<>>
<1>1. 1..(2 * Cardinality({})) = {}
  BY FS_EmptySet
<1> QED
  BY <1>1 DEF Spaced

(* A page starts as one empty line. *)
LEMMA FirstPage == ASSUME NEW events \in Events PROVE PageUpTo(events, 0) = <<<<>>>>
<1>1. Row(events, 0) = 1
  BY FirstRow
<1>2. \A row : Texts(events, 0, row) = {}
  <2>1. \A i \in Visible(events) : ~(i <= 0)
    BY EventPlaces
  <2> QED
    BY <2>1 DEF Texts
<1>3. PageUpTo(events, 0) = [row \in 1..1 |-> <<>>]
  BY <1>1, <1>2, SpacedNothing DEF PageUpTo
<1> QED
  BY <1>3

(* A page so far is a sequence of lines. *)
LEMMA PageIsLines ==
  ASSUME NEW events \in Events, NEW n \in 1..Len(events)
  PROVE  PageUpTo(events, n - 1) \in Seq(Seq(Tokens)) /\ Len(PageUpTo(events, n - 1)) = Row(events, n - 1)
<1>1. \A row : Spaced(events, Texts(events, n - 1, row)) \in Seq(Tokens)
  BY TextsStep, SpacedAppend
<1>2. Row(events, n - 1) \in Nat
  BY RowSteps
<1> QED
  BY <1>1, <1>2 DEF PageUpTo

(* What is written at an event makes the page up to it. *)
LEMMA PageSteps ==
  ASSUME NEW events \in Events, NEW n \in 1..Len(events)
  PROVE  PageUpTo(events, n) =
           IF n \in Visible(events) THEN Written(PageUpTo(events, n - 1), events[n]) ELSE PageUpTo(events, n - 1)
<1> DEFINE was(row) == Texts(events, n - 1, row)
           is(row) == Texts(events, n, row)
           r == Row(events, n - 1)
           p == PageUpTo(events, n - 1)
           q == PageUpTo(events, n)
           text == n \in Visible(events) /\ events[n].what = "text"
<1>1. r \in Nat \ {0} /\ Row(events, n) = r + LinesEnded(events, n)
  BY RowSteps
<1>2. p \in Seq(Seq(Tokens)) /\ Len(p) = r
  BY PageIsLines
<1>3. p = [row \in 1..r |-> Spaced(events, was(row))] /\ q = [row \in 1..Row(events, n) |-> Spaced(events, is(row))]
  BY DEF PageUpTo
<1>4. \A row : is(row) = was(row) \union IF text /\ Row(events, n) = row THEN {n} ELSE {}
  BY TextsStep
<1>5. \A row \in Nat : row > r => was(row) = {}
  BY TextsStep
<1>6. \A row : Spaced(events, was(row) \union {n}) = Spaced(events, was(row)) \o <<events[n].word, "sp">>
  BY TextsStep, SpacedAppend
<1>7. Spaced(events, {}) = <<>>
  BY SpacedNothing
<1> HIDE DEF was, is, r, p, q
<1>8. CASE text
  <2>1. Row(events, n) = r
    BY <1>1, <1>8 DEF LinesEnded
  <2>2. \A row \in 1..r : row # r => q[row] = p[row]
    BY <1>3, <1>4, <1>8, <2>1
  <2>3. r \in 1..r
    BY <1>1
  <2>4. q[r] = p[r] \o <<events[n].word, "sp">>
    BY <1>3, <1>4, <1>6, <1>8, <2>1, <2>3
  <2>5. q = [row \in 1..r |-> q[row]] /\ DOMAIN p = 1..r
    BY <1>2, <1>3, <2>1
  <2>6. [p EXCEPT ![r] = @ \o <<events[n].word, "sp">>] = q
    BY <2>2, <2>3, <2>4, <2>5
  <2>7. Written(p, events[n]) = [p EXCEPT ![r] = @ \o <<events[n].word, "sp">>]
    BY <1>2, <1>8 DEF Written
  <2> QED
    BY <1>8, <2>6, <2>7 DEF p, q
<1>9. CASE ~text
  <2>1. \A row : is(row) = was(row)
    BY <1>4, <1>9
  <2>2. \A row \in 1..r : row \in 1..Row(events, n) => q[row] = p[row]
    BY <1>3, <2>1
  <2>3. ASSUME NEW row \in 1..Row(events, n), row > r PROVE q[row] = <<>>
    <3>1. row \in Nat
      BY <1>1
    <3>2. is(row) = {}
      BY <1>5, <2>1, <2>3, <3>1
    <3>3. q[row] = Spaced(events, is(row))
      BY <1>3
    <3> QED
      BY <1>7, <3>2, <3>3
  <2>4. CASE LinesEnded(events, n) = 0
    <3>1. q = p
      BY <1>1, <1>3, <2>1, <2>4
    <3>2. n \in Visible(events) => Written(p, events[n]) = p
      BY <1>9, <2>4 DEF LinesEnded, Written
    <3> QED
      BY <3>1, <3>2 DEF p, q
  <2>5. CASE LinesEnded(events, n) = 1
    <3>1. n \in Visible(events) /\ events[n].what = "br"
      BY <2>5 DEF LinesEnded
    <3>2. Written(p, events[n]) = Append(p, <<>>)
      BY <3>1 DEF Written
    <3>3. q = Append(p, <<>>)
      <4>1. Row(events, n) = r + 1 /\ DOMAIN q = 1..(r + 1)
        BY <1>1, <1>3, <2>5
      <4>2. r + 1 \in 1..(r + 1) /\ r + 1 > r /\ \A row \in 1..(r + 1) : row \in 1..r \/ row = r + 1
        BY <1>1
      <4>3. q[r + 1] = <<>> /\ \A row \in 1..r : q[row] = p[row]
        BY <1>1, <2>2, <2>3, <4>1, <4>2
      <4>4. q = [row \in 1..(r + 1) |-> q[row]]
        BY <1>3, <4>1
      <4> DEFINE z == Append(p, <<>>)
      <4>5. <<>> \in Seq(Tokens)
        OBVIOUS
      <4>6. DOMAIN z = 1..(r + 1) /\ (\A row \in 1..r : z[row] = p[row]) /\ z[r + 1] = <<>>
        BY <1>1, <1>2, <4>5, Adding
      <4>7. z \in Seq(Seq(Tokens))
        BY <1>2, <4>5
      <4> HIDE DEF z
      <4>8. z = [row \in 1..(r + 1) |-> z[row]]
        BY <4>6, <4>7
      <4>9. q = z
        BY <4>2, <4>3, <4>4, <4>6, <4>8
      <4> QED
        BY <4>9 DEF z
    <3> QED
      BY <3>1, <3>2, <3>3 DEF p, q
  <2>6. CASE LinesEnded(events, n) = 2
    <3>1. n \in Visible(events) /\ events[n].what \in {"block", "endblock"}
      BY <2>6 DEF LinesEnded
    <3>2. Written(p, events[n]) = p \o <<<<>>, <<>>>>
      BY <3>1 DEF Written
    <3>3. q = p \o <<<<>>, <<>>>>
      <4> DEFINE u == <<<<>>, <<>>>>
                 z == p \o u
      <4>1. Row(events, n) = r + 2 /\ DOMAIN q = 1..(r + 2)
        BY <1>1, <1>3, <2>6
      <4>2. /\ r + 1 \in 1..(r + 2) /\ r + 1 > r /\ r + 2 \in 1..(r + 2) /\ r + 2 > r
            /\ \A row \in 1..(r + 2) : row \in 1..r \/ row = r + 1 \/ row = r + 2
        BY <1>1
      <4>3. q[r + 1] = <<>> /\ q[r + 2] = <<>> /\ \A row \in 1..r : q[row] = p[row]
        BY <1>1, <2>2, <2>3, <4>1, <4>2
      <4>4. q = [row \in 1..(r + 2) |-> q[row]]
        BY <1>3, <4>1
      <4>5. u \in Seq(Seq(Tokens)) /\ Len(u) = 2 /\ u[1] = <<>> /\ u[2] = <<>>
        <5>1. <<>> \in Seq(Tokens)
          OBVIOUS
        <5> QED
          BY <5>1, TwoElements
      <4> HIDE DEF u
      <4>6. /\ DOMAIN z = 1..(r + 2) /\ \A row \in 1..r : z[row] = p[row]
            /\ z[r + 1] = u[1] /\ z[r + 2] = u[2] /\ z \in Seq(Seq(Tokens))
        BY <1>1, <1>2, <4>5, Behind, Joining
      <4> HIDE DEF z
      <4>7. z = [row \in 1..(r + 2) |-> z[row]]
        BY <4>6
      <4>8. q = z
        BY <4>2, <4>3, <4>4, <4>5, <4>6, <4>7
      <4> QED
        BY <4>8 DEF z, u
    <3> QED
      BY <3>1, <3>2, <3>3 DEF p, q
  <2> QED
    BY <2>4, <2>5, <2>6 DEF LinesEnded
<1> QED
  BY <1>8, <1>9 DEF p, q

(* What is written after each of the events. *)
Walks(f, events) ==
  f = [n \in 0..Len(events) |->
         IF n = 0 THEN <<<<>>>>
         ELSE IF n \in Visible(events) THEN Written(f[n - 1], events[n])
         ELSE f[n - 1]]

(* The walk writes the page. *)
LEMMA WalkWritesPage ==
  ASSUME NEW events \in Events
  PROVE  collectText(events) = PageUpTo(events, Len(events))
<1> DEFINE N == Len(events)
           page == [n \in 0..N |-> PageUpTo(events, n)]
           walked == CHOOSE f : Walks(f, events)
<1>1. N \in Nat /\ \A n \in 0..N : n # 0 => n \in 1..N /\ n - 1 \in 0..N
  BY EventPlaces
<1>2. Walks(page, events)
  <2>1. ASSUME NEW n \in 0..N
        PROVE  PageUpTo(events, n) =
                 IF n = 0 THEN <<<<>>>>
                 ELSE IF n \in Visible(events) THEN Written(page[n - 1], events[n])
                 ELSE page[n - 1]
    <3>1. CASE n = 0
      BY <3>1, FirstPage
    <3>2. CASE n # 0
      <4>1. n \in 1..N /\ n - 1 \in 0..N
        BY <1>1, <3>2
      <4>2. page[n - 1] = PageUpTo(events, n - 1)
        BY <4>1
      <4> HIDE DEF page
      <4> QED
        BY <3>2, <4>1, <4>2, PageSteps
    <3> QED
      BY <3>1, <3>2
  <2>2. page = [n \in 0..N |-> IF n = 0 THEN <<<<>>>>
                                ELSE IF n \in Visible(events) THEN Written(page[n - 1], events[n])
                                ELSE page[n - 1]]
    BY <2>1
  <2> QED
    BY <2>2 DEF Walks
<1>3. Walks(walked, events)
  <2> HIDE DEF page
  <2> QED
    BY <1>2
<1>4. collectText(events) = walked[N]
  BY DEF collectText, Walks
<1> DEFINE bad == {n \in 0..N : walked[n] # page[n]}
<1>5. bad = {}
  <2> SUFFICES ASSUME bad # {} PROVE FALSE
    OBVIOUS
  <2>1. bad \in SUBSET Nat
    BY <1>1
  <2>2. PICK n \in bad : \A y \in bad : n <= y
    <3> HIDE DEF bad
    <3> QED
      BY <2>1, Least
  <2>3. n \in 0..N /\ n \in Nat /\ walked[n] # page[n]
    BY <2>1
  <2> HIDE DEF page, walked
  <2>4. CASE n = 0
    BY <1>2, <1>3, <2>3, <2>4 DEF Walks
  <2>5. CASE n # 0
    <3>1. n - 1 \in 0..N /\ n - 1 \notin bad
      BY <1>1, <2>2, <2>3, <2>5
    <3>2. walked[n - 1] = page[n - 1]
      BY <3>1
    <3> QED
      BY <1>2, <1>3, <2>3, <2>5, <3>2 DEF Walks
  <2> QED
    BY <2>4, <2>5
<1>6. page[N] = PageUpTo(events, N) /\ N \in 0..N
  BY <1>1
<1> HIDE DEF walked, page, N
<1>7. walked[N] = page[N]
  BY <1>5, <1>6
<1> QED
  BY <1>4, <1>6, <1>7 DEF N

(* A line of a page is what PageLines makes of the texts on it. *)
LEMMA SpacedTexts ==
  ASSUME NEW events \in Events, NEW E \in SUBSET (1..Len(events))
  PROVE  LET texts == At(events, E)
         IN  [t \in 1..(2 * Len(texts)) |-> IF t % 2 = 1 THEN texts[(t + 1) \div 2].word ELSE "sp"]
               = Spaced(events, E)
<1> DEFINE c == Cardinality(E)
           texts == At(events, E)
<1>1. c \in Nat
  BY EventPlaces, Ranks
<1>2. texts = [k \in 1..c |-> events[Nth(E, k)]]
  BY AtNth
<1>3. Len(texts) = c
  BY <1>1, <1>2
<1>4. ASSUME NEW t \in 1..(2 * c), t % 2 = 1 PROVE texts[(t + 1) \div 2] = events[Nth(E, (t + 1) \div 2)]
  <2>1. (t + 1) \div 2 \in 1..c
    <3> HIDE DEF c
    <3> QED
      BY <1>1, <1>4
  <2> HIDE DEF c, texts
  <2> QED
    BY <1>2, <2>1
<1> HIDE DEF c, texts
<1>5. [t \in 1..(2 * c) |-> IF t % 2 = 1 THEN texts[(t + 1) \div 2].word ELSE "sp"]
        = [t \in 1..(2 * c) |-> IF t % 2 = 1 THEN events[Nth(E, (t + 1) \div 2)].word ELSE "sp"]
  BY <1>4
<1> QED
  BY <1>3, <1>5 DEF Spaced, c, texts

(* The page of a source is the one its walk writes. *)
LEMMA WalkWritesLines ==
  ASSUME NEW events \in Events
  PROVE  collectText(events) = PageLines(events) /\ PageLines(events) \in Seq(Seq(Tokens))
<1> DEFINE N == Len(events)
           on(row) == {i \in Visible(events) : events[i].what = "text" /\ Row(events, i) = row}
           spaced(texts) == [t \in 1..(2 * Len(texts)) |-> IF t % 2 = 1 THEN texts[(t + 1) \div 2].word ELSE "sp"]
<1>1. N \in Nat /\ Visible(events) \in SUBSET (1..N) /\ \A i \in 1..N : i <= N
  BY EventPlaces
<1>2. \A row : on(row) = Texts(events, N, row)
  BY <1>1 DEF Texts
<1>3. \A row : on(row) \in SUBSET (1..N)
  BY <1>1
<1>4. PageLines(events) = [row \in 1..Row(events, N) |-> spaced(At(events, on(row)))]
  BY DEF PageLines
<1> HIDE DEF on
<1>5. \A row : spaced(At(events, on(row))) = Spaced(events, on(row))
  BY <1>3, SpacedTexts
<1> HIDE DEF spaced
<1>6. PageLines(events) = PageUpTo(events, N)
  BY <1>2, <1>4, <1>5 DEF PageUpTo
<1>7. PageUpTo(events, N) \in Seq(Seq(Tokens))
  <2>1. CASE N = 0
    <3>1. <<<<>>>> \in Seq(Seq(Tokens))
      OBVIOUS
    <3> QED
      BY <2>1, <3>1, FirstPage
  <2>2. CASE N # 0
    <3>1. N \in 1..N
      BY <1>1, <2>2
    <3>2. PageUpTo(events, N - 1) \in Seq(Seq(Tokens))
      BY <3>1, PageIsLines
    <3>3. \A row : Spaced(events, Texts(events, N, row)) \in Seq(Tokens)
      BY <1>1, SpacedIsLine DEF Texts
    <3>4. Row(events, N) \in Nat
      BY <3>1, RowSteps DEF LinesEnded
    <3> HIDE DEF N
    <3> QED
      BY <3>3, <3>4 DEF PageUpTo
  <2> QED
    BY <2>1, <2>2
<1> QED
  BY <1>6, <1>7, WalkWritesPage

(* What the HTML extractor gets. *)
LEMMA HtmlSource == ASSUME CallInv, used = "html" PROVE source.events \in Events
<1>1. source \in Sources /\ Suits(source, used)
  BY DEF CallInv
<1>2. source.kind = "html"
  BY <1>1, RegistryAssumption DEF Suits
<1>3. source \in [kind : {"html"}, size : Sizes, events : Seq([what : STRING, word : STRING])]
  BY <1>1, <1>2, RegistryAssumption
<1> QED
  BY <1>3 DEF Events

(* The HTML extractor shows every word that is not in a subtree left out, in order, and its
   breaks part lines and paragraphs (html.Extractor.Extract, collectText). *)
THEOREM HtmlPagesKept == RegistrySpec => []HtmlKept
<1>1. CallInv /\ KeptInv => HtmlKept
  <2> SUFFICES ASSUME CallInv, KeptInv, used = "html", result \in {"ok", "no content"} PROVE HtmlKept
    BY DEF HtmlKept
  <2> DEFINE page == PageLines(source.events)
             out == NormalizeWhitespace(collectText(source.events))
             a == Artifact("text/plain", out, 0)
  <2>1. collectText(source.events) = page /\ page \in Seq(Seq(Tokens))
    BY HtmlSource, WalkWritesLines
  <2>2. SameParagraphs(page, IF isBlankText(out) THEN <<>> ELSE out)
    BY <2>1, NormalizeKeeps
  <2>3. Candidates = <<a>>
    BY DEF Candidates
  <2> HIDE DEF out
  <2>4. a.Text = out
    BY DEF Artifact
  <2> HIDE DEF a
  <2>5. artifacts = IF isBlankText(out) THEN <<>> ELSE <<a>>
    BY <2>3, <2>4, OneKept DEF KeptInv
  <2>6. (IF artifacts = <<>> THEN <<>> ELSE artifacts[1].Text) = IF isBlankText(out) THEN <<>> ELSE out
    BY <2>4, <2>5, OneElement
  <2> QED
    BY <2>2, <2>6 DEF HtmlKept
<1> QED
  BY <1>1, KeptInvariance, CallInvariance, PTL

(* The text, PDF and HTML extractors keep every word of their source, in its order, its
   paragraph and on its page, and only a source without any word has no content. *)
THEOREM ProseAlwaysKept == RegistrySpec => []ProseKept
<1>1. TextKept /\ PagesKept /\ HtmlKept => ProseKept
  BY DEF ProseKept
<1> QED
  BY <1>1, TextsKept, PageTextsKept, HtmlPagesKept, PTL

=============================================================================
