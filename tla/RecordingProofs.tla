-------------------------- MODULE RecordingProofs --------------------------
(***************************************************************************)
(* Theorems about Recording, for every set of headers and of bodies and    *)
(* for all limits that go together (SpanAssumption): what is recorded of   *)
(* a response is what was sent, and a span never outgrows its limit; and   *)
(* about Peek, for every request body and limit: what is read of a request *)
(* for the span is forwarded all the same, and what the span keeps of it   *)
(* is marked when it is not all.                                           *)
(*                                                                         *)
(* Bytes are numbered, so the copy and what was sent are known by their    *)
(* lengths (Numbered), and CaptureInv says how these go together.  The     *)
(* number of attributes is bounded because each top-level field makes one  *)
(* at most and each path needs room (SplitInv), and because every stage of *)
(* recording has its part of the limit (BudgetInv).  Of a request, the     *)
(* head and what was sent are beginnings of the body whose lengths account *)
(* for all that was read (PeekInv).                                        *)
(***************************************************************************)
EXTENDS Recording, Peek, FiniteSetTheorems, TLAPS

-----------------------------------------------------------------------------
(* The inductive invariant *)

\* A sequence of the first bytes of the response.
Numbered(s) == s \in Seq(Nat) /\ \A i \in 1..Len(s) : s[i] = i

CaptureTypeOK ==
    /\ serving \in {"before", "during", "after"} /\ live \in Headers
    /\ header \in Headers \cup {Nothing}
    /\ recording \in BOOLEAN /\ bodyCapture \in BOOLEAN /\ cut \in BOOLEAN
    /\ kind \in Kind
    /\ Numbered(bytes) /\ Numbered(captured)

\* What was captured and what was sent go side by side: the header is kept when it
\* is sent, the body is copied until there is no more room.
CaptureInv ==
    /\ serving = "before" => bytes = <<>>
    /\ recording => header = onWire
    /\ Len(captured) <= MaxBody
    /\ kind = "stream" => captured = <<>> /\ ~cut /\ ~bodyCapture
    /\ recording /\ kind # "stream" =>
          /\ bodyCapture
          /\ Len(captured) <= Len(bytes)
          /\ cut <=> Len(captured) < Len(bytes)

\* Each path has a sequence of values there was room for.
ValuesInv ==
    \A path \in DOMAIN values :
        LET texts == values[path]
        IN Len(texts) \in 0..MaxValues /\ texts = [i \in 1..Len(texts) |-> texts[i]]

\* A body has made no more attributes than it has fields, and paths there is room for.
SplitInv ==
    /\ nextField \in Nat \ {0}
    /\ IsFiniteSet(scalars) /\ Cardinality(scalars) < nextField
    /\ IsFiniteSet(DOMAIN values) /\ Cardinality(DOMAIN values) <= MaxPaths
    /\ ValuesInv
    /\ stage = "splitting" => Len(doc.fields) \in 1..MaxFields /\ nextField <= Len(doc.fields) + 1

\* The most attributes a body makes, and the headers of one side.
BodyBudget == MaxFields + MaxPaths + 1
HeaderBudget == MaxHeaders + 1

\* Each stage has used up no more than its part of the limit.
BudgetInv ==
    /\ stage \in Stage /\ side \in Sides /\ bodyAttrs \in Nat /\ headerAttrs \in Nat
    /\ stage \notin {"serving", "ended"} => recording
    /\ stage = "serving" => side = "request"
    /\ side = "request" => bodyAttrs = 0
    /\ side = "response" /\ stage \in {"recording", "splitting"} => bodyAttrs <= BodyBudget
    /\ bodyAttrs <= 2 * BodyBudget
    /\ stage # "ended" => headerAttrs = 0
    /\ headerAttrs <= 2 * HeaderBudget

IInv == CaptureTypeOK /\ CaptureInv /\ SplitInv /\ BudgetInv

-----------------------------------------------------------------------------
(* Captured bytes *)

LEMMA NumberedEmpty == Numbered(<<>>)
  BY DEF Numbered

\* A sequence of numbered bytes is known by its length.
LEMMA NumberedIs ==
    ASSUME NEW s, Numbered(s)
    PROVE  s = [i \in 1..Len(s) |-> i] /\ Len(s) \in Nat
  BY DEF Numbered

LEMMA NumberedPrefix ==
    ASSUME NEW s, NEW t, Numbered(s), Numbered(t), Len(s) <= Len(t)
    PROVE  IsPrefix(s, t)
  <1>1. s \in Seq(Nat) /\ t \in Seq(Nat) BY DEF Numbered
  <1>2. SubSeq(s, 1, Len(s)) = s BY <1>1
  <1>3. SubSeq(t, 1, Len(s)) = s BY <1>1 DEF Numbered
  <1> QED BY <1>2, <1>3 DEF IsPrefix

LEMMA NumberedEqual ==
    ASSUME NEW s, NEW t, Numbered(s), Numbered(t)
    PROVE  s = t <=> Len(s) = Len(t)
  BY NumberedIs

\* The bytes that follow s.
Following(s, w) == [i \in 1..w |-> Len(s) + i]

LEMMA NumberedGrows ==
    ASSUME NEW s, Numbered(s), NEW w \in Nat, NEW m \in Nat, m <= w
    PROVE  /\ Len(Following(s, w)) = w
           /\ Numbered(s \o SubSeq(Following(s, w), 1, m))
           /\ Len(s \o SubSeq(Following(s, w), 1, m)) = Len(s) + m
           /\ Numbered(s \o Following(s, w)) /\ Len(s \o Following(s, w)) = Len(s) + w
  <1> DEFINE p == Following(s, w)
             q == SubSeq(p, 1, m)
  <1>1. s \in Seq(Nat) /\ Len(s) \in Nat /\ \A i \in 1..Len(s) : s[i] = i BY DEF Numbered
  <1>2. p \in Seq(Nat) /\ Len(p) = w BY <1>1 DEF Following
  <1>3. q \in Seq(Nat) /\ Len(q) = m /\ \A i \in 1..m : q[i] = Len(s) + i BY <1>1, <1>2 DEF Following
  <1>4. ASSUME NEW r \in Seq(Nat), \A i \in 1..Len(r) : r[i] = Len(s) + i
        PROVE  Numbered(s \o r) /\ Len(s \o r) = Len(s) + Len(r)
    <2>1. Len(r) \in Nat /\ s \o r \in Seq(Nat) /\ Len(s \o r) = Len(s) + Len(r) BY <1>1
    <2>2. ASSUME NEW i \in 1..(Len(s) + Len(r)) PROVE (s \o r)[i] = i
      <3>1. CASE i <= Len(s) BY <3>1, <1>1
      <3>2. CASE i > Len(s)
        <4>1. i - Len(s) \in 1..Len(r) /\ (s \o r)[i] = r[i - Len(s)] BY <3>2, <1>1, <2>1
        <4> QED BY <4>1, <1>4, <1>1, <2>1
      <3> QED BY <3>1, <3>2, <1>1, <2>1
    <2> QED BY <2>1, <2>2 DEF Numbered
  <1>5. \A i \in 1..Len(p) : p[i] = Len(s) + i BY <1>2 DEF Following
  <1> HIDE DEF p, q
  <1>6. Numbered(s \o p) /\ Len(s \o p) = Len(s) + w BY <1>2, <1>4, <1>5
  <1>7. Numbered(s \o q) /\ Len(s \o q) = Len(s) + m BY <1>3, <1>4
  <1> QED BY <1>2, <1>6, <1>7 DEF p, q

-----------------------------------------------------------------------------
(* The inductive invariant holds initially *)

LEMMA InitInvariant == Init => IInv
  <1> SUFFICES ASSUME Init PROVE IInv OBVIOUS
  <1>1. CaptureTypeOK BY NumberedEmpty DEF Init, CaptureInit, CaptureTypeOK, Kind
  <1>2. CaptureInv
    <2>1. Len(<<>>) = 0 OBVIOUS
    <2> QED BY <2>1, CaptureAssumption DEF Init, CaptureInit, CaptureInv
  <1>3. SplitInv
    <2>1. stage = "serving" /\ nextField = 1 /\ scalars = {} /\ values = NoValues
      BY DEF Init, SplitInit
    <2>2. DOMAIN values = {} BY <2>1 DEF NoValues
    <2>3. IsFiniteSet({}) /\ Cardinality({}) = 0 BY FS_EmptySet
    <2> QED BY <2>1, <2>2, <2>3, LimitsAssumption DEF SplitInv, ValuesInv
  <1>4. BudgetInv
    <2>1. BodyBudget \in Nat /\ HeaderBudget \in Nat
      BY LimitsAssumption, HeaderAssumption DEF BodyBudget, HeaderBudget
    <2> QED BY <2>1 DEF Init, BudgetInv, Stage, Sides
  <1> QED BY <1>1, <1>2, <1>3, <1>4 DEF IInv

-----------------------------------------------------------------------------
(* The response on its way out *)

LEMMA ServeKeepsCapture ==
    ASSUME CaptureTypeOK, CaptureInv, CaptureStep
    PROVE  CaptureTypeOK' /\ CaptureInv' /\ recording' = recording
  <1> USE DEF CaptureTypeOK, CaptureInv, Kind
  <1>1. CASE InterimHead BY <1>1 DEF InterimHead
  <1>2. CASE ModifyResponse
    <2>1. Numbered(<<>>) BY DEF Numbered
    <2>2. CaptureTypeOK' BY <1>2, <2>1 DEF ModifyResponse
    <2>3. Len(bytes) = 0 BY <1>2 DEF ModifyResponse
    <2>4. CaptureInv' BY <1>2, <2>3, CaptureAssumption DEF ModifyResponse
    <2> QED BY <1>2, <2>2, <2>4 DEF ModifyResponse
  <1>3. CASE WriteHeader BY <1>3 DEF WriteHeader, CaptureHeader, CommitHeader
  <1>4. ASSUME NEW n \in 1..MaxResponse, NEW written \in 0..MaxResponse, Write(n, written)
        PROVE  CaptureTypeOK' /\ CaptureInv' /\ recording' = recording
    <2> DEFINE p == BytesOf(written)
               remaining == MaxBody - Len(captured)
               room == IF Len(p) > remaining THEN remaining ELSE Len(p)
    <2>1. written \in Nat /\ MaxBody \in Nat BY CaptureAssumption
    <2>2. Len(bytes) \in Nat /\ Len(captured) \in Nat BY NumberedIs
    <2>3. /\ Len(p) = written
          /\ Numbered(bytes \o p) /\ Len(bytes \o p) = Len(bytes) + written
      <3>1. written <= written BY <2>1
      <3>2. Numbered(bytes) OBVIOUS
      <3>3. p = Following(bytes, written) BY DEF BytesOf, Following
      <3> HIDE DEF p
      <3> QED BY <2>1, <3>1, <3>2, <3>3, NumberedGrows
    <2>4. bytes' = bytes \o p /\ serving' = serving /\ serving = "during"
      BY <1>4 DEF Write
    <2>5. /\ live' = live /\ recording' = recording /\ bodyCapture' = bodyCapture /\ kind' = kind
      BY <1>4 DEF Write
    <2>6. header' = (IF recording /\ header = Nothing THEN live ELSE header)
          /\ onWire' = (IF onWire = Nothing THEN live ELSE onWire)
      BY <1>4 DEF Write, CaptureHeader, CommitHeader
    <2> HIDE DEF p
    <2>7. Numbered(bytes') /\ Len(bytes') = Len(bytes) + written BY <2>3, <2>4
    <2>8. CASE ~recording \/ ~bodyCapture \/ cut
      <3>1. captured' = captured /\ cut' = cut BY <1>4, <2>8 DEF Write, CaptureBody
      <3>2. CaptureTypeOK' BY <3>1, <2>4, <2>5, <2>6, <2>7
      <3>3. CaptureInv' BY <3>1, <2>1, <2>2, <2>4, <2>5, <2>6, <2>7, <2>8
      <3> QED BY <3>2, <3>3, <2>5
    <2>9. CASE recording /\ bodyCapture /\ ~cut
      <3>1. captured' = captured \o SubSeq(p, 1, room) /\ cut' = (Len(p) > remaining)
        BY <1>4, <2>9 DEF Write, CaptureBody, p
      <3>2. captured = bytes
        <4>1. Len(captured) = Len(bytes) BY <2>2, <2>9
        <4> QED BY <4>1, NumberedEqual
      <3>3. room \in Nat /\ room <= written BY <2>1, <2>2, <2>3
      <3> HIDE DEF room
      <3>4. Numbered(captured') /\ Len(captured') = Len(captured) + room
        <4>1. Numbered(bytes \o SubSeq(p, 1, room))
              /\ Len(bytes \o SubSeq(p, 1, room)) = Len(bytes) + room
          <5>1. p = Following(bytes, written) BY DEF p, BytesOf, Following
          <5>2. Numbered(bytes) OBVIOUS
          <5> QED BY <2>1, <3>3, <5>1, <5>2, NumberedGrows
        <4> QED BY <4>1, <3>1, <3>2
      <3>5. cut' \in BOOLEAN /\ (cut' <=> room < written)
            /\ Len(captured) + room <= MaxBody
        <4>1. (Len(p) > remaining) \in BOOLEAN OBVIOUS
        <4>2. Len(p) > remaining <=> room < written BY <2>1, <2>2, <2>3 DEF room
        <4>3. Len(captured) <= MaxBody OBVIOUS
        <4>4. Len(captured) + room <= MaxBody BY <2>1, <2>2, <2>3, <4>3 DEF room
        <4> QED BY <3>1, <4>1, <4>2, <4>4
      <3>6. CaptureTypeOK' BY <3>4, <3>5, <2>4, <2>5, <2>6, <2>7
      <3>7. CaptureInv'
        BY <3>2, <3>3, <3>4, <3>5, <2>1, <2>2, <2>4, <2>5, <2>6, <2>7, <2>9
      <3> QED BY <3>6, <3>7, <2>5
    <2> QED BY <2>8, <2>9
  <1>5. CASE AnnounceTrailers BY <1>5 DEF AnnounceTrailers
  <1> QED BY <1>1, <1>2, <1>3, <1>4, <1>5 DEF CaptureStep

-----------------------------------------------------------------------------
(* A body taken apart *)

\* A new path is only added while there is room for one.
LEMMA EmitKeepsRoom ==
    ASSUME NEW path, NEW text, Emit(path, text),
           IsFiniteSet(DOMAIN values), Cardinality(DOMAIN values) <= MaxPaths
    PROVE  IsFiniteSet(DOMAIN values') /\ Cardinality(DOMAIN values') <= MaxPaths
  <1>1. CASE ~Fits(path) BY <1>1 DEF Emit
  <1>2. CASE Fits(path)
    <2>1. DOMAIN values' = DOMAIN values \cup {path} BY <1>2 DEF Emit
    <2>2. CASE path \in DOMAIN values
      <3>1. DOMAIN values' = DOMAIN values BY <2>1, <2>2
      <3> QED BY <3>1
    <2>3. CASE path \notin DOMAIN values
      <3>1. Cardinality(DOMAIN values) < MaxPaths BY <1>2, <2>3 DEF Fits
      <3>2. /\ IsFiniteSet(DOMAIN values \cup {path})
            /\ Cardinality(DOMAIN values \cup {path}) = Cardinality(DOMAIN values) + 1
        BY <2>3, FS_AddElement
      <3>3. Cardinality(DOMAIN values) \in Nat /\ MaxPaths \in Nat
        BY FS_CardinalityType, LimitsAssumption
      <3> QED BY <2>1, <3>1, <3>2, <3>3
    <2> QED BY <2>2, <2>3
  <1> QED BY <1>1, <1>2

\* A path gets one more value at most, while there is room for it.
LEMMA EmitKeepsValues ==
    ASSUME NEW path, NEW text, Emit(path, text), ValuesInv
    PROVE  ValuesInv'
  <1>1. CASE ~Fits(path) BY <1>1 DEF Emit, ValuesInv
  <1>2. CASE Fits(path)
    <2> DEFINE old == TextsOf(path)
               new == Append(old, text)
    <2>1. values' = [p \in DOMAIN values \cup {path} |-> IF p = path THEN new ELSE values[p]]
      BY <1>2 DEF Emit
    <2>2. MaxValues \in Nat \ {0} BY LimitsAssumption
    <2>3. /\ Len(old) \in Nat /\ Len(old) < MaxValues
          /\ old = [i \in 1..Len(old) |-> old[i]]
      <3>1. CASE path \in DOMAIN values
        BY <1>2, <2>2, <3>1 DEF Fits, TextsOf, ValuesInv
      <3>2. CASE path \notin DOMAIN values BY <2>2, <3>2 DEF TextsOf
      <3> QED BY <3>1, <3>2
    <2> HIDE DEF old
    <2>4. old \in Seq({old[i] : i \in 1..Len(old)} \cup {text}) BY <2>3
    <2>5. /\ new \in Seq({old[i] : i \in 1..Len(old)} \cup {text})
          /\ Len(new) = Len(old) + 1
      BY <2>4
    <2> HIDE DEF new
    <2>6. Len(new) \in 0..MaxValues /\ new = [i \in 1..Len(new) |-> new[i]]
      BY <2>2, <2>3, <2>5
    <2> QED BY <2>1, <2>6 DEF ValuesInv
  <1> QED BY <1>1, <1>2

\* Each field makes one attribute of its own at most; what is in it needs a path.
LEMMA SplitKeepsRoom ==
    ASSUME SplitInv, stage = "splitting", SplitStep, stage' = stage
    PROVE  SplitInv'
  <1>1. /\ nextField \in Nat \ {0} /\ Len(doc.fields) \in 1..MaxFields
        /\ nextField <= Len(doc.fields) + 1
        /\ IsFiniteSet(scalars) /\ Cardinality(scalars) < nextField
        /\ IsFiniteSet(DOMAIN values) /\ Cardinality(DOMAIN values) <= MaxPaths
    BY DEF SplitInv
  <1>2. Cardinality(scalars) \in Nat BY <1>1, FS_CardinalityType
  <1>3. CASE TakeScalar
    <2> DEFINE new == <<Name, Value.text>>
    <2>1. /\ nextField' = nextField + 1 /\ nextField <= Len(doc.fields)
          /\ scalars' = scalars \cup {new}
          /\ doc' = doc /\ values' = values
      BY <1>3 DEF TakeScalar, FieldIs
    <2> HIDE DEF new
    <2>2. /\ IsFiniteSet(scalars \cup {new})
          /\ Cardinality(scalars \cup {new}) <= Cardinality(scalars) + 1
      <3>1. CASE new \in scalars
        <4>1. scalars \cup {new} = scalars BY <3>1
        <4>2. /\ IsFiniteSet(scalars \cup {new})
              /\ Cardinality(scalars \cup {new}) = Cardinality(scalars)
          BY <4>1, <1>1, Zenon
        <4> QED BY <4>2, <1>2
      <3>2. CASE new \notin scalars
        <4>1. /\ IsFiniteSet(scalars \cup {new})
              /\ Cardinality(scalars \cup {new}) = Cardinality(scalars) + 1
          BY <3>2, <1>1, FS_AddElement
        <4> QED BY <4>1, <1>2
      <3> QED BY <3>1, <3>2
    <2>3. Cardinality(scalars \cup {new}) \in Nat BY <2>2, FS_CardinalityType
    <2> QED BY <1>1, <1>2, <2>1, <2>2, <2>3 DEF SplitInv, ValuesInv
  <1>4. CASE TakeMessages \/ TakeNested
    <2>1. /\ nextField' = nextField + 1 /\ nextField <= Len(doc.fields)
          /\ doc' = doc /\ values' = values /\ scalars' = scalars
      BY <1>4 DEF TakeMessages, TakeNested, FieldIs
    <2> QED BY <1>1, <1>2, <2>1 DEF SplitInv, ValuesInv
  <1>5. CASE TakeMessage \/ TakePlainMessage \/ WalkObject \/ WalkArray
    <2>1. /\ nextField' = nextField
          /\ doc' = doc /\ values' = values /\ scalars' = scalars
      BY <1>5 DEF TakeMessage, TakePlainMessage, WalkObject, WalkArray
    <2> QED BY <1>1, <2>1 DEF SplitInv, ValuesInv
  <1>6. CASE TakeRawMessage \/ WalkRaw \/ WalkLeaf
    <2>1. /\ nextField' = nextField /\ doc' = doc /\ scalars' = scalars
          /\ \E path, text : Emit(path, text)
      <3>1. CASE TakeRawMessage BY <3>1 DEF TakeRawMessage, EmitRaw
      <3>2. CASE WalkRaw BY <3>2 DEF WalkRaw, EmitRaw
      <3>3. CASE WalkLeaf BY <3>3 DEF WalkLeaf
      <3> QED BY <1>6, <3>1, <3>2, <3>3
    <2>2. PICK path, text : Emit(path, text) BY <2>1
    <2>3. IsFiniteSet(DOMAIN values') /\ Cardinality(DOMAIN values') <= MaxPaths
      BY <1>1, <2>2, EmitKeepsRoom
    <2>4. ValuesInv' BY <2>2, EmitKeepsValues DEF SplitInv
    <2> QED BY <1>1, <2>1, <2>3, <2>4 DEF SplitInv
  <1> QED BY <1>3, <1>4, <1>5, <1>6 DEF SplitStep

LEMMA BeginKeepsRoom ==
    ASSUME NEW document, Begin(document),
           stage' = "splitting" => Len(document.fields) \in 1..MaxFields
    PROVE  SplitInv'
  <1>1. doc' = document /\ nextField' = 1 /\ scalars' = {} /\ values' = NoValues BY DEF Begin
  <1>2. IsFiniteSet({}) /\ Cardinality({}) = 0 BY FS_EmptySet
  <1>3. DOMAIN values' = {} BY <1>1 DEF NoValues
  <1>4. 1 <= MaxFields /\ MaxFields \in Nat /\ MaxPaths \in Nat BY LimitsAssumption
  <1> QED BY <1>1, <1>2, <1>3, <1>4 DEF SplitInv, ValuesInv

\* A body that is taken apart fits its budget.
LEMMA SplitFitsBudget ==
    ASSUME SplitInv, stage = "splitting"
    PROVE  SplitCount \in Nat /\ SplitCount <= BodyBudget
  <1>1. Cardinality(scalars) \in Nat /\ Cardinality(DOMAIN values) \in Nat
    BY FS_CardinalityType DEF SplitInv
  <1>2. Cardinality(scalars) <= MaxFields /\ Cardinality(DOMAIN values) <= MaxPaths
        /\ MaxFields \in Nat /\ MaxPaths \in Nat
    BY <1>1, LimitsAssumption DEF SplitInv
  <1> QED BY <1>1, <1>2 DEF SplitCount, BodyBudget

-----------------------------------------------------------------------------
(* The attributes of headers *)

LEMMA HeadersFit ==
    ASSUME NEW h \in Headers
    PROVE  HeaderAttributes(h) \in Nat /\ HeaderAttributes(h) <= HeaderBudget
  <1> DEFINE keys == Cardinality(DOMAIN h)
             lost == keys > MaxHeaders \/ \E name \in DOMAIN h : h[name] > MaxHeaderValues
  <1>1. keys \in Nat BY HeaderAssumption, FS_CardinalityType
  <1>2. MaxHeaders \in Nat BY HeaderAssumption
  <1>3. HeaderAttributes(h) = (IF keys > MaxHeaders THEN MaxHeaders ELSE keys)
                              + (IF lost THEN 1 ELSE 0)
    BY DEF HeaderAttributes
  <1> HIDE DEF keys, lost
  <1> QED BY <1>1, <1>2, <1>3 DEF HeaderBudget

-----------------------------------------------------------------------------
(* The end of the span *)

LEMMA RecordFits ==
    ASSUME BudgetInv, stage \in {"recording", "splitting"},
           NEW count \in Nat, NEW truncated \in BOOLEAN,
           count + (IF truncated THEN 1 ELSE 0) <= BodyBudget,
           Record(count, truncated), UNCHANGED <<recording, headerAttrs>>
    PROVE  BudgetInv'
  <1> DEFINE more == count + (IF truncated THEN 1 ELSE 0)
  <1>1. more \in Nat /\ more <= BodyBudget OBVIOUS
  <1>2. bodyAttrs' = bodyAttrs + more /\ side' = "response"
        /\ stage' = (IF side = "request" THEN "recording" ELSE "headers")
    BY DEF Record, Proceed, BudgetInv
  <1>3. BodyBudget \in Nat BY LimitsAssumption DEF BodyBudget
  <1>4. HeaderBudget \in Nat BY HeaderAssumption DEF HeaderBudget
  <1> HIDE DEF more, BodyBudget, HeaderBudget
  <1>5. bodyAttrs' \in Nat /\ bodyAttrs' <= 2 * BodyBudget
        /\ (side = "request" => bodyAttrs' <= BodyBudget)
    BY <1>1, <1>2, <1>3 DEF BudgetInv, Sides
  <1>6. recording' = recording /\ headerAttrs' = headerAttrs OBVIOUS
  <1>7. CASE side = "request"
    BY <1>2, <1>4, <1>5, <1>6, <1>7 DEF BudgetInv, Stage, Sides
  <1>8. CASE side = "response"
    BY <1>2, <1>4, <1>5, <1>6, <1>8 DEF BudgetInv, Stage, Sides
  <1> QED BY <1>7, <1>8 DEF BudgetInv, Sides

\* What follows when the variables of a component stay as they are.
LEMMA CaptureUnchanged ==
    ASSUME CaptureTypeOK, CaptureInv, UNCHANGED captureVars
    PROVE  CaptureTypeOK' /\ CaptureInv'
  BY DEF CaptureTypeOK, CaptureInv, captureVars, Numbered

LEMMA SplitUnchanged ==
    ASSUME SplitInv, UNCHANGED splitVars, stage' # "splitting" \/ stage' = stage
    PROVE  SplitInv'
  BY DEF SplitInv, ValuesInv, splitVars

\* A body recorded as one text, on either side.
LEMMA TextFits ==
    ASSUME IInv, NEW d, NEW truncated \in BOOLEAN, NEW split \in BOOLEAN,
           RecordText(d, truncated, split)
    PROVE  IInv'
  <1>1. /\ stage = "recording" /\ Record(1, truncated)
        /\ UNCHANGED captureVars /\ UNCHANGED splitVars
        /\ UNCHANGED <<recording, headerAttrs>>
    BY DEF RecordText, captureVars
  <1>2. 1 + (IF truncated THEN 1 ELSE 0) <= BodyBudget
    BY LimitsAssumption DEF BodyBudget
  <1>3. BudgetInv' BY <1>1, <1>2, RecordFits DEF IInv
  <1>4. stage' # "splitting" BY <1>1 DEF Record, Proceed
  <1>5. CaptureTypeOK' /\ CaptureInv' BY <1>1, CaptureUnchanged DEF IInv
  <1>6. SplitInv' BY <1>1, <1>4, SplitUnchanged DEF IInv
  <1> QED BY <1>3, <1>5, <1>6 DEF IInv

LEMMA BeginSplitFits ==
    ASSUME IInv, NEW d, BeginSplit(d)
    PROVE  IInv'
  <1>1. /\ stage = "recording" /\ Splittable(d) /\ Begin(d) /\ stage' = "splitting"
        /\ UNCHANGED captureVars /\ UNCHANGED <<side, bodyAttrs, headerAttrs>>
    BY DEF BeginSplit
  <1>2. Len(d.fields) \in 1..MaxFields BY <1>1 DEF Splittable
  <1>3. CaptureTypeOK' /\ CaptureInv' BY <1>1, CaptureUnchanged DEF IInv
  <1>4. SplitInv' BY <1>1, <1>2, BeginKeepsRoom
  <1>5. recording' = recording BY <1>1 DEF captureVars
  <1>6. BudgetInv' BY <1>1, <1>5 DEF IInv, BudgetInv, Stage
  <1> QED BY <1>3, <1>4, <1>6 DEF IInv

LEMMA NextInvariant == IInv /\ [Next]_vars => IInv'
  <1> SUFFICES ASSUME IInv, [Next]_vars PROVE IInv' OBVIOUS
  <1> USE DEF Stage, Sides
  <1>1. CASE Serve
    <2>1. stage = "serving" /\ CaptureStep /\ UNCHANGED splitVars /\ UNCHANGED recordVars
      BY <1>1 DEF Serve
    <2>2. CaptureTypeOK' /\ CaptureInv' /\ recording' = recording
      BY <2>1, ServeKeepsCapture DEF IInv
    <2>3. SplitInv' BY <2>1, SplitUnchanged DEF IInv, recordVars
    <2>4. BudgetInv' BY <2>1, <2>2 DEF IInv, BudgetInv, recordVars
    <2> QED BY <2>2, <2>3, <2>4 DEF IInv
  <1>2. CASE End
    <2>1. /\ stage = "serving" /\ stage' = (IF recording THEN "recording" ELSE "ended")
          /\ UNCHANGED captureVars /\ UNCHANGED splitVars
          /\ UNCHANGED <<side, bodyAttrs, headerAttrs>>
      BY <1>2 DEF End
    <2>2. CaptureTypeOK' /\ CaptureInv' BY <2>1, CaptureUnchanged DEF IInv
    <2>3. stage' # "splitting" /\ SplitInv' BY <2>1, SplitUnchanged DEF IInv
    <2>4. recording' = recording BY <2>1 DEF captureVars
    <2>5. BudgetInv' BY <2>1, <2>4 DEF IInv, BudgetInv
    <2> QED BY <2>2, <2>3, <2>5 DEF IInv
  <1>3. CASE RecordRequest
    <2>1. PICK d \in Bodies : \/ \E truncated \in BOOLEAN : RecordText(d, truncated, TRUE)
                              \/ BeginSplit(d)
      BY <1>3 DEF RecordRequest
    <2> QED BY <2>1, TextFits, BeginSplitFits
  <1>4. CASE RecordResponse
    <2>1. cut \in BOOLEAN BY DEF IInv, CaptureTypeOK
    <2>2. PICK d \in Bodies : \/ RecordText(d, cut, FALSE) \/ RecordText(d, cut, TRUE)
                              \/ BeginSplit(d)
      BY <1>4 DEF RecordResponse, Snapshot
    <2> QED BY <2>1, <2>2, TextFits, BeginSplitFits
  <1>5. CASE SkipStream
    <2>1. /\ stage = "recording" /\ side = "response" /\ side' = "response" /\ stage' = "headers"
          /\ UNCHANGED captureVars /\ UNCHANGED splitVars
          /\ UNCHANGED <<bodyAttrs, headerAttrs>>
      BY <1>5 DEF SkipStream, Proceed
    <2>2. CaptureTypeOK' /\ CaptureInv' BY <2>1, CaptureUnchanged DEF IInv
    <2>3. SplitInv' BY <2>1, SplitUnchanged DEF IInv
    <2>4. recording' = recording BY <2>1 DEF captureVars
    <2>5. BudgetInv' BY <2>1, <2>4 DEF IInv, BudgetInv
    <2> QED BY <2>2, <2>3, <2>5 DEF IInv
  <1>6. CASE Split
    <2>1. stage = "splitting" /\ SplitStep /\ UNCHANGED captureVars /\ UNCHANGED recordVars
      BY <1>6 DEF Split
    <2>2. CaptureTypeOK' /\ CaptureInv' BY <2>1, CaptureUnchanged DEF IInv
    <2>3. stage' = stage /\ side' = side /\ bodyAttrs' = bodyAttrs /\ headerAttrs' = headerAttrs
      BY <2>1 DEF recordVars
    <2>4. SplitInv' BY <2>1, <2>3, SplitKeepsRoom DEF IInv
    <2>5. recording' = recording BY <2>1 DEF captureVars
    <2>6. BudgetInv' BY <2>3, <2>5 DEF IInv, BudgetInv
    <2> QED BY <2>2, <2>4, <2>6 DEF IInv
  <1>7. CASE EndSplit
    <2> DEFINE count == IF SplitInVain THEN 1 ELSE SplitCount
    <2>1. /\ stage = "splitting" /\ Record(count, FALSE)
          /\ Begin(Leaf("")) /\ UNCHANGED captureVars /\ UNCHANGED headerAttrs
      BY <1>7 DEF EndSplit
    <2>2. count \in Nat /\ count <= BodyBudget
      <3>1. 1 <= BodyBudget BY LimitsAssumption DEF BodyBudget
      <3>2. SplitCount \in Nat /\ SplitCount <= BodyBudget BY <2>1, SplitFitsBudget DEF IInv
      <3> QED BY <3>1, <3>2
    <2> HIDE DEF count
    <2>3. UNCHANGED <<recording, headerAttrs>> BY <2>1 DEF captureVars
    <2>4. count + (IF FALSE THEN 1 ELSE 0) <= BodyBudget BY <2>2
    <2>5. BudgetInv' BY <2>1, <2>2, <2>3, <2>4, RecordFits DEF IInv
    <2>6. stage' # "splitting" BY <2>1 DEF Record, Proceed
    <2>7. CaptureTypeOK' /\ CaptureInv' BY <2>1, CaptureUnchanged DEF IInv
    <2>8. SplitInv' BY <2>1, <2>6, BeginKeepsRoom
    <2> QED BY <2>5, <2>7, <2>8 DEF IInv
  <1>8. CASE RecordHeaders
    <2>1. PICK h \in Headers :
             headerAttrs' = HeaderAttributes(h) + HeaderAttributes(Snapshot.header)
      BY <1>8 DEF RecordHeaders
    <2>2. /\ stage = "headers" /\ stage' = "ended"
          /\ UNCHANGED captureVars /\ UNCHANGED splitVars /\ UNCHANGED <<side, bodyAttrs>>
      BY <1>8 DEF RecordHeaders
    <2>3. CaptureTypeOK' /\ CaptureInv' BY <2>2, CaptureUnchanged DEF IInv
    <2>4. SplitInv' BY <2>2, SplitUnchanged DEF IInv
    <2>5. recording /\ recording' = recording BY <2>2 DEF captureVars, IInv, BudgetInv
    <2>6. Snapshot.header \in Headers BY <2>5 DEF Snapshot, IInv, CaptureTypeOK
    <2>7. /\ HeaderAttributes(h) \in Nat /\ HeaderAttributes(h) <= HeaderBudget
          /\ HeaderAttributes(Snapshot.header) \in Nat
          /\ HeaderAttributes(Snapshot.header) <= HeaderBudget
      BY <2>6, HeadersFit
    <2>8. HeaderBudget \in Nat BY HeaderAssumption DEF HeaderBudget
    <2> HIDE DEF HeaderBudget
    <2>9. headerAttrs' \in Nat /\ headerAttrs' <= 2 * HeaderBudget BY <2>1, <2>7, <2>8
    <2>10. BudgetInv' BY <2>2, <2>5, <2>9 DEF IInv, BudgetInv
    <2> QED BY <2>3, <2>4, <2>10 DEF IInv
  <1>9. CASE UNCHANGED vars
    <2>1. UNCHANGED captureVars /\ UNCHANGED splitVars /\ UNCHANGED recordVars
      BY <1>9 DEF vars
    <2>2. CaptureTypeOK' /\ CaptureInv' BY <2>1, CaptureUnchanged DEF IInv
    <2>3. SplitInv' BY <2>1, SplitUnchanged DEF IInv, recordVars
    <2>4. BudgetInv' BY <2>1 DEF IInv, BudgetInv, recordVars, captureVars
    <2> QED BY <2>2, <2>3, <2>4 DEF IInv
  <1> QED BY <1>1, <1>2, <1>3, <1>4, <1>5, <1>6, <1>7, <1>8, <1>9 DEF Next

-----------------------------------------------------------------------------
(* Theorems *)

\* The inductive invariant holds in every reachable state.
THEOREM Invariance == Spec => []IInv
  BY InitInvariant, NextInvariant, PTL DEF Spec

\* Whenever the span ends, the header and the body on it are those the client was
\* sent, whatever happened to the header map before and afterwards, and what is
\* missing of the body is marked (observedWriter).
THEOREM ResponseIsTold == Spec => []RecordedIsSent
  <1>1. IInv => RecordedIsSent
    <2> SUFFICES ASSUME CaptureTypeOK, CaptureInv, recording PROVE RecordedIsSent
      BY DEF IInv, RecordedIsSent
    <2>1. Snapshot.header = (IF header = Nothing THEN live ELSE header)
          /\ Snapshot.body = captured /\ Snapshot.truncated = cut
      BY DEF Snapshot
    <2>2. header = onWire BY DEF CaptureInv
    <2>3. Numbered(bytes) /\ Numbered(captured) BY DEF CaptureTypeOK
    <2>4. Len(bytes) \in Nat /\ Len(captured) \in Nat BY <2>3, NumberedIs
    <2>5. CASE kind = "stream"
      <3>1. captured = <<>> /\ ~cut BY <2>5 DEF CaptureInv
      <3>2. Len(captured) <= Len(bytes) BY <2>4, <3>1
      <3>3. IsPrefix(captured, bytes) BY <2>3, <3>2, NumberedPrefix
      <3> QED BY <2>1, <2>2, <2>5, <3>1, <3>3 DEF RecordedIsSent
    <2>6. CASE kind # "stream"
      <3>1. Len(captured) <= Len(bytes) /\ (cut <=> Len(captured) < Len(bytes))
        BY <2>6 DEF CaptureInv
      <3>2. IsPrefix(captured, bytes) BY <2>3, <3>1, NumberedPrefix
      <3>3. captured = bytes <=> Len(captured) = Len(bytes) BY <2>3, NumberedEqual
      <3>4. cut <=> captured # bytes BY <2>4, <3>1, <3>3
      <3> QED BY <2>1, <2>2, <2>6, <3>2, <3>4 DEF RecordedIsSent
    <2> QED BY <2>5, <2>6
  <1> QED BY Invariance, <1>1, PTL

\* The copy of a body never outgrows its limit, however long the response is.
THEOREM CopyIsBounded == Spec => [](Len(captured) <= MaxBody)
  <1>1. IInv => Len(captured) <= MaxBody BY DEF IInv, CaptureInv
  <1> QED BY Invariance, <1>1, PTL

\* What the splitter holds stays within its limits, for any body.
THEOREM SplitterIsBounded == Spec => []SplitWithinLimits
  <1>1. IInv => SplitWithinLimits
    BY LimitsAssumption DEF IInv, SplitInv, ValuesInv, SplitWithinLimits
  <1> QED BY Invariance, <1>1, PTL

\* The server span keeps within the number of attributes beyond which the SDK drops
\* them (spanAttributeCountLimit), for all bodies and headers and all limits that
\* go together.
THEOREM SpanHasRoom == Spec => []SpanFits
  <1>1. IInv => SpanFits
    <2> SUFFICES ASSUME BudgetInv PROVE SpanFits BY DEF IInv
    <2>1. /\ bodyAttrs \in Nat /\ bodyAttrs <= 2 * BodyBudget
          /\ headerAttrs \in Nat /\ headerAttrs <= 2 * HeaderBudget
      BY DEF BudgetInv
    <2>2. FixedCount + 2 * BodyBudget + 2 * HeaderBudget <= SpanLimit
      BY SpanAssumption DEF BodyBudget, HeaderBudget
    <2>3. /\ BodyBudget \in Nat /\ HeaderBudget \in Nat
          /\ FixedCount \in Nat /\ SpanLimit \in Nat
      BY LimitsAssumption, HeaderAssumption DEF BodyBudget, HeaderBudget
    <2> HIDE DEF BodyBudget, HeaderBudget
    <2> QED BY <2>1, <2>2, <2>3 DEF SpanFits
  <1> QED BY Invariance, <1>1, PTL

-----------------------------------------------------------------------------
(* The body of the request, on its way to the upstream (module Peek) *)

\* s is the beginning of t.
Beginning(s, t) ==
    /\ s \in Seq(Token) /\ Len(s) <= Len(t)
    /\ \A i \in 1..Len(s) : s[i] = t[i]

PeekTypeOK ==
    /\ body \in Seq(Token) /\ arrives \in 0..Len(body) /\ read \in 0..arrives
    /\ taken \in 0..Len(head)
    /\ ending \in {"open", "whole", "cut"}

\* The head and what was sent are beginnings of the body, and together they account
\* for all that was read.
PeekInv ==
    /\ ~broken => arrives = Len(body)
    /\ Beginning(head, body) /\ Beginning(sent, body)
    /\ declared \in {Unknown, ToString(Len(body))}
    /\ Len(sent) + Len(head) = taken + read
    /\ taken < Len(head) \/ ~spliced => read = Len(head)
    /\ ~req.done => ~spliced /\ taken = 0 /\ ending = "open"

\* What PeekRequest returned: the whole body, or a beginning of it.
ResultInv ==
    /\ req.done /\ ~spliced =>
          ~broken /\ head = body /\ req.body = body /\ req.truncated = FALSE
    /\ req.done /\ spliced =>
          /\ Beginning(req.body, body) /\ req.truncated = TRUE
          /\ broken \/ Len(req.body) < Len(body)

\* How the transport's body ends.
EndingInv ==
    /\ ending = "whole" => ~broken /\ Len(sent) = Len(body)
    /\ ending = "cut" => Len(sent) = arrives

IInvPeek == PeekTypeOK /\ PeekInv /\ ResultInv /\ EndingInv

-----------------------------------------------------------------------------
\* The beginning of a beginning.
LEMMA BeginningOfBeginning ==
    ASSUME NEW t \in Seq(Token), NEW s, Beginning(s, t), NEW n \in 0..Len(s)
    PROVE  Beginning(SubSeq(s, 1, n), t) /\ Len(SubSeq(s, 1, n)) = n
  BY DEF Beginning

\* One sequence after another.
LEMMA Joined ==
    ASSUME NEW s \in Seq(Token), NEW more \in Seq(Token)
    PROVE  /\ s \o more \in Seq(Token) /\ Len(s \o more) = Len(s) + Len(more)
           /\ \A i \in 1..(Len(s) + Len(more)) :
                 (s \o more)[i] = IF i <= Len(s) THEN s[i] ELSE more[i - Len(s)]
  OBVIOUS

\* A beginning that goes on with what comes next is one.
LEMMA BeginningGoesOn ==
    ASSUME NEW t \in Seq(Token), NEW s, Beginning(s, t),
           NEW from \in Seq(Token), Beginning(from, t),
           NEW n \in Nat, Len(s) + n <= Len(from)
    PROVE  /\ Beginning(s \o SubSeq(from, Len(s) + 1, Len(s) + n), t)
           /\ Len(s \o SubSeq(from, Len(s) + 1, Len(s) + n)) = Len(s) + n
  <1>1. Len(s) \in Nat /\ Len(s) <= Len(t) /\ s \in Seq(Token)
        BY DEF Beginning
  <1>2. ASSUME NEW more \in Seq(Token), Len(more) = n,
               \A i \in 1..n : more[i] = from[Len(s) + i]
        PROVE  Beginning(s \o more, t) /\ Len(s \o more) = Len(s) + n
    <2>1. /\ s \o more \in Seq(Token) /\ Len(s \o more) = Len(s) + n
          /\ \A i \in 1..(Len(s) + n) :
                (s \o more)[i] = IF i <= Len(s) THEN s[i] ELSE more[i - Len(s)]
          BY <1>1, <1>2, Joined
    <2>2. ASSUME NEW i \in 1..(Len(s) + n)
          PROVE  (IF i <= Len(s) THEN s[i] ELSE more[i - Len(s)]) = t[i]
      <3>1. CASE i <= Len(s)
        <4>1. i \in 1..Len(s)
              BY <3>1, <1>1
        <4>2. s[i] = t[i]
              BY <4>1 DEF Beginning
        <4>3. QED BY <4>2, <3>1
      <3>2. CASE ~(i <= Len(s))
        <4>1. i - Len(s) \in 1..n /\ i = Len(s) + (i - Len(s)) /\ i \in 1..Len(from)
              BY <3>2, <1>1
        <4>2. more[i - Len(s)] = from[i] /\ from[i] = t[i]
              BY <4>1, <1>2 DEF Beginning
        <4>3. QED BY <3>2, <4>2
      <3>3. QED BY <3>1, <3>2
    <2>3. Len(s) + n <= Len(t)
          BY <1>1 DEF Beginning
    <2>4. QED BY <2>1, <2>2, <2>3 DEF Beginning
  <1>3. /\ SubSeq(from, Len(s) + 1, Len(s) + n) \in Seq(Token)
        /\ Len(SubSeq(from, Len(s) + 1, Len(s) + n)) = n
        /\ \A i \in 1..n : SubSeq(from, Len(s) + 1, Len(s) + n)[i] = from[Len(s) + i]
        BY <1>1
  <1>4. QED BY <1>2, <1>3

\* A beginning as long as the whole is the whole.
LEMMA WholeBeginning ==
    ASSUME NEW t \in Seq(Token), NEW s, Beginning(s, t), Len(s) = Len(t)
    PROVE  s = t
  BY DEF Beginning

LEMMA BeginningIsPrefix ==
    ASSUME NEW t \in Seq(Token), NEW s, Beginning(s, t)
    PROVE  IsPrefix(s, t) /\ s = SubSeq(t, 1, Len(s))
  <1>1. s \in Seq(Token) /\ Len(s) \in Nat /\ Len(s) <= Len(t) /\ Len(t) \in Nat
        BY DEF Beginning
  <1>2. SubSeq(t, 1, Len(s)) \in Seq(Token) /\ Len(SubSeq(t, 1, Len(s))) = Len(s)
        BY <1>1
  <1>3. \A i \in 1..Len(s) : SubSeq(t, 1, Len(s))[i] = s[i]
        BY <1>1 DEF Beginning
  <1>4. s = SubSeq(t, 1, Len(s))
        BY <1>1, <1>2, <1>3
  <1>5. SubSeq(s, 1, Len(s)) = s
        BY <1>1
  <1>6. QED BY <1>1, <1>4, <1>5 DEF IsPrefix

\* Before anything is read.
LEMMA PeekInitInvariant == PeekInit => IInvPeek
  <1> SUFFICES ASSUME PeekInit PROVE IInvPeek
      OBVIOUS
  <1>1. body \in Seq(Token) /\ Len(body) \in Nat
        BY BodiesAssumption DEF PeekInit
  <1>2. Beginning(<<>>, body)
        BY <1>1 DEF Beginning
  <1>3. req.done = FALSE
        BY DEF PeekInit, NotPeeked
  <1>4. Len(head) = 0 /\ Len(sent) = 0 /\ arrives \in Nat
        BY <1>1 DEF PeekInit
  <1>5. PeekTypeOK
        BY <1>1, <1>4 DEF PeekInit, PeekTypeOK
  <1>6. PeekInv
        BY <1>1, <1>2, <1>3, <1>4 DEF PeekInit, PeekInv
  <1>7. ResultInv /\ EndingInv
        BY <1>3 DEF PeekInit, ResultInv, EndingInv
  <1>8. QED BY <1>5, <1>6, <1>7 DEF IInvPeek

-----------------------------------------------------------------------------
(* What each step does to the invariant *)

\* io.ReadAll reads on.
LEMMA ReadSomePreserves ==
    ASSUME IInvPeek, NEW n \in 1..(Limit + 1), ReadSome(n)
    PROVE  IInvPeek'
  <1>1. body \in Seq(Token) /\ Len(body) \in Nat /\ n \in Nat /\ n > 0 /\ read \in Nat /\ arrives \in Nat
        BY LimitAssumption DEF IInvPeek, PeekTypeOK
  <1>2. Beginning(head, body) /\ Len(head) \in Nat /\ read = Len(head) /\ ~req.done /\ ~spliced
        BY DEF IInvPeek, PeekInv, Beginning, ReadSome
  <1>3. Beginning(body, body)
        BY <1>1 DEF Beginning
  <1>4. Len(head) + n <= Len(body) /\ read + n <= arrives
        BY <1>1, <1>2 DEF IInvPeek, PeekTypeOK, ReadSome
  <1>5. head' = head \o SubSeq(body, Len(head) + 1, Len(head) + n) /\ read' = read + n
        BY <1>2 DEF ReadSome
  <1>6. Beginning(head', body) /\ Len(head') = Len(head) + n
        BY <1>1, <1>2, <1>3, <1>4, <1>5, BeginningGoesOn
  <1>7. /\ body' = body /\ broken' = broken /\ arrives' = arrives /\ req' = req
        /\ spliced' = spliced /\ declared' = declared /\ taken' = taken /\ sent' = sent
        /\ ending' = ending /\ taken = 0 /\ ending = "open" /\ Len(sent) = 0
        BY <1>2 DEF ReadSome, clientVars, forwardVars, IInvPeek, PeekInv
  <1>8. PeekTypeOK'
        BY <1>1, <1>2, <1>4, <1>5, <1>6, <1>7 DEF IInvPeek, PeekTypeOK
  <1>9. PeekInv'
        BY <1>1, <1>2, <1>4, <1>5, <1>6, <1>7 DEF IInvPeek, PeekInv
  <1>10. ResultInv' /\ EndingInv'
        BY <1>2, <1>7 DEF ResultInv, EndingInv
  <1>11. QED BY <1>8, <1>9, <1>10 DEF IInvPeek

\* The head is cut.
LEMMA PeekCutPreserves ==
    ASSUME IInvPeek, PeekCut
    PROVE  IInvPeek'
  <1> DEFINE kept == Upto(head, Smaller(Limit, Len(head)))
  <1>1. body \in Seq(Token) /\ Len(body) \in Nat /\ Limit \in Nat
        BY LimitAssumption DEF IInvPeek, PeekTypeOK
  <1>2. Beginning(head, body) /\ Len(head) \in Nat /\ Len(head) <= Len(body)
        BY DEF IInvPeek, PeekInv, Beginning
  <1>3. Smaller(Limit, Len(head)) \in 0..Len(head)
        BY <1>1, <1>2 DEF Smaller
  <1>4. Beginning(kept, body) /\ Len(kept) = Smaller(Limit, Len(head))
        BY <1>1, <1>2, <1>3, BeginningOfBeginning DEF Upto
  <1>5. broken \/ Len(kept) < Len(body)
        BY <1>1, <1>2, <1>4 DEF PeekCut, Smaller
  <1> HIDE DEF kept
  <1>6. req' = [done |-> TRUE, body |-> kept, truncated |-> TRUE,
                model |-> ScanOf(kept).model, stream |-> ScanOf(kept).stream]
        BY DEF PeekCut, kept
  <1>7. req'.done = TRUE /\ req'.body = kept /\ req'.truncated = TRUE
        BY <1>6
  <1>8. /\ ~req.done /\ ~spliced /\ spliced' = TRUE /\ ending = "open" /\ ending' = ending
        /\ body' = body /\ broken' = broken /\ arrives' = arrives /\ read' = read /\ head' = head
        /\ declared' = declared /\ taken' = taken /\ sent' = sent
        BY DEF PeekCut, clientVars, forwardVars, IInvPeek, PeekInv
  <1>9. PeekTypeOK' /\ PeekInv'
        BY <1>7, <1>8 DEF IInvPeek, PeekTypeOK, PeekInv
  <1>10. ResultInv' /\ EndingInv'
        BY <1>4, <1>5, <1>7, <1>8 DEF ResultInv, EndingInv
  <1>11. QED BY <1>9, <1>10 DEF IInvPeek

\* The head is the body.
LEMMA PeekWholePreserves ==
    ASSUME IInvPeek, PeekWhole
    PROVE  IInvPeek'
  <1>1. body \in Seq(Token) /\ Len(body) \in Nat
        BY DEF IInvPeek, PeekTypeOK
  <1>2. Beginning(head, body) /\ Len(head) = Len(body)
        BY DEF IInvPeek, PeekInv, PeekWhole
  <1>3. head = body
        BY <1>1, <1>2, WholeBeginning
  <1>4. req'.done = TRUE /\ req'.body = head /\ req'.truncated = FALSE
        BY DEF PeekWhole
  <1>5. /\ ~req.done /\ ~spliced /\ spliced' = spliced /\ ending = "open" /\ ending' = ending
        /\ body' = body /\ broken' = broken /\ arrives' = arrives /\ read' = read /\ head' = head
        /\ declared' = ToString(Len(head)) /\ taken' = taken /\ sent' = sent /\ ~broken
        BY DEF PeekWhole, clientVars, forwardVars, IInvPeek, PeekInv
  <1>6. PeekTypeOK' /\ PeekInv'
        BY <1>3, <1>4, <1>5 DEF IInvPeek, PeekTypeOK, PeekInv
  <1>7. ResultInv' /\ EndingInv'
        BY <1>3, <1>4, <1>5 DEF ResultInv, EndingInv
  <1>8. QED BY <1>6, <1>7 DEF IInvPeek

\* The transport reads the head ...
LEMMA ForwardHeadPreserves ==
    ASSUME IInvPeek, NEW n \in 1..(Limit + 1), ForwardHead(n)
    PROVE  IInvPeek'
  <1>1. /\ body \in Seq(Token) /\ Len(body) \in Nat /\ n \in Nat /\ n > 0 /\ read \in Nat /\ arrives \in Nat
        /\ taken \in Nat
        BY LimitAssumption DEF IInvPeek, PeekTypeOK, PeekInv, Beginning
  <1>2. /\ Beginning(head, body) /\ head \in Seq(Token) /\ Len(head) \in Nat
        /\ Beginning(sent, body) /\ Len(sent) \in Nat
        BY DEF IInvPeek, PeekInv, Beginning
  <1>3. taken + n <= Len(head)
        BY <1>1, <1>2 DEF ForwardHead
  <1>4. taken + n <= Len(head) /\ read = Len(head) /\ Len(sent) = taken
        BY <1>1, <1>2, <1>3 DEF IInvPeek, PeekInv
  <1>5. sent' = sent \o SubSeq(head, Len(sent) + 1, Len(sent) + n) /\ taken' = taken + n
        BY <1>4 DEF ForwardHead
  <1>6. Beginning(sent', body) /\ Len(sent') = Len(sent) + n
        BY <1>1, <1>2, <1>4, <1>5, BeginningGoesOn
  <1>7. /\ req.done /\ ending = "open" /\ ending' = ending
        /\ body' = body /\ broken' = broken /\ arrives' = arrives /\ read' = read /\ head' = head
        /\ declared' = declared /\ req' = req /\ spliced' = spliced
        BY DEF ForwardHead, Forwarding, clientVars, peekVars
  <1>8. PeekTypeOK'
        BY <1>1, <1>2, <1>4, <1>5, <1>7 DEF IInvPeek, PeekTypeOK
  <1>9. PeekInv'
        BY <1>1, <1>2, <1>4, <1>5, <1>6, <1>7 DEF IInvPeek, PeekInv
  <1>10. ResultInv' /\ EndingInv'
        BY <1>7 DEF IInvPeek, ResultInv, EndingInv
  <1>11. QED BY <1>8, <1>9, <1>10 DEF IInvPeek

\* ... and then the connection.
LEMMA ForwardRestPreserves ==
    ASSUME IInvPeek, NEW n \in 1..(Limit + 1), ForwardRest(n)
    PROVE  IInvPeek'
  <1>1. /\ body \in Seq(Token) /\ Len(body) \in Nat /\ n \in Nat /\ n > 0 /\ read \in Nat /\ arrives \in Nat
        /\ arrives <= Len(body) /\ Beginning(body, body)
        BY LimitAssumption DEF IInvPeek, PeekTypeOK, Beginning
  <1>2. /\ Beginning(head, body) /\ Len(head) \in Nat
        /\ Beginning(sent, body) /\ Len(sent) \in Nat
        BY DEF IInvPeek, PeekInv, Beginning
  <1>3. taken = Len(head) /\ spliced /\ Len(sent) + Len(head) = taken + read
        BY DEF ForwardRest, IInvPeek, PeekInv
  <1>4. n <= arrives - read
        BY DEF ForwardRest
  <1>5. taken = Len(head) /\ Len(sent) = read /\ read + n <= arrives /\ spliced
        BY <1>1, <1>2, <1>3, <1>4
  <1>6. /\ sent' = sent \o SubSeq(body, Len(sent) + 1, Len(sent) + n) /\ read' = read + n
        /\ Len(sent) + n <= Len(body)
        BY <1>1, <1>5 DEF ForwardRest
  <1>7. Beginning(sent', body) /\ Len(sent') = Len(sent) + n
        BY <1>1, <1>2, <1>5, <1>6, BeginningGoesOn
  <1>8. /\ req.done /\ ending = "open" /\ ending' = ending
        /\ body' = body /\ broken' = broken /\ arrives' = arrives /\ taken' = taken /\ head' = head
        /\ declared' = declared /\ req' = req /\ spliced' = spliced
        BY DEF ForwardRest, Forwarding, clientVars, peekVars
  <1>9. PeekTypeOK'
        BY <1>1, <1>2, <1>5, <1>6, <1>8 DEF IInvPeek, PeekTypeOK
  <1>10. Len(head') = Len(head) /\ Len(sent') = read + n /\ taken' = Len(head) /\ read' = read + n
        BY <1>5, <1>6, <1>7, <1>8
  <1>11. Len(sent') + Len(head') = taken' + read' /\ ~(taken < Len(head))
        BY <1>1, <1>2, <1>5, <1>10
  <1>12. PeekInv'
        BY <1>2, <1>5, <1>7, <1>8, <1>11 DEF IInvPeek, PeekInv
  <1>13. ResultInv' /\ EndingInv'
        BY <1>8 DEF IInvPeek, ResultInv, EndingInv
  <1>14. QED BY <1>9, <1>12, <1>13 DEF IInvPeek

\* All was read.
LEMMA ForwardEndsPreserves ==
    ASSUME IInvPeek, ForwardEnds
    PROVE  IInvPeek'
  <1>1. /\ taken = Len(head) /\ (spliced => read = arrives) /\ req.done
        /\ ending' = IF spliced /\ broken THEN "cut" ELSE "whole"
        /\ body' = body /\ broken' = broken /\ arrives' = arrives /\ taken' = taken /\ head' = head
        /\ declared' = declared /\ req' = req /\ spliced' = spliced /\ sent' = sent /\ read' = read
        BY DEF ForwardEnds, Forwarding, clientVars, peekVars
  <1>2. /\ Len(body) \in Nat /\ read \in Nat /\ arrives \in Nat
        /\ Len(head) \in Nat /\ Len(sent) \in Nat
        BY DEF IInvPeek, PeekTypeOK, PeekInv, Beginning
  <1>3. Len(sent) = read
        BY <1>1, <1>2 DEF IInvPeek, PeekInv
  <1>4. PeekTypeOK' /\ PeekInv'
        BY <1>1 DEF IInvPeek, PeekTypeOK, PeekInv
  <1>5. ResultInv'
        BY <1>1 DEF IInvPeek, ResultInv
  <1>6. CASE spliced /\ broken
    <2>1. ending' = "cut" /\ read = arrives
          BY <1>1, <1>6
    <2>2. QED BY <2>1, <1>1, <1>3, <1>4, <1>5 DEF EndingInv, IInvPeek
  <1>7. CASE ~(spliced /\ broken)
    <2>1. ending' = "whole" /\ ~broken
          BY <1>1, <1>7 DEF IInvPeek, ResultInv, PeekTypeOK
    <2>2. read = Len(body)
          BY <1>1, <1>2, <2>1 DEF IInvPeek, ResultInv, PeekInv, PeekTypeOK
    <2>3. QED BY <2>1, <2>2, <1>1, <1>3, <1>4, <1>5 DEF EndingInv, IInvPeek
  <1>8. QED BY <1>6, <1>7

\* The request is sent again from its head.
LEMMA RetryPreserves ==
    ASSUME IInvPeek, Retry
    PROVE  IInvPeek'
  <1>1. /\ req.done /\ ~spliced
        /\ ending' = "open" /\ taken' = 0 /\ sent' = <<>>
        /\ body' = body /\ broken' = broken /\ arrives' = arrives /\ head' = head
        /\ declared' = declared /\ req' = req /\ spliced' = spliced /\ read' = read
        BY DEF Retry, clientVars, peekVars
  <1>2. body \in Seq(Token) /\ Len(head) \in Nat /\ read = Len(head)
        BY <1>1 DEF IInvPeek, PeekTypeOK, PeekInv, Beginning
  <1>3. Beginning(<<>>, body)
        BY <1>2 DEF Beginning
  <1>4. PeekTypeOK'
        BY <1>1, <1>2 DEF IInvPeek, PeekTypeOK
  <1>5. Len(<<>>) = 0 /\ read - Len(head) = 0
        BY <1>2
  <1>6. PeekInv'
        BY <1>1, <1>2, <1>3, <1>5 DEF IInvPeek, PeekInv
  <1>7. ResultInv' /\ EndingInv'
        BY <1>1 DEF IInvPeek, ResultInv, EndingInv
  <1>8. QED BY <1>4, <1>6, <1>7 DEF IInvPeek

\* The request is accounted for in every state, for all bodies and limits
\* (PeekRequest, splicedBody).
THEOREM PeekInvariance == PeekSpec => []IInvPeek
  <1>1. IInvPeek /\ [PeekNext]_requestVars => IInvPeek'
    <2> SUFFICES ASSUME IInvPeek, [PeekNext]_requestVars PROVE IInvPeek'
        OBVIOUS
    <2>1. CASE \E n \in 1..(Limit + 1) : ReadSome(n) \/ ForwardHead(n) \/ ForwardRest(n)
          BY <2>1, ReadSomePreserves, ForwardHeadPreserves, ForwardRestPreserves
    <2>2. CASE UNCHANGED requestVars
          BY <2>2 DEF requestVars, clientVars, peekVars, forwardVars,
                      IInvPeek, PeekTypeOK, PeekInv, ResultInv, EndingInv
    <2>3. QED BY <2>1, <2>2, PeekCutPreserves, PeekWholePreserves, ForwardEndsPreserves,
                 RetryPreserves DEF PeekNext
  <1>2. QED BY <1>1, PeekInitInvariant, PTL DEF PeekSpec

\* Whatever the proxy reads of a request for itself, the upstream gets all of it, in
\* order and once, also when the transport sends it again (PeekRequest, splicedBody).
THEOREM ForwardingSafe == PeekSpec => []ForwardedInFull
  <1>1. IInvPeek => ForwardedInFull
    <2> SUFFICES ASSUME IInvPeek PROVE ForwardedInFull
        OBVIOUS
    <2>1. body \in Seq(Token) /\ Beginning(sent, body) /\ declared \in {Unknown, ToString(Len(body))}
          BY DEF IInvPeek, PeekTypeOK, PeekInv
    <2>2. IsPrefix(sent, body) /\ sent = SubSeq(body, 1, Len(sent))
          BY <2>1, BeginningIsPrefix
    <2>3. ASSUME ending = "whole" PROVE ~broken /\ sent = body
          BY <2>1, <2>3, WholeBeginning DEF IInvPeek, EndingInv
    <2>4. ASSUME ending = "cut" PROVE sent = Upto(body, arrives)
          BY <2>2, <2>4 DEF IInvPeek, EndingInv, Upto
    <2>5. QED BY <2>1, <2>2, <2>3, <2>4 DEF ForwardedInFull
  <1>2. QED BY <1>1, PeekInvariance, PTL

\* What the span keeps of the request is its beginning, marked when that is not all
\* (PeekRequest, boundedTraceBody).
THEOREM RequestLossMarked == PeekSpec => []RequestLossIsMarked
  <1>1. IInvPeek => RequestLossIsMarked
    <2> SUFFICES ASSUME IInvPeek, req.done
                 PROVE  /\ IsPrefix(RequestBody.text, body)
                        /\ RequestBody.truncated <=> (RequestBody.text # body \/ broken)
        BY DEF RequestLossIsMarked
    <2> DEFINE text == Upto(req.body, Smaller(TraceLimit, Len(req.body)))
    <2>1. body \in Seq(Token) /\ Len(body) \in Nat /\ TraceLimit \in Nat
          BY LimitAssumption DEF IInvPeek, PeekTypeOK
    <2>2. Beginning(body, body)
          BY <2>1 DEF Beginning
    <2>3. Beginning(req.body, body) /\ Len(req.body) \in Nat /\ Len(req.body) <= Len(body)
          BY <2>2 DEF IInvPeek, ResultInv, Beginning
    <2>4. Smaller(TraceLimit, Len(req.body)) \in 0..Len(req.body)
          BY <2>1, <2>3 DEF Smaller
    <2>5. Beginning(text, body) /\ Len(text) = Smaller(TraceLimit, Len(req.body))
          BY <2>1, <2>3, <2>4, BeginningOfBeginning DEF Upto
    <2>6. RequestBody.text = text /\ RequestBody.truncated = (req.truncated \/ Len(req.body) > TraceLimit)
          BY DEF RequestBody
    <2> HIDE DEF text
    <2>7. IsPrefix(text, body)
          BY <2>1, <2>5, BeginningIsPrefix
    <2>8. text = body <=> Len(text) = Len(body)
          BY <2>1, <2>5, WholeBeginning
    <2>9. CASE spliced
      <3>1. req.truncated = TRUE /\ (broken \/ Len(req.body) < Len(body))
            BY <2>9 DEF IInvPeek, ResultInv
      <3>2. text # body \/ broken
            BY <3>1, <2>1, <2>3, <2>4, <2>5, <2>8
      <3>3. QED BY <3>1, <3>2, <2>6, <2>7
    <2>10. CASE ~spliced
      <3>1. ~broken /\ req.body = body /\ req.truncated = FALSE
            BY <2>10 DEF IInvPeek, ResultInv
      <3>2. Len(body) > TraceLimit <=> Len(text) # Len(body)
            BY <3>1, <2>1, <2>5 DEF Smaller
      <3>3. QED BY <3>1, <3>2, <2>6, <2>7, <2>8
    <2>11. QED BY <2>9, <2>10
  <1>2. QED BY <1>1, PeekInvariance, PTL
=============================================================================
