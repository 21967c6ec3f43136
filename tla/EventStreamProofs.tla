------------------------- MODULE EventStreamProofs -------------------------
(***************************************************************************)
(* Theorems about EventStream, for every limit and every set of streams:   *)
(* whatever arrives and however it is cut, the parser keeps its type and   *)
(* its limits.                                                             *)
(*                                                                         *)
(* What makes the limits inductive is that a partial line is kept only     *)
(* when it is not too long together with what follows it, and that the     *)
(* payload is checked after it has been joined; the payload becomes the    *)
(* last one as it is.                                                      *)
(*                                                                         *)
(* What makes the parser a reader of the whole stream is InPlace: what it  *)
(* has in hand and what it carries are neighbouring pieces of the stream,  *)
(* so that the first line end in hand ends the piece that begins with what *)
(* is carried.  From it every turn of Feed is a step of LineReader or none.*)
(***************************************************************************)
EXTENDS EventStream, SequenceTheorems, WellFoundedInduction, TLAPS

\* A parser of the right type within its limits.
Fit(p) == /\ p \in Parser
          /\ Len(p.carry) <= MaxLine
          /\ Len(p.data) <= MaxLine
          /\ Len(p.last) <= MaxLine

IInv == TypeOK /\ WithinLimits

-----------------------------------------------------------------------------
\* A cut out of a text is a text.
LEMMA SubText ==
    ASSUME NEW s \in Seq(Symbol), NEW m \in Nat \ {0}, NEW n \in 0..Len(s)
    PROVE  SubSeq(s, m, n) \in Seq(Symbol)
<1>1. \A i \in m..n : s[i] \in Symbol
  BY ElementOfSeq
<1> QED BY <1>1, SubSeqProperties

\* A text with a line end in it has a first one.
LEMMA FirstBreak ==
    ASSUME NEW s \in Seq(Symbol), HasEOL(s)
    PROVE  /\ IndexEOL(s) \in 1..Len(s)
           /\ s[IndexEOL(s)] \in EOL
           /\ \A j \in 1..(IndexEOL(s) - 1) : s[j] \notin EOL
<1> DEFINE R == OpToRel(<, Nat)
           T == {i \in DOMAIN s : s[i] \in EOL}
<1>1. DOMAIN s = 1..Len(s) /\ Len(s) \in Nat
  BY LenProperties
<1>2. T \subseteq Nat /\ T # {}
  BY <1>1 DEF HasEOL
<1>3. PICK i \in T : \A j \in T : <<j, i>> \notin R
  <2> HIDE DEF R, T
  <2>1. IsWellFoundedOn(R, Nat)
    BY NatLessThanWellFounded DEF R
  <2> QED BY <1>2, <2>1, WFMin
<1>4. \A j \in 1..(i - 1) : s[j] \notin EOL
  <2> SUFFICES ASSUME NEW j \in 1..(i - 1), s[j] \in EOL PROVE FALSE
    OBVIOUS
  <2>1. j \in T /\ j < i
    BY <1>1
  <2>2. <<j, i>> \in R
    BY <2>1, <1>2 DEF OpToRel
  <2> QED BY <2>1, <2>2, <1>3
<1> QED BY <1>1, <1>3, <1>4 DEF IndexEOL

\* splitLine takes a text apart into texts.
LEMMA SplitType ==
    ASSUME NEW s \in Seq(Symbol), HasEOL(s)
    PROVE  /\ LineOf(s) \in Seq(Symbol)
           /\ After(s) \in Seq(Symbol)
           /\ EndsInCR(s) \in BOOLEAN
<1> DEFINE i == IndexEOL(s)
<1>1. i \in 1..Len(s) /\ Len(s) \in Nat
  BY FirstBreak, LenProperties
<1>2. LineStart(s, i) \in Nat \ {0}
  BY <1>1 DEF LineStart
<1>3. LineOf(s) \in Seq(Symbol)
  BY <1>1, SubText DEF LineOf
<1>4. After(s) \in Seq(Symbol)
  BY <1>1, <1>2, SubText DEF After
<1> QED BY <1>3, <1>4 DEF EndsInCR

\* Without its prefix and its space a line is a text.
LEMMA ValueType ==
    ASSUME NEW line \in Seq(Symbol)
    PROVE  ValueOf(line) \in Seq(Symbol)
<1> DEFINE value == SubSeq(line, Len(dataPrefix) + 1, Len(line))
<1>1. Len(dataPrefix) = 2
  BY DEF dataPrefix
<1>2. value \in Seq(Symbol)
  BY <1>1, SubText, LenProperties
<1>3. value # <<>> => Tail(value) \in Seq(Symbol)
  BY <1>2, HeadTailProperties
<1> QED BY <1>2, <1>3 DEF ValueOf

LEMMA TextType ==
    ASSUME NEW p, NEW line \in Seq(Symbol)
    PROVE  Text(p, line) \in Seq(Symbol)
<1>1. IsPrefix(byteOrder, line) => line # <<>>
  BY LenProperties DEF IsPrefix, byteOrder
<1> QED BY <1>1, HeadTailProperties DEF Text

-----------------------------------------------------------------------------
\* Dropping a line keeps the parser in its limits.
LEMMA DropLineFit ==
    ASSUME NEW p, Fit(p)
    PROVE  Fit(DropLine(p))
<1> DEFINE q == DropLine(p)
<1>0. p \in Parser /\ <<>> \in Seq(Symbol) /\ p.dropped + 1 \in Nat
  BY EmptySeq DEF Fit, Parser
<1>1. q \in Parser
  BY <1>0, Zenon DEF Parser, DropLine
<1>2. q.carry = p.carry /\ q.data = <<>> /\ q.last = p.last
  BY DEF Fit, Parser, DropLine
<1> QED BY <1>1, <1>2, EmptySeq, MaxLineAssumption DEF Fit

\* So does the end of an event, whose payload may become the last one.
LEMMA DispatchedFit ==
    ASSUME NEW p, Fit(p)
    PROVE  Fit(Dispatched(p)) /\ Calls(p) \in Seq(Call)
<1> DEFINE q == Dispatched(p)
<1>0. p \in Parser /\ <<>> \in Seq(Symbol) /\ p.chunks + 1 \in Nat
  BY EmptySeq DEF Fit, Parser
<1>1. q \in Parser
  BY <1>0, Zenon DEF Parser, Dispatched
<1>2. q.carry = p.carry /\ q.data = <<>> /\ q.last \in {p.last, p.data}
  BY DEF Fit, Parser, Dispatched
<1>3. Fit(q)
  BY <1>1, <1>2, EmptySeq, MaxLineAssumption DEF Fit
<1>4. [payload |-> p.data, terminal |-> p.data = Done] \in Call
  BY DEF Fit, Parser, Call
<1> QED BY <1>3, <1>4 DEF Calls

\* So does one more data line: what is joined is looked at before it is kept.
LEMMA WithValueFit ==
    ASSUME NEW p, Fit(p), NEW value \in Seq(Symbol)
    PROVE  Fit(WithValue(p, value))
<1> DEFINE between == IF p.dataSeen THEN <<"LF">> ELSE <<>>
           joined == p.data \o between \o value
<1>1. "LF" \in Symbol
  BY DEF Symbol, EOL
<1>2. between \in Seq(Symbol) /\ p.data \in Seq(Symbol)
  BY <1>1 DEF Fit, Parser
<1>3. joined \in Seq(Symbol)
  BY <1>2, ConcatProperties
<1>4. CASE Len(joined) > MaxLine
  BY <1>4, DropLineFit DEF WithValue
<1>5. CASE ~(Len(joined) > MaxLine)
  <2> HIDE DEF joined
  <2>1. Len(joined) <= MaxLine
    <3>1. Len(joined) \in Nat
      BY <1>3, LenProperties
    <3> QED BY <3>1, <1>5, MaxLineAssumption
  <2> DEFINE q == [p EXCEPT !.data = joined, !.dataSeen = TRUE]
  <2>2. q \in Parser
    BY <1>3, Zenon DEF Fit, Parser
  <2>3. q.carry = p.carry /\ q.data = joined /\ q.last = p.last
    BY DEF Fit, Parser
  <2>4. Fit(q)
    BY <2>1, <2>2, <2>3 DEF Fit
  <2> QED BY <1>5, <2>4 DEF WithValue, joined
<1> QED BY <1>4, <1>5

\* A whole line, processed, leaves the parser in its limits.
LEMMA ProcessedFit ==
    ASSUME NEW p, Fit(p), NEW line \in Seq(Symbol)
    PROVE  Fit(Processed(p, line)) /\ CallsOn(p, line) \in Seq(Call)
<1> DEFINE q == [p EXCEPT !.lineSeen = TRUE]
           text == Text(p, line)
<1>1. Fit(q)
  BY DEF Fit, Parser
<1>2. ValueOf(text) \in Seq(Symbol)
  BY TextType, ValueType
<1>3. Fit(Dispatched(q)) /\ Fit(WithValue(q, ValueOf(text)))
  BY <1>1, <1>2, DispatchedFit, WithValueFit
<1>4. Fit(Processed(p, line))
  BY <1>1, <1>3 DEF Processed
<1>5. CallsOn(p, line) \in Seq(Call)
  BY DispatchedFit DEF CallsOn
<1> QED BY <1>4, <1>5

-----------------------------------------------------------------------------
LEMMA InitIInv == Init => IInv
<1> SUFFICES ASSUME Init PROVE IInv
  OBVIOUS
<1>1. TypeOK
  <2>1. stream \in Seq(Symbol) /\ at \in 0..Len(stream)
    BY StreamsAssumption, LenProperties DEF Init
  <2>2. b \in Seq(Symbol) /\ out \in Seq(Call) /\ finished \in BOOLEAN
    BY EmptySeq DEF Init
  <2>3. parser \in Parser
    BY EmptySeq DEF Init, NewParser, Parser
  <2> QED BY <2>1, <2>2, <2>3 DEF TypeOK
<1>2. WithinLimits
  BY MaxLineAssumption DEF Init, NewParser, WithinLimits
<1> QED BY <1>1, <1>2 DEF IInv

\* A turn of Feed takes over a parser that fits and a rest that is a text.
LEMMA TurnKeeps ==
    ASSUME IInv, NEW rest \in Seq(Symbol), Turn(rest), Fit(parser'), out' \in Seq(Call)
    PROVE  IInv'
BY DEF IInv, TypeOK, WithinLimits, Turn, Fit

\* The flag splitLine leaves and the carry that is used up change no limit.
LEMMA FlagsFit ==
    ASSUME NEW p, Fit(p), NEW f \in BOOLEAN, NEW g \in BOOLEAN
    PROVE  /\ Fit([p EXCEPT !.pendingLF = f])
           /\ Fit([p EXCEPT !.dropping = g, !.pendingLF = f])
           /\ Fit([p EXCEPT !.carry = <<>>, !.pendingLF = f])
           /\ Fit([p EXCEPT !.carry = <<>>, !.dropping = g, !.pendingLF = f])
           /\ Fit([p EXCEPT !.pendingLF = f, !.dropping = g, !.carry = <<>>])
<1>1. p \in Parser /\ <<>> \in Seq(Symbol)
  BY EmptySeq DEF Fit
<1>2. ASSUME NEW q \in Parser, q.carry \in {p.carry, <<>>}, q.data = p.data, q.last = p.last
      PROVE  Fit(q)
  <2>1. Len(q.carry) <= MaxLine
    BY <1>2, MaxLineAssumption DEF Fit
  <2> QED BY <1>2, <2>1 DEF Fit
<1>3. Fit([p EXCEPT !.pendingLF = f])
  <2> DEFINE q == [p EXCEPT !.pendingLF = f]
  <2>1. q \in Parser
    BY <1>1, Zenon DEF Parser
  <2>2. q.carry \in {p.carry, <<>>} /\ q.data = p.data /\ q.last = p.last
    BY <1>1 DEF Parser
  <2> QED BY <2>1, <2>2, <1>2
<1>4. Fit([p EXCEPT !.dropping = g, !.pendingLF = f])
  <2> DEFINE q == [p EXCEPT !.dropping = g, !.pendingLF = f]
  <2>1. q \in Parser
    BY <1>1, Zenon DEF Parser
  <2>2. q.carry \in {p.carry, <<>>} /\ q.data = p.data /\ q.last = p.last
    BY <1>1 DEF Parser
  <2> QED BY <2>1, <2>2, <1>2
<1>5. Fit([p EXCEPT !.carry = <<>>, !.pendingLF = f])
  <2> DEFINE q == [p EXCEPT !.carry = <<>>, !.pendingLF = f]
  <2>1. q \in Parser
    BY <1>1, Zenon DEF Parser
  <2>2. q.carry \in {p.carry, <<>>} /\ q.data = p.data /\ q.last = p.last
    BY <1>1 DEF Parser
  <2> QED BY <2>1, <2>2, <1>2
<1>6. Fit([p EXCEPT !.carry = <<>>, !.dropping = g, !.pendingLF = f])
  <2> DEFINE q == [p EXCEPT !.carry = <<>>, !.dropping = g, !.pendingLF = f]
  <2>1. q \in Parser
    BY <1>1, Zenon DEF Parser
  <2>2. q.carry \in {p.carry, <<>>} /\ q.data = p.data /\ q.last = p.last
    BY <1>1 DEF Parser
  <2> QED BY <2>1, <2>2, <1>2
<1>7. Fit([p EXCEPT !.pendingLF = f, !.dropping = g, !.carry = <<>>])
  <2> DEFINE q == [p EXCEPT !.pendingLF = f, !.dropping = g, !.carry = <<>>]
  <2>1. q \in Parser
    BY <1>1, Zenon DEF Parser
  <2>2. q.carry \in {p.carry, <<>>} /\ q.data = p.data /\ q.last = p.last
    BY <1>1 DEF Parser
  <2> QED BY <2>1, <2>2, <1>2
<1> QED BY <1>3, <1>4, <1>5, <1>6, <1>7

LEMMA NextIInv == IInv /\ [Next]_vars => IInv'
<1> SUFFICES ASSUME IInv, [Next]_vars PROVE IInv'
  OBVIOUS
<1>1. Fit(parser) /\ b \in Seq(Symbol) /\ out \in Seq(Call)
  BY DEF IInv, TypeOK, WithinLimits, Fit
<1>2. ASSUME HasEOL(b)
      PROVE  /\ LineOf(b) \in Seq(Symbol) /\ After(b) \in Seq(Symbol)
             /\ EndsInCR(b) \in BOOLEAN
  BY <1>1, <1>2, SplitType
<1>3. ASSUME NEW n \in 1..Len(stream), Feed(n) PROVE IInv'
  <2>1. stream \in Seq(Symbol) /\ Len(stream) \in Nat /\ at \in 0..Len(stream)
    BY LenProperties DEF IInv, TypeOK
  <2>2. at + n \in 0..Len(stream) /\ at + 1 \in Nat \ {0}
    BY <1>3, <2>1 DEF Feed
  <2>3. SubSeq(stream, at + 1, at + n) \in Seq(Symbol)
    BY <2>1, <2>2, SubText
  <2> QED BY <1>3, <2>2, <2>3 DEF Feed, IInv, TypeOK, WithinLimits
<1>4. CASE SkipLF
  <2>1. Tail(b) \in Seq(Symbol)
    BY <1>1, <1>4, HeadTailProperties DEF SkipLF
  <2>2. Fit(parser')
    BY <1>1, <1>4, FlagsFit DEF SkipLF
  <2> QED BY <1>1, <1>4, <2>1, <2>2, TurnKeeps DEF SkipLF
<1>5. CASE EndDropping
  <2>1. Fit(parser')
    BY <1>1, <1>2, <1>5, FlagsFit DEF EndDropping
  <2> QED BY <1>1, <1>2, <1>5, <2>1, TurnKeeps DEF EndDropping
<1>6. CASE KeepDropping
  <2>1. Fit(parser')
    BY <1>1, <1>6, FlagsFit DEF KeepDropping
  <2> QED BY <1>1, <1>6, <2>1, EmptySeq, TurnKeeps DEF KeepDropping
<1>7. CASE CarryPartial
  <2>1. Collected(b) \in Seq(Symbol) /\ Len(Collected(b)) <= MaxLine
    <3>1. parser.carry \in Seq(Symbol)
      BY <1>1 DEF Fit, Parser
    <3>2. /\ Collected(b) \in Seq(Symbol)
          /\ Len(Collected(b)) = Len(parser.carry) + Len(b)
      BY <1>1, <3>1, ConcatProperties DEF Collected
    <3> QED BY <1>1, <1>7, <3>1, <3>2, LenProperties, MaxLineAssumption
            DEF CarryPartial, Overflows
  <2>2. Fit(parser')
    <3>1. parser' \in Parser
      BY <1>1, <1>7, <2>1, Zenon DEF CarryPartial, Fit, Parser
    <3>2. /\ parser'.carry = Collected(b)
          /\ parser'.data = parser.data /\ parser'.last = parser.last
      BY <1>1, <1>7 DEF CarryPartial, Fit, Parser
    <3> QED BY <1>1, <2>1, <3>1, <3>2 DEF Fit
  <2> QED BY <1>1, <1>7, <2>2, EmptySeq, TurnKeeps DEF CarryPartial
<1>8. CASE DropPartial
  <2>1. Fit(parser')
    BY <1>1, <1>8, DropLineFit, FlagsFit DEF DropPartial
  <2> QED BY <1>1, <1>8, <2>1, EmptySeq, TurnKeeps DEF DropPartial
<1>9. CASE DropWhole
  <2>1. Fit(parser')
    BY <1>1, <1>2, <1>9, DropLineFit, FlagsFit DEF DropWhole
  <2> QED BY <1>1, <1>2, <1>9, <2>1, TurnKeeps DEF DropWhole
<1>10. CASE TakeLine
  <2>1. Collected(LineOf(b)) \in Seq(Symbol)
    BY <1>1, <1>2, <1>10, ConcatProperties DEF TakeLine, Collected, Fit, Parser
  <2>2. /\ Fit(Processed(parser, Collected(LineOf(b))))
        /\ CallsOn(parser, Collected(LineOf(b))) \in Seq(Call)
    BY <1>1, <2>1, ProcessedFit
  <2>3. Fit(parser')
    BY <1>2, <1>10, <2>2, FlagsFit DEF TakeLine
  <2>4. out' \in Seq(Call)
    BY <1>1, <1>10, <2>2, ConcatProperties DEF TakeLine
  <2> QED BY <1>2, <1>10, <2>3, <2>4, TurnKeeps DEF TakeLine
<1>11. CASE Finish
  <2> DEFINE p == [parser EXCEPT !.pendingLF = FALSE, !.dropping = FALSE, !.carry = <<>>]
             carried == ~parser.dropping /\ parser.carry # <<>>
             q == IF carried THEN Processed(p, parser.carry) ELSE p
             first == IF carried THEN CallsOn(p, parser.carry) ELSE <<>>
  <2>1. Fit(p)
    BY <1>1, FlagsFit
  <2>2. parser.carry \in Seq(Symbol)
    BY <1>1 DEF Fit, Parser
  <2>3. Fit(q) /\ first \in Seq(Call)
    BY <2>1, <2>2, ProcessedFit, EmptySeq
  <2>4. Fit(Dispatched(q)) /\ Calls(q) \in Seq(Call)
    BY <2>3, DispatchedFit
  <2>5. parser' = Dispatched(q) /\ out' = out \o first \o Calls(q)
    BY <1>11 DEF Finish
  <2>6. out' \in Seq(Call)
    BY <1>1, <2>3, <2>4, <2>5, ConcatProperties
  <2> QED BY <1>11, <2>4, <2>5, <2>6 DEF Finish, IInv, TypeOK, WithinLimits, Fit
<1>12. CASE UNCHANGED vars
  BY <1>12 DEF vars, IInv, TypeOK, WithinLimits
<1> QED BY <1>3, <1>4, <1>5, <1>6, <1>7, <1>8, <1>9, <1>10, <1>11, <1>12 DEF Next

-----------------------------------------------------------------------------
\* The inductive invariant holds in every reachable state.
THEOREM Invariance == Spec => []IInv
BY InitIInv, NextIInv, PTL DEF Spec

\* Type correctness: what Feed and Finish do to the fields of Parser.
THEOREM TypeCorrect == Spec => []TypeOK
<1>1. IInv => TypeOK
  BY DEF IInv
<1> QED BY <1>1, Invariance, PTL

\* The parser keeps at most MaxLine of a line, of an event and of the last
\* payload, for every MaxLine, every stream and every way to cut it.
THEOREM LimitsHold == Spec => []WithinLimits
<1>1. IInv => WithinLimits
  BY DEF IInv
<1> QED BY <1>1, Invariance, PTL

-----------------------------------------------------------------------------
(* What the reader that has the whole stream knows is what the parser knows    *)
(* without what is carried: processLine and dropLine do not look at it.        *)

\* Two parsers with the same fields are the same.
LEMMA SameFields ==
    ASSUME NEW p \in Parser, NEW q \in Parser,
           p.carry = q.carry, p.pendingLF = q.pendingLF, p.lineSeen = q.lineSeen,
           p.data = q.data, p.dataSeen = q.dataSeen, p.dataDropped = q.dataDropped,
           p.last = q.last, p.chunks = q.chunks, p.dropping = q.dropping,
           p.dropped = q.dropped, p.sawDone = q.sawDone
    PROVE  p = q
BY DEF Parser

\* What is between lines, field by field.
LEMMA BetweenFields ==
    ASSUME NEW p \in Parser
    PROVE  LET q == BetweenLines(p)
           IN /\ q \in Parser
              /\ q.carry = <<>> /\ q.pendingLF = FALSE /\ q.dropping = FALSE
              /\ q.lineSeen = p.lineSeen /\ q.data = p.data
              /\ q.dataSeen = p.dataSeen /\ q.dataDropped = p.dataDropped
              /\ q.last = p.last /\ q.chunks = p.chunks
              /\ q.dropped = p.dropped /\ q.sawDone = p.sawDone
<1>1. BetweenLines(p) \in Parser
  BY EmptySeq, Zenon DEF BetweenLines, Parser
<1> QED BY <1>1 DEF BetweenLines, Parser

\* It depends on nothing else.
Agree(p, q) ==
    /\ p.lineSeen = q.lineSeen /\ p.data = q.data /\ p.dataSeen = q.dataSeen
    /\ p.dataDropped = q.dataDropped /\ p.last = q.last /\ p.chunks = q.chunks
    /\ p.dropped = q.dropped /\ p.sawDone = q.sawDone
AtRest(p) == p.carry = <<>> /\ p.pendingLF = FALSE /\ p.dropping = FALSE

LEMMA BetweenIs ==
    ASSUME NEW p \in Parser, NEW q \in Parser, AtRest(q), Agree(p, q)
    PROVE  BetweenLines(p) = q
<1> DEFINE r == BetweenLines(p)
<1>1. /\ r \in Parser
      /\ r.carry = <<>> /\ r.pendingLF = FALSE /\ r.dropping = FALSE
      /\ r.lineSeen = p.lineSeen /\ r.data = p.data
      /\ r.dataSeen = p.dataSeen /\ r.dataDropped = p.dataDropped
      /\ r.last = p.last /\ r.chunks = p.chunks
      /\ r.dropped = p.dropped /\ r.sawDone = p.sawDone
  BY BetweenFields
<1> HIDE DEF r
<1>2. r = q
  BY <1>1, SameFields DEF AtRest, Agree
<1> QED BY <1>2 DEF r

LEMMA BetweenAgree ==
    ASSUME NEW p \in Parser, NEW q \in Parser, Agree(p, q)
    PROVE  BetweenLines(p) = BetweenLines(q)
<1> DEFINE r == BetweenLines(q)
<1>1. r \in Parser /\ AtRest(r) /\ Agree(q, r)
  BY BetweenFields DEF AtRest, Agree
<1> HIDE DEF r
<1>2. Agree(p, r)
  BY <1>1 DEF Agree
<1>3. BetweenLines(p) = r
  BY <1>1, <1>2, BetweenIs
<1> QED BY <1>3 DEF r

LEMMA BetweenFit ==
    ASSUME NEW p, Fit(p)
    PROVE  /\ Fit(BetweenLines(p))
           /\ AtRest(BetweenLines(p))
           /\ Agree(p, BetweenLines(p))
<1> DEFINE q == BetweenLines(p)
<1>1. p \in Parser
  BY DEF Fit
<1>2. /\ q \in Parser
      /\ q.carry = <<>> /\ q.pendingLF = FALSE /\ q.dropping = FALSE
      /\ q.lineSeen = p.lineSeen /\ q.data = p.data
      /\ q.dataSeen = p.dataSeen /\ q.dataDropped = p.dataDropped
      /\ q.last = p.last /\ q.chunks = p.chunks
      /\ q.dropped = p.dropped /\ q.sawDone = p.sawDone
  BY <1>1, BetweenFields
<1> HIDE DEF q
<1>3. Fit(q)
  BY <1>2, MaxLineAssumption DEF Fit
<1>4. AtRest(q) /\ Agree(p, q)
  BY <1>2 DEF AtRest, Agree
<1> QED BY <1>3, <1>4 DEF q

-----------------------------------------------------------------------------
\* An operation that looks at the fields of Agree, and changes no others, is the
\* same thing before and after the others are forgotten.
LEMMA DropLineBetween ==
    ASSUME NEW p, Fit(p)
    PROVE  BetweenLines(DropLine(p)) = DropLine(BetweenLines(p))
<1> DEFINE q == BetweenLines(p)
<1>1. Fit(q) /\ AtRest(q) /\ Agree(p, q)
  BY BetweenFit
<1> HIDE DEF q
<1>2. Fit(DropLine(p)) /\ Fit(DropLine(q))
  BY <1>1, DropLineFit
<1>3. AtRest(DropLine(q)) /\ Agree(DropLine(p), DropLine(q))
  BY <1>1 DEF Fit, Parser, AtRest, Agree, DropLine
<1>4. BetweenLines(DropLine(p)) = DropLine(q)
  BY <1>2, <1>3, BetweenIs DEF Fit
<1> QED BY <1>4 DEF q

LEMMA DispatchedBetween ==
    ASSUME NEW p, Fit(p)
    PROVE  /\ BetweenLines(Dispatched(p)) = Dispatched(BetweenLines(p))
           /\ Calls(p) = Calls(BetweenLines(p))
<1> DEFINE q == BetweenLines(p)
<1>1. Fit(q) /\ AtRest(q) /\ Agree(p, q)
  BY BetweenFit
<1> HIDE DEF q
<1>2. Fit(Dispatched(p)) /\ Fit(Dispatched(q))
  BY <1>1, DispatchedFit
<1>3. Dispatches(p) = Dispatches(q)
  BY <1>1 DEF Agree, Dispatches
<1>4. AtRest(Dispatched(q)) /\ Agree(Dispatched(p), Dispatched(q))
  <2>1. CASE ~Dispatches(p)
    BY <1>1, <1>3, <2>1 DEF Fit, Parser, AtRest, Agree, Dispatched
  <2>2. CASE Dispatches(p) /\ p.data = Done
    BY <1>1, <1>3, <2>2 DEF Fit, Parser, AtRest, Agree, Dispatched
  <2>3. CASE Dispatches(p) /\ p.data # Done
    BY <1>1, <1>3, <2>3 DEF Fit, Parser, AtRest, Agree, Dispatched
  <2> QED BY <2>1, <2>2, <2>3
<1>5. BetweenLines(Dispatched(p)) = Dispatched(q)
  BY <1>2, <1>4, BetweenIs DEF Fit
<1>6. Calls(p) = Calls(q)
  BY <1>1, <1>3 DEF Agree, Calls
<1> QED BY <1>5, <1>6 DEF q

LEMMA WithValueBetween ==
    ASSUME NEW p, Fit(p), NEW value \in Seq(Symbol)
    PROVE  BetweenLines(WithValue(p, value)) = WithValue(BetweenLines(p), value)
<1> DEFINE q == BetweenLines(p)
           joined == p.data \o (IF p.dataSeen THEN <<"LF">> ELSE <<>>) \o value
<1>1. Fit(q) /\ AtRest(q) /\ Agree(p, q)
  BY BetweenFit
<1> HIDE DEF q
<1>2. Fit(WithValue(p, value)) /\ Fit(WithValue(q, value))
  BY <1>1, WithValueFit
<1>3. joined = q.data \o (IF q.dataSeen THEN <<"LF">> ELSE <<>>) \o value
  BY <1>1 DEF Agree
<1> HIDE DEF joined
<1>4. CASE Len(joined) > MaxLine
  <2>1. WithValue(p, value) = DropLine(p) /\ WithValue(q, value) = DropLine(q)
    BY <1>3, <1>4 DEF WithValue, joined
  <2> QED BY <2>1, DropLineBetween DEF q
<1>5. CASE ~(Len(joined) > MaxLine)
  <2>1. /\ WithValue(p, value) = [p EXCEPT !.data = joined, !.dataSeen = TRUE]
        /\ WithValue(q, value) = [q EXCEPT !.data = joined, !.dataSeen = TRUE]
    BY <1>3, <1>5 DEF WithValue, joined
  <2>2. AtRest(WithValue(q, value)) /\ Agree(WithValue(p, value), WithValue(q, value))
    BY <1>1, <2>1 DEF Fit, Parser, AtRest, Agree
  <2>3. BetweenLines(WithValue(p, value)) = WithValue(q, value)
    BY <1>2, <2>2, BetweenIs DEF Fit
  <2> QED BY <2>3 DEF q
<1> QED BY <1>4, <1>5

LEMMA ProcessedBetween ==
    ASSUME NEW p, Fit(p), NEW line \in Seq(Symbol)
    PROVE  /\ BetweenLines(Processed(p, line)) = Processed(BetweenLines(p), line)
           /\ CallsOn(p, line) = CallsOn(BetweenLines(p), line)
<1> DEFINE q == BetweenLines(p)
           r == [p EXCEPT !.lineSeen = TRUE]
           s == [q EXCEPT !.lineSeen = TRUE]
           text == Text(p, line)
<1>1. Fit(q) /\ AtRest(q) /\ Agree(p, q)
  BY BetweenFit
<1>2. text = Text(q, line)
  BY <1>1 DEF Agree, Text
<1>3. Fit(r) /\ Fit(s)
  <2> HIDE DEF q
  <2> QED BY <1>1 DEF Fit, Parser
<1>4. BetweenLines(r) = s
  <2>1. AtRest(s) /\ Agree(r, s)
    <3> HIDE DEF q
    <3> QED BY <1>1 DEF Fit, Parser, AtRest, Agree
  <2> HIDE DEF r, s
  <2> QED BY <1>3, <2>1, BetweenIs DEF Fit
<1>5. ValueOf(text) \in Seq(Symbol)
  BY TextType, ValueType
<1>6. CallsOn(p, line) = CallsOn(q, line)
  BY <1>2, DispatchedBetween DEF CallsOn
<1>7. q.dataDropped = p.dataDropped
  BY <1>1 DEF Agree
<1>8. BetweenLines(Processed(p, line)) = Processed(q, line)
  <2>1. /\ BetweenLines(Dispatched(r)) = Dispatched(s)
        /\ BetweenLines(WithValue(r, ValueOf(text))) = WithValue(s, ValueOf(text))
    <3> HIDE DEF r, s, text
    <3> QED BY <1>3, <1>4, <1>5, DispatchedBetween, WithValueBetween
  <2>2. /\ Processed(p, line) = IF text = <<>> THEN Dispatched(r)
                                ELSE IF IsPrefix(dataPrefix, text) /\ ~p.dataDropped
                                     THEN WithValue(r, ValueOf(text)) ELSE r
        /\ Processed(q, line) = IF text = <<>> THEN Dispatched(s)
                                ELSE IF IsPrefix(dataPrefix, text) /\ ~p.dataDropped
                                     THEN WithValue(s, ValueOf(text)) ELSE s
    <3> HIDE DEF q
    <3> QED BY <1>2, <1>7 DEF Processed
  <2> HIDE DEF r, s, text, q
  <2> QED BY <1>4, <2>1, <2>2
<1> QED BY <1>6, <1>8

-----------------------------------------------------------------------------
(* Where the parser is in the stream *)

\* What is in hand, and what is carried, are the pieces of the stream just before `at`
\* and just before that; nothing is carried while an LF may follow or a line is dropped,
\* and no line end is carried.
InPlace ==
    /\ Len(b) <= at
    /\ Len(parser.carry) <= Consumed
    /\ \A i \in 1..Len(b) : b[i] = stream[Consumed + i]
    /\ \A i \in 1..Len(parser.carry) :
          /\ parser.carry[i] = stream[Consumed - Len(parser.carry) + i]
          /\ parser.carry[i] \notin EOL
    /\ parser.pendingLF => parser.carry = <<>> /\ ~parser.dropping
    /\ parser.dropping => parser.carry = <<>>
    /\ finished => b = <<>>

RInv == IInv /\ InPlace

\* A tail of the text in hand is in place at the end of what has been fed.
LEMMA TailInPlace ==
    ASSUME NEW s \in Seq(Symbol), NEW t \in Seq(Symbol), NEW c \in Nat,
           c + Len(t) <= Len(s), \A i \in 1..Len(t) : t[i] = s[c + i],
           NEW m \in 1..(Len(t) + 1)
    PROVE  LET r == SubSeq(t, m, Len(t))
           IN /\ r \in Seq(Symbol)
              /\ Len(r) + m = Len(t) + 1
              /\ \A i \in 1..Len(r) : r[i] = s[c + (m - 1) + i]
<1> DEFINE r == SubSeq(t, m, Len(t))
<1>1. Len(t) \in Nat
  BY LenProperties
<1>2. r \in Seq(Symbol) /\ Len(r) = Len(t) - m + 1
  BY <1>1, SubText, SubSeqProperties
<1>3. \A i \in 1..Len(r) : r[i] = t[m + i - 1]
  BY <1>1, <1>2, SubSeqProperties
<1>4. ASSUME NEW i \in 1..Len(r) PROVE r[i] = s[c + (m - 1) + i]
  <2>1. m + i - 1 \in 1..Len(t)
    BY <1>1, <1>2
  <2>2. t[m + i - 1] = s[c + (m + i - 1)]
    BY <2>1
  <2>3. c + (m + i - 1) = c + (m - 1) + i
    BY <1>1, <1>2
  <2> QED BY <1>3, <2>2, <2>3
<1>5. Len(r) + m = Len(t) + 1
  BY <1>1, <1>2
<1> QED BY <1>2, <1>4, <1>5

\* The types of it all, and where the chunk in hand ends.
LEMMA Places ==
    ASSUME RInv
    PROVE  /\ stream \in Seq(Symbol) /\ Len(stream) \in Nat
           /\ at \in Nat /\ at <= Len(stream)
           /\ b \in Seq(Symbol) /\ Len(b) \in Nat
           /\ parser.carry \in Seq(Symbol) /\ Len(parser.carry) \in Nat
           /\ Consumed \in Nat /\ Consumed + Len(b) = at
           /\ Len(parser.carry) <= Consumed
<1>1. /\ stream \in Seq(Symbol) /\ Len(stream) \in Nat
      /\ at \in 0..Len(stream) /\ b \in Seq(Symbol) /\ Len(b) \in Nat
  BY LenProperties DEF RInv, IInv, TypeOK
<1>2. parser.carry \in Seq(Symbol) /\ Len(parser.carry) \in Nat
  BY LenProperties DEF RInv, IInv, TypeOK, Parser
<1>3. Consumed \in Nat /\ Consumed + Len(b) = at
  BY <1>1 DEF RInv, InPlace, Consumed
<1>4. Len(parser.carry) <= Consumed
  BY DEF RInv, InPlace
<1> QED BY <1>1, <1>2, <1>3, <1>4

\* What is carried, with what follows it up to the next line end or the end of the
\* chunk, is the piece of the stream it is taken for, and there is no line end in it.
LEMMA CarriedLine ==
    ASSUME RInv, NEW n \in 0..Len(b), \A i \in 1..n : b[i] \notin EOL,
           NEW from \in Nat, from + Len(parser.carry) = Consumed + 1
    PROVE  /\ \A i \in from..(Consumed + n) : stream[i] \notin EOL
           /\ parser.carry \o SubSeq(b, 1, n) = SubSeq(stream, from, Consumed + n)
           /\ Len(SubSeq(stream, from, Consumed + n)) = Len(parser.carry) + n
<1> DEFINE s == stream
           u == parser.carry
           t == b
           c == Consumed
<1>0. /\ s \in Seq(Symbol) /\ u \in Seq(Symbol) /\ t \in Seq(Symbol)
      /\ c \in Nat /\ c + Len(t) <= Len(s) /\ Len(u) <= c
      /\ \A i \in 1..Len(t) : t[i] = s[c + i]
      /\ \A i \in 1..Len(u) : u[i] = s[c - Len(u) + i] /\ u[i] \notin EOL
      /\ n \in 0..Len(t)
      /\ \A i \in 1..n : t[i] \notin EOL
      /\ from + Len(u) = c + 1
  <2>1. \A i \in 1..Len(parser.carry) :
           /\ parser.carry[i] = stream[Consumed - Len(parser.carry) + i]
           /\ parser.carry[i] \notin EOL
    BY DEF RInv, InPlace
  <2>2. \A i \in 1..Len(b) : b[i] = stream[Consumed + i]
    BY DEF RInv, InPlace
  <2> QED BY <2>1, <2>2, Places
<1> HIDE DEF s, u, t, c
<1> DEFINE v == SubSeq(t, 1, n)
           w == SubSeq(s, from, c + n)
<1>1. /\ Len(t) \in Nat /\ Len(u) \in Nat /\ Len(s) \in Nat /\ c \in Nat
      /\ c + Len(t) <= Len(s) /\ Len(u) <= c /\ from + Len(u) = c + 1
      /\ n \in 0..Len(t)
  BY <1>0, LenProperties
<1>2. from \in 1..(c + 1) /\ c + n \in 0..Len(s)
  BY <1>1
<1>3. v \in Seq(Symbol) /\ Len(v) = n /\ \A i \in 1..n : v[i] = t[i]
  BY <1>0, <1>1, SubText, SubSeqProperties
<1>4. w \in Seq(Symbol) /\ Len(w) = Len(u) + n
  <2>1. s \in Seq(Symbol) /\ from \in Nat \ {0}
    BY <1>0, <1>2
  <2>2. \A i \in from..(c + n) : s[i] \in Symbol
    BY <1>2, <2>1, ElementOfSeq
  <2>3. Len(w) = IF from <= c + n THEN c + n - from + 1 ELSE 0
    BY <1>1, <1>2, <2>2, SubSeqProperties
  <2> QED BY <1>1, <1>2, <2>1, <2>3, SubText
<1>5. \A i \in 1..Len(w) : w[i] = s[from + i - 1]
  BY <1>0, <1>1, <1>2, <1>4, ElementOfSeq, SubSeqProperties
<1>6. u \o v \in Seq(Symbol) /\ Len(u \o v) = Len(u) + n
  BY <1>0, <1>1, <1>3, ConcatProperties
<1>7. \A i \in 1..(Len(u) + n) : (u \o v)[i] = IF i <= Len(u) THEN u[i] ELSE v[i - Len(u)]
  BY <1>0, <1>1, <1>3, ConcatProperties
<1>8. ASSUME NEW i \in 1..(Len(u) + n) PROVE (u \o v)[i] = w[i] /\ w[i] \notin EOL
  <2>1. w[i] = s[from + i - 1]
    BY <1>4, <1>5
  <2>2. CASE i <= Len(u)
    <3>1. i \in 1..Len(u) /\ from + i - 1 = c - Len(u) + i
      BY <1>1, <2>2
    <3> QED BY <1>0, <1>7, <2>1, <2>2, <3>1
  <2>3. CASE ~(i <= Len(u))
    <3>1. i - Len(u) \in 1..n /\ i - Len(u) \in 1..Len(t)
      BY <1>1, <2>3
    <3>2. from + i - 1 = c + (i - Len(u))
      BY <1>1
    <3>3. v[i - Len(u)] = t[i - Len(u)] /\ t[i - Len(u)] = s[c + (i - Len(u))]
      BY <1>0, <1>3, <3>1
    <3>4. t[i - Len(u)] \notin EOL
      BY <1>0, <3>1
    <3> QED BY <1>7, <2>1, <2>3, <3>2, <3>3, <3>4
  <2> QED BY <2>2, <2>3
<1>9. u \o v = w
  <2> HIDE DEF v, w
  <2> QED BY <1>3, <1>4, <1>6, <1>8, SeqEqual
<1>10. ASSUME NEW i \in from..(c + n) PROVE s[i] \notin EOL
  <2>1. i - from + 1 \in 1..(Len(u) + n) /\ i = from + (i - from + 1) - 1
    BY <1>1, <1>2
  <2>2. w[i - from + 1] = s[from + (i - from + 1) - 1]
    BY <1>4, <1>5, <2>1
  <2> QED BY <1>8, <2>1, <2>2
<1> QED BY <1>4, <1>9, <1>10 DEF s, u, t, c, v, w

\* When an LF that may follow does not, the line to be read begins with what is carried.
LEMMA NothingFollows ==
    ASSUME RInv, b # <<>>, ~LFIsPending
    PROVE  /\ LineBegins = Consumed - Len(parser.carry) + 1
           /\ LineBegins \in 1..(Consumed + 1)
<1>1. Len(b) >= 1
  BY Places, EmptySeq
<1>2. Consumed < Len(stream) /\ b[1] = stream[Consumed + 1]
  BY <1>1, Places DEF RInv, InPlace
<1>3. ~LFFollows
  BY <1>2 DEF LFFollows, LFIsPending
<1> QED BY <1>3, Places DEF LineBegins

\* The first line end in hand ends the line to be read, and what is carried, with what
\* comes before it, is that line.
LEMMA LineEnds ==
    ASSUME RInv, b # <<>>, ~LFIsPending, HasEOL(b)
    PROVE  LET e == Consumed + IndexEOL(b)
           IN /\ e \in 1..Len(stream)
              /\ LineBegins \in 1..e
              /\ stream[e] \in EOL
              /\ \A i \in LineBegins..(e - 1) : stream[i] \notin EOL
              /\ SubSeq(stream, LineBegins, e - 1) = Collected(LineOf(b))
              /\ Len(SubSeq(stream, LineBegins, e - 1)) = Len(parser.carry) + Len(LineOf(b))
<1> DEFINE i == IndexEOL(b)
           e == Consumed + i
<1>1. i \in 1..Len(b) /\ b[i] \in EOL /\ \A j \in 1..(i - 1) : b[j] \notin EOL
  BY FirstBreak, Places
<1> HIDE DEF i
<1>2. LineBegins = Consumed - Len(parser.carry) + 1 /\ LineBegins \in 1..(Consumed + 1)
  BY NothingFollows
<1>3. e \in 1..Len(stream) /\ LineBegins \in 1..e
  BY <1>1, <1>2, Places
<1>4. stream[e] = b[i]
  BY <1>1 DEF RInv, InPlace
<1>5. i - 1 \in 0..Len(b) /\ e - 1 = Consumed + (i - 1)
  BY <1>1, Places
<1>6. LineOf(b) = SubSeq(b, 1, i - 1)
  BY DEF LineOf, i
<1>7. Len(LineOf(b)) = i - 1
  <2>1. \A j \in 1..(i - 1) : b[j] \in Symbol
    BY <1>1, Places, ElementOfSeq
  <2>2. Len(SubSeq(b, 1, i - 1)) = IF 1 <= i - 1 THEN i - 1 - 1 + 1 ELSE 0
    BY <1>1, <2>1, Places, SubSeqProperties
  <2> QED BY <1>1, <1>6, <2>2, Places
<1>8. /\ \A j \in LineBegins..(Consumed + (i - 1)) : stream[j] \notin EOL
      /\ parser.carry \o SubSeq(b, 1, i - 1)
            = SubSeq(stream, LineBegins, Consumed + (i - 1))
      /\ Len(SubSeq(stream, LineBegins, Consumed + (i - 1))) = Len(parser.carry) + (i - 1)
  <2>1. LineBegins \in Nat /\ LineBegins + Len(parser.carry) = Consumed + 1
    BY <1>2, Places
  <2> QED BY <1>1, <1>5, <2>1, CarriedLine
<1>9. /\ \A j \in LineBegins..(e - 1) : stream[j] \notin EOL
      /\ SubSeq(stream, LineBegins, e - 1) = Collected(LineOf(b))
      /\ Len(SubSeq(stream, LineBegins, e - 1)) = Len(parser.carry) + Len(LineOf(b))
  BY <1>2, <1>5, <1>6, <1>7, <1>8 DEF Collected
<1> QED BY <1>1, <1>3, <1>4, <1>9 DEF i

\* Without a line end, the chunk in hand goes on with the line.
LEMMA LineGoesOn ==
    ASSUME RInv, b # <<>>, ~LFIsPending, ~HasEOL(b)
    PROVE  /\ LineBegins \in 1..at
           /\ \A i \in LineBegins..at : stream[i] \notin EOL
           /\ SubSeq(stream, LineBegins, at) = Collected(b)
           /\ Len(SubSeq(stream, LineBegins, at)) = Len(parser.carry) + Len(b)
<1>1. Len(b) >= 1
  BY Places, EmptySeq
<1>2. LineBegins = Consumed - Len(parser.carry) + 1 /\ LineBegins \in 1..(Consumed + 1)
  BY NothingFollows
<1>3. DOMAIN b = 1..Len(b) /\ \A j \in 1..Len(b) : b[j] \notin EOL
  BY Places, LenProperties DEF HasEOL
<1>4. LineBegins \in Nat /\ LineBegins + Len(parser.carry) = Consumed + 1
  BY <1>2, Places
<1>5. Len(b) \in 0..Len(b)
  BY Places
<1>6. /\ \A j \in LineBegins..(Consumed + Len(b)) : stream[j] \notin EOL
      /\ parser.carry \o SubSeq(b, 1, Len(b))
            = SubSeq(stream, LineBegins, Consumed + Len(b))
      /\ Len(SubSeq(stream, LineBegins, Consumed + Len(b))) = Len(parser.carry) + Len(b)
  BY <1>3, <1>4, <1>5, CarriedLine
<1>7. SubSeq(b, 1, Len(b)) = b
  <2>1. b \in Seq(Symbol)
    BY Places
  <2> QED BY <2>1, SubSeqFull
<1>8. Consumed + Len(b) = at
  BY Places
<1>9. LineBegins \in 1..at
  BY <1>1, <1>2, <1>8, Places
<1>10. SubSeq(stream, LineBegins, at) = Collected(b)
  BY <1>6, <1>7, <1>8, Zenon DEF Collected
<1> QED BY <1>6, <1>8, <1>9, <1>10

\* The rest of the chunk behind position m is in place when it is all there is in hand.
LEMMA RestInPlace ==
    ASSUME RInv, NEW m \in 1..(Len(b) + 1),
           b' = SubSeq(b, m, Len(b)), at' = at, stream' = stream
    PROVE  /\ Len(b') <= at'
           /\ Consumed' + 1 = Consumed + m
           /\ \A i \in 1..Len(b') : b'[i] = stream'[Consumed' + i]
<1> DEFINE t == b
           c == Consumed
           r == SubSeq(t, m, Len(t))
<1>1. /\ t \in Seq(Symbol) /\ Len(t) \in Nat /\ c \in Nat /\ c + Len(t) = at /\ at \in Nat
      /\ \A i \in 1..Len(t) : t[i] = stream[c + i]
      /\ m \in 1..(Len(t) + 1)
  BY Places DEF RInv, InPlace
<1> HIDE DEF t, c
<1>2. \A i \in m..Len(t) : t[i] \in Symbol
  BY <1>1, ElementOfSeq
<1>3. /\ Len(r) = IF m <= Len(t) THEN Len(t) - m + 1 ELSE 0
      /\ \A i \in 1..(Len(t) - m + 1) : r[i] = t[m + i - 1]
  BY <1>1, <1>2, SubSeqProperties
<1>4. Len(r) + m = Len(t) + 1 /\ Len(r) \in Nat
  BY <1>1, <1>3
<1>5. b' = r
  BY DEF t
<1> HIDE DEF r
<1>6. Consumed' + 1 = c + m /\ Consumed' \in Nat
  BY <1>1, <1>4, <1>5 DEF Consumed
<1>7. ASSUME NEW i \in 1..Len(r) PROVE r[i] = stream[Consumed' + i]
  <2>1. m + i - 1 \in 1..Len(t) /\ i \in 1..(Len(t) - m + 1)
    BY <1>1, <1>4
  <2>2. c + (m + i - 1) = Consumed' + i
    <3>1. PICK d \in Nat : d = Consumed'
      BY <1>6
    <3>2. d + 1 = c + m
      BY <1>6, <3>1
    <3>3. m \in Nat /\ c \in Nat
      BY <1>1
    <3>4. i \in Nat
      BY <1>4
    <3>5. c + (m + i - 1) = d + i
      BY <3>2, <3>3, <3>4
    <3> QED BY <3>1, <3>5
  <2>3. r[i] = t[m + i - 1] /\ t[m + i - 1] = stream[c + (m + i - 1)]
    BY <1>1, <1>3, <2>1
  <2> QED BY <2>2, <2>3
<1>8. Len(b') <= at'
  BY <1>1, <1>4, <1>5
<1>9. \A i \in 1..Len(b') : b'[i] = stream'[Consumed' + i]
  BY <1>5, <1>7
<1> QED BY <1>6, <1>8, <1>9 DEF c

\* When a line has come to its end, the next one begins where the stream says.
LEMMA AfterLine ==
    ASSUME RInv, b # <<>>, ~LFIsPending, HasEOL(b), Turn(After(b)),
           parser'.carry = <<>>, parser'.pendingLF = EndsInCR(b),
           parser'.dropping = FALSE
    PROVE  /\ InPlace'
           /\ LineBegins' = LineStart(stream, Consumed + IndexEOL(b))
<1> DEFINE i == IndexEOL(b)
           m == LineStart(b, i)
           e == Consumed + i
<1>1. i \in 1..Len(b) /\ b[i] \in EOL
  BY FirstBreak, Places
<1>2. EndsInCR(b) <=> (i = Len(b) /\ b[i] = "CR")
  BY DEF EndsInCR
<1>3. After(b) = SubSeq(b, m, Len(b))
  BY DEF After
<1> HIDE DEF i
<1>4. m \in 1..(Len(b) + 1)
  BY <1>1, Places DEF LineStart
<1>5. at' = at /\ stream' = stream /\ finished' = finished /\ b' = After(b)
  BY DEF Turn
<1>6. /\ Len(b') <= at'
      /\ Consumed' + 1 = Consumed + m
      /\ \A j \in 1..Len(b') : b'[j] = stream'[Consumed' + j]
  BY <1>3, <1>4, <1>5, RestInPlace
<1>7. Consumed' \in Nat
  <2>1. Consumed' \in Int
    <3>1. Len(b') \in Nat
      BY <1>3, <1>4, <1>5, Places, SubText, LenProperties
    <3> QED BY <1>5, <3>1, Places DEF Consumed
  <2> QED BY <1>4, <1>6, <2>1, Places
<1>8. Len(parser'.carry) = 0
  BY EmptySeq
<1>9. finished = FALSE
  BY DEF RInv, IInv, TypeOK, InPlace
<1>10. InPlace'
  BY <1>5, <1>6, <1>7, <1>8, <1>9 DEF InPlace
<1>11. e \in 1..Len(stream) /\ e + Len(b) = at + i /\ stream[e] = b[i]
  BY <1>1, Places DEF RInv, InPlace
<1>12. i < Len(b) => e < Len(stream) /\ stream[e + 1] = b[i + 1]
  <2> SUFFICES ASSUME i < Len(b) PROVE e < Len(stream) /\ stream[e + 1] = b[i + 1]
    OBVIOUS
  <2>1. i + 1 \in 1..Len(b) /\ e + 1 = Consumed + (i + 1)
    BY <1>1, Places
  <2>2. b[i + 1] = stream[Consumed + (i + 1)]
    BY <2>1 DEF RInv, InPlace
  <2> QED BY <1>1, <1>11, <2>1, <2>2, Places
<1>13. LineBegins' = IF parser'.pendingLF /\ Consumed' < Len(stream)
                        /\ stream[Consumed' + 1] = "LF"
                     THEN Consumed' + 2 ELSE Consumed' + 1
  BY <1>5, <1>7, <1>8 DEF LineBegins, LFFollows
<1>14. LineBegins' = LineStart(stream, e)
  <2>1. CASE i < Len(b) /\ b[i] = "CR" /\ b[i + 1] = "LF"
    <3>1. m = i + 2
      BY <1>1, <2>1 DEF LineStart
    <3>2. ~parser'.pendingLF
      <4>1. ~EndsInCR(b)
        BY <1>1, <1>2, <2>1, Places
      <4> QED BY <4>1
    <3>3. Consumed' + 1 = e + 2
      BY <1>1, <1>6, <3>1, Places
    <3>4. LineStart(stream, e) = e + 2
      BY <1>11, <1>12, <2>1 DEF LineStart
    <3> QED BY <1>13, <3>2, <3>3, <3>4
  <2>2. CASE i < Len(b) /\ ~(b[i] = "CR" /\ b[i + 1] = "LF")
    <3>1. m = i + 1
      BY <1>1, <2>2 DEF LineStart
    <3>2. ~parser'.pendingLF
      <4>1. ~EndsInCR(b)
        BY <1>1, <1>2, <2>2, Places
      <4> QED BY <4>1
    <3>3. Consumed' + 1 = e + 1
      BY <1>1, <1>6, <3>1, Places
    <3>4. LineStart(stream, e) = e + 1
      BY <1>11, <1>12, <2>2 DEF LineStart
    <3> QED BY <1>13, <3>2, <3>3, <3>4
  <2>3. CASE i = Len(b)
    <3>1. m = i + 1
      BY <1>1, <2>3, Places DEF LineStart
    <3>2. parser'.pendingLF <=> (b[i] = "CR")
      BY <1>2, <2>3
    <3>3. Consumed' = e
      <4>1. /\ i \in Nat /\ Consumed \in Nat /\ Consumed' \in Nat
            /\ Consumed' + 1 = Consumed + (i + 1)
        BY <1>1, <1>6, <1>7, <3>1, Places
      <4>2. PICK c \in Nat : c = Consumed
        BY <4>1
      <4>3. PICK d \in Nat : d = Consumed'
        BY <4>1
      <4>4. d + 1 = c + (i + 1)
        BY <4>1, <4>2, <4>3
      <4>5. d = c + i
        <5>1. i \in Nat
          BY <4>1
        <5> QED BY <4>4, <5>1
      <4> QED BY <4>2, <4>3, <4>5
    <3>4. LineStart(stream, e) = IF e < Len(stream) /\ b[i] = "CR" /\ stream[e + 1] = "LF"
                                 THEN e + 2 ELSE e + 1
      BY <1>11 DEF LineStart
    <3> QED BY <1>13, <3>2, <3>3, <3>4
  <2> QED BY <1>1, <2>1, <2>2, <2>3, Places
<1> QED BY <1>10, <1>14 DEF i

\* When the chunk is used up within a line, what is carried is all of it that is read.
LEMMA AfterChunk ==
    ASSUME RInv, b # <<>>, ~LFIsPending, ~HasEOL(b), Turn(<<>>),
           parser'.pendingLF = FALSE, parser'.carry \in {<<>>, Collected(b)},
           parser'.dropping => parser'.carry = <<>>
    PROVE  /\ InPlace'
           /\ parser'.carry = <<>> => LineBegins' = at + 1
           /\ parser'.carry = Collected(b) => LineBegins' = LineBegins
<1> DEFINE from == LineBegins
           u == parser'.carry
<1>1. /\ from \in 1..at
      /\ \A i \in from..at : stream[i] \notin EOL
      /\ SubSeq(stream, from, at) = Collected(b)
      /\ Len(SubSeq(stream, from, at)) = Len(parser.carry) + Len(b)
  BY LineGoesOn
<1>2. at' = at /\ stream' = stream /\ finished' = finished /\ b' = <<>>
  BY DEF Turn
<1>3. at \in Nat /\ at <= Len(stream) /\ Len(stream) \in Nat /\ stream \in Seq(Symbol)
  BY Places
<1>4. Consumed' = at
  BY <1>2, <1>3 DEF Consumed
<1>5. finished = FALSE
  BY DEF RInv, IInv, TypeOK, InPlace
<1>6. LineBegins' = at - Len(u) + 1
  BY <1>2, <1>4 DEF LineBegins, LFFollows
<1>7. CASE u = <<>>
  <2>1. Len(u) = 0
    BY <1>7
  <2>2. LineBegins' = at + 1
    BY <1>3, <1>6, <2>1
  <2>3. InPlace'
    BY <1>2, <1>3, <1>4, <1>5, <1>7, <2>1 DEF InPlace
  <2>4. u # Collected(b)
    <3>1. Len(b) >= 1 /\ Len(b) \in Nat /\ Len(parser.carry) \in Nat
      BY Places, EmptySeq
    <3>2. Len(Collected(b)) = Len(parser.carry) + Len(b)
      BY <1>1
    <3> QED BY <2>1, <3>1, <3>2
  <2> QED BY <1>7, <2>2, <2>3, <2>4
<1>8. CASE u = Collected(b)
  <2>1. \A i \in from..at : stream[i] \in Symbol
    BY <1>1, <1>3, ElementOfSeq
  <2>2. /\ Len(SubSeq(stream, from, at)) = IF from <= at THEN at - from + 1 ELSE 0
        /\ \A i \in 1..(at - from + 1) : SubSeq(stream, from, at)[i] = stream[from + i - 1]
    BY <1>1, <1>3, <2>1, SubSeqProperties
  <2> HIDE DEF from, u
  <2>3. Len(u) = at - from + 1
    BY <1>1, <1>8, <2>2
  <2>4. at - Len(u) + 1 = from
    BY <1>1, <1>3, <2>3
  <2>5. ASSUME NEW i \in 1..Len(u) PROVE u[i] = stream[at - Len(u) + i] /\ u[i] \notin EOL
    <3>1. i \in 1..(at - from + 1) /\ from + i - 1 \in from..at
      BY <1>1, <1>3, <2>3
    <3>2. u[i] = stream[from + i - 1]
      BY <1>1, <1>8, <2>2, <3>1
    <3>3. at - Len(u) + i = from + i - 1
      BY <1>1, <1>3, <2>3, <3>1
    <3> QED BY <1>1, <3>1, <3>2, <3>3
  <2>6. Len(u) <= at
    BY <1>1, <1>3, <2>3
  <2>7. InPlace'
    <3>1. \A i \in 1..Len(parser'.carry) :
             /\ parser'.carry[i] = stream'[Consumed' - Len(parser'.carry) + i]
             /\ parser'.carry[i] \notin EOL
      BY <1>2, <1>4, <2>5 DEF u
    <3>2. Len(b') = 0 /\ Len(b') <= at'
      BY <1>2, <1>3
    <3>3. Len(parser'.carry) <= Consumed'
      BY <1>4, <2>6 DEF u
    <3>4. \A i \in 1..Len(b') : b'[i] = stream'[Consumed' + i]
      BY <3>2
    <3> QED BY <1>2, <1>5, <3>1, <3>2, <3>3, <3>4 DEF InPlace
  <2>8. u # <<>>
    <3>1. Len(u) >= 1
      BY <1>1, <1>3, <2>3
    <3> QED BY <3>1
  <2> QED BY <1>6, <2>4, <2>7, <2>8 DEF u, from
<1> QED BY <1>7, <1>8

\* The LF that was to follow belongs to the line before: the reader has it behind it.
LEMMA AfterLF ==
    ASSUME RInv, SkipLF
    PROVE  InPlace' /\ LineBegins' = LineBegins
<1>1. /\ b # <<>> /\ parser.pendingLF /\ b[1] = "LF"
      /\ b' = Tail(b) /\ at' = at /\ stream' = stream /\ finished' = finished
  BY DEF SkipLF, LFIsPending, Turn
<1>2. parser.carry = <<>> /\ ~parser.dropping
  BY <1>1 DEF RInv, InPlace
<1>3. /\ parser'.pendingLF = FALSE /\ parser'.carry = <<>>
      /\ parser'.dropping = parser.dropping
  BY <1>2 DEF SkipLF, RInv, IInv, TypeOK, Parser
<1>4. Len(b) >= 1 /\ Len(b) \in Nat
  BY <1>1, Places, EmptySeq
<1>5. b' = SubSeq(b, 2, Len(b)) /\ 2 \in 1..(Len(b) + 1)
  BY <1>1, <1>4
<1>6. /\ Len(b') <= at'
      /\ Consumed' + 1 = Consumed + 2
      /\ \A i \in 1..Len(b') : b'[i] = stream'[Consumed' + i]
  BY <1>1, <1>5, RestInPlace
<1>7. Consumed' \in Int /\ Consumed \in Nat
  <2>1. Len(b') \in Nat
    BY <1>5, Places, SubText, LenProperties
  <2> QED BY <1>1, <2>1, Places DEF Consumed
<1>8. Consumed' = Consumed + 1
  <2>1. Consumed' + 1 = Consumed + 2
    BY <1>6
  <2>2. PICK d \in Int : d = Consumed'
    BY <1>7
  <2>3. PICK c \in Nat : c = Consumed
    BY <1>7
  <2>4. d + 1 = c + 2
    BY <2>1, <2>2, <2>3
  <2>5. d = c + 1
    BY <2>4
  <2> QED BY <2>2, <2>3, <2>5
<1>9. Len(parser'.carry) = 0 /\ Len(parser.carry) = 0
  BY <1>2, <1>3
<1>10. InPlace'
  <2>1. finished = FALSE
    BY <1>1 DEF RInv, IInv, TypeOK, InPlace
  <2> QED BY <1>1, <1>3, <1>6, <1>7, <1>8, <1>9, <2>1 DEF InPlace
<1>11. LineBegins' = Consumed' + 1
  BY <1>3, <1>7, <1>8, <1>9 DEF LineBegins, LFFollows
<1>12. LineBegins = Consumed + 2
  <2>1. Consumed < Len(stream) /\ stream[Consumed + 1] = b[1]
    BY <1>4, Places DEF RInv, InPlace
  <2> QED BY <1>1, <2>1 DEF LineBegins, LFFollows
<1> QED BY <1>7, <1>8, <1>10, <1>11, <1>12

\* A chunk that arrives is what the stream has next.
LEMMA AfterFeed ==
    ASSUME RInv, NEW n \in 1..Len(stream), Feed(n)
    PROVE  InPlace' /\ LineBegins' = LineBegins
<1>1. /\ b = <<>> /\ ~finished /\ n \in 1..(Len(stream) - at) /\ at' = at + n
      /\ b' = SubSeq(stream, at + 1, at + n)
      /\ stream' = stream /\ parser' = parser /\ finished' = finished
  BY DEF Feed
<1>2. /\ stream \in Seq(Symbol) /\ Len(stream) \in Nat /\ at \in Nat /\ at <= Len(stream)
      /\ n \in Nat
  BY Places
<1>3. Consumed = at
  BY <1>1, <1>2 DEF Consumed
<1>4. \A i \in (at + 1)..(at + n) : stream[i] \in Symbol
  BY <1>1, <1>2, ElementOfSeq
<1>5. Len(b') = n /\ \A i \in 1..n : b'[i] = stream[at + i]
  <2>1. PICK m \in Int : m = at + 1
    BY <1>2
  <2>2. PICK k \in Int : k = at + n
    BY <1>2
  <2>3. \A i \in m..k : stream[i] \in Symbol
    BY <1>4, <2>1, <2>2
  <2>4. /\ Len(SubSeq(stream, m, k)) = IF m <= k THEN k - m + 1 ELSE 0
        /\ \A i \in 1..(k - m + 1) : SubSeq(stream, m, k)[i] = stream[m + i - 1]
    BY <2>3, SubSeqProperties
  <2>5. b' = SubSeq(stream, m, k)
    BY <1>1, <2>1, <2>2
  <2>6. /\ Len(b') = IF m <= k THEN k - m + 1 ELSE 0
        /\ \A i \in 1..(k - m + 1) : b'[i] = stream[m + i - 1]
    BY <2>4, <2>5
  <2>7. k - m + 1 = n /\ m <= k
    BY <1>2, <2>1, <2>2
  <2>8. ASSUME NEW i \in 1..n PROVE b'[i] = stream[at + i]
    <3>1. m + i - 1 = at + i
      BY <1>2, <2>1
    <3> QED BY <2>6, <2>7, <3>1
  <2> QED BY <2>6, <2>7, <2>8
<1>6. Len(b') = n
  BY <1>5
<1>7. Consumed' = at
  BY <1>1, <1>2, <1>6 DEF Consumed
<1>8. \A i \in 1..Len(b') : b'[i] = stream'[Consumed' + i]
  <2> SUFFICES ASSUME NEW i \in 1..n PROVE b'[i] = stream[at + i]
    BY <1>1, <1>6, <1>7
  <2> QED BY <1>5
<1>9. InPlace'
  <2>1. Len(b') <= at'
    BY <1>1, <1>2, <1>6
  <2>2. /\ Len(parser'.carry) <= Consumed'
        /\ \A i \in 1..Len(parser'.carry) :
              /\ parser'.carry[i] = stream'[Consumed' - Len(parser'.carry) + i]
              /\ parser'.carry[i] \notin EOL
    BY <1>1, <1>3, <1>7 DEF RInv, InPlace
  <2>3. /\ parser'.pendingLF => parser'.carry = <<>> /\ ~parser'.dropping
        /\ parser'.dropping => parser'.carry = <<>>
        /\ ~finished'
    BY <1>1 DEF RInv, InPlace
  <2> QED BY <1>8, <2>1, <2>2, <2>3 DEF InPlace
<1> QED BY <1>1, <1>3, <1>7, <1>9 DEF LineBegins, LFFollows

-----------------------------------------------------------------------------
(* EventStream implements LineReader *)

\* The reader's operators are the parser's.
LEMMA SameOperators ==
    /\ AsReader!EOL = EOL
    /\ AsReader!NewParser = NewParser
    /\ \A s, e : AsReader!LineStart(s, e) = LineStart(s, e)
    /\ \A s : AsReader!Overlong(s) = Overlong(s)
    /\ \A p : AsReader!DropLine(p) = DropLine(p)
    /\ \A p : AsReader!Dispatched(p) = Dispatched(p)
    /\ \A p : AsReader!Calls(p) = Calls(p)
    /\ \A p, line : AsReader!Processed(p, line) = Processed(p, line)
    /\ \A p, line : AsReader!CallsOn(p, line) = CallsOn(p, line)
<1>1. AsReader!EOL = EOL
  BY DEF AsReader!EOL, EOL
<1>2. AsReader!NewParser = NewParser
  BY DEF AsReader!NewParser, NewParser
<1>3. \A s, e : AsReader!LineStart(s, e) = LineStart(s, e)
  BY DEF AsReader!LineStart, LineStart
<1>4. \A s : AsReader!Overlong(s) = Overlong(s)
  BY DEF AsReader!Overlong, Overlong
<1>5. \A p : AsReader!DropLine(p) = DropLine(p)
  BY Zenon DEF AsReader!DropLine, DropLine
<1>6. AsReader!Done = Done /\ AsReader!dataPrefix = dataPrefix /\ AsReader!byteOrder = byteOrder
  BY Zenon DEF AsReader!Done, Done, AsReader!dataPrefix, dataPrefix, AsReader!byteOrder,
     byteOrder
<1>7. \A p : AsReader!Dispatches(p) = Dispatches(p)
  BY DEF AsReader!Dispatches, Dispatches
<1>8. \A p : AsReader!Dispatched(p) = Dispatched(p)
  BY <1>6, <1>7, Zenon DEF AsReader!Dispatched, Dispatched
<1>9. \A p : AsReader!Calls(p) = Calls(p)
  BY <1>6, <1>7, Zenon DEF AsReader!Calls, Calls
<1>10. \A p, v : AsReader!WithValue(p, v) = WithValue(p, v)
  BY <1>5, Zenon DEF AsReader!WithValue, WithValue
<1>11. \A line : AsReader!ValueOf(line) = ValueOf(line)
  BY <1>6, Zenon DEF AsReader!ValueOf, ValueOf
<1>12. \A s, t : AsReader!IsPrefix(s, t) = IsPrefix(s, t)
  BY Zenon DEF AsReader!IsPrefix, IsPrefix
<1>13. \A p, line : AsReader!Text(p, line) = Text(p, line)
  BY <1>6, <1>12, Zenon DEF AsReader!Text, Text
<1>14. \A p, line : AsReader!Processed(p, line) = Processed(p, line)
  BY <1>6, <1>8, <1>10, <1>11, <1>13, <1>12, Zenon DEF AsReader!Processed, Processed
<1>15. \A p, line : AsReader!CallsOn(p, line) = CallsOn(p, line)
  BY <1>9, <1>13, Zenon DEF AsReader!CallsOn, CallsOn
<1> QED BY <1>1, <1>2, <1>3, <1>4, <1>5, <1>8, <1>9, <1>14, <1>15

\* What has been processed or dispatched carries nothing if nothing was carried before.
LEMMA AtRestKept ==
    ASSUME NEW p, Fit(p), AtRest(p), NEW line \in Seq(Symbol)
    PROVE  /\ Fit(Processed(p, line)) /\ AtRest(Processed(p, line))
           /\ Fit(Dispatched(p)) /\ AtRest(Dispatched(p))
<1>1. p \in Parser
  BY DEF Fit
<1>2. BetweenLines(p) = p
  BY <1>1, BetweenIs DEF Agree
<1>3. Fit(Processed(p, line)) /\ Fit(Dispatched(p))
  BY ProcessedFit, DispatchedFit
<1>4. /\ BetweenLines(Processed(p, line)) = Processed(p, line)
      /\ BetweenLines(Dispatched(p)) = Dispatched(p)
  BY <1>2, ProcessedBetween, DispatchedBetween
<1>5. AtRest(Processed(p, line)) /\ AtRest(Dispatched(p))
  BY <1>3, <1>4, BetweenFit
<1> QED BY <1>3, <1>5

\* Processing or dropping a line does not touch what is known of the next.
LEMMA DroppingKept ==
    ASSUME NEW p, Fit(p), NEW line \in Seq(Symbol)
    PROVE  DropLine(p).dropping = p.dropping /\ Processed(p, line).dropping = p.dropping
<1> DEFINE q == [p EXCEPT !.lineSeen = TRUE]
<1>1. ASSUME NEW r, Fit(r) PROVE DropLine(r).dropping = r.dropping
  BY <1>1 DEF Fit, Parser, DropLine
<1>2. ASSUME NEW r, Fit(r) PROVE Dispatched(r).dropping = r.dropping
  BY <1>2 DEF Fit, Parser, Dispatched
<1>3. ASSUME NEW r, Fit(r), NEW v PROVE WithValue(r, v).dropping = r.dropping
  <2>1. DropLine(r).dropping = r.dropping
    BY <1>1, <1>3
  <2> QED BY <1>3, <2>1 DEF Fit, Parser, WithValue
<1>4. Fit(q) /\ q.dropping = p.dropping
  BY DEF Fit, Parser
<1> HIDE DEF q
<1>5. Processed(p, line) \in {Dispatched(q), WithValue(q, ValueOf(Text(p, line))), q}
  BY DEF Processed, q
<1>6. Processed(p, line).dropping = p.dropping
  BY <1>2, <1>3, <1>4, <1>5
<1> QED BY <1>1, <1>6

\* Where the reader is after a line end, and that it is one for the reader.
LEMMA ReaderAtEnd ==
    ASSUME RInv, b # <<>>, ~LFIsPending, HasEOL(b),
           NEW e, e = Consumed + IndexEOL(b)
    PROVE  /\ e \in 1..Len(stream)
           /\ AsReader!EndsAt(e)
           /\ SubSeq(stream, LineBegins, e - 1) = Collected(LineOf(b))
           /\ Overflows(LineOf(b)) <=> Overlong(Collected(LineOf(b)))
<1>1. /\ e \in 1..Len(stream)
      /\ LineBegins \in 1..e
      /\ stream[e] \in EOL
      /\ \A i \in LineBegins..(e - 1) : stream[i] \notin EOL
      /\ SubSeq(stream, LineBegins, e - 1) = Collected(LineOf(b))
      /\ Len(SubSeq(stream, LineBegins, e - 1)) = Len(parser.carry) + Len(LineOf(b))
  BY LineEnds
<1>2. LineBegins <= e
  BY <1>1, Places
<1>3. AsReader!EndsAt(e)
  BY <1>1, <1>2, SameOperators DEF AsReader!EndsAt, AsReader!InLine
<1>4. Overflows(LineOf(b)) <=> Overlong(Collected(LineOf(b)))
  BY <1>1 DEF Overflows, Overlong
<1> QED BY <1>1, <1>3, <1>4

LEMMA TakeLineReads ==
    ASSUME RInv, TakeLine
    PROVE  InPlace' /\ \E e \in 1..Len(stream) : AsReader!Read(e)
<1> DEFINE line == Collected(LineOf(b))
           q == Processed(parser, line)
<1>0. PICK e : e = Consumed + IndexEOL(b)
  OBVIOUS
<1>1. /\ b # <<>> /\ ~LFIsPending /\ ~parser.dropping /\ HasEOL(b) /\ ~Overflows(LineOf(b))
      /\ parser' = [q EXCEPT !.carry = <<>>, !.pendingLF = EndsInCR(b)]
      /\ out' = out \o CallsOn(parser, line)
      /\ Turn(After(b))
  BY DEF TakeLine
<1>2. Fit(parser) /\ b \in Seq(Symbol) /\ parser.carry \in Seq(Symbol)
  BY Places DEF RInv, IInv, TypeOK, WithinLimits, Fit
<1>3. LineOf(b) \in Seq(Symbol) /\ EndsInCR(b) \in BOOLEAN
  BY <1>1, <1>2, SplitType
<1>4. line \in Seq(Symbol)
  BY <1>2, <1>3, ConcatProperties DEF Collected
<1> HIDE DEF line
<1>5. Fit(q) /\ q.dropping = parser.dropping /\ parser.dropping \in BOOLEAN
  BY <1>2, <1>4, ProcessedFit, DroppingKept DEF Fit, Parser
<1> HIDE DEF q
<1>6. /\ parser'.carry = <<>> /\ parser'.pendingLF = EndsInCR(b)
      /\ parser'.dropping = FALSE
      /\ BetweenLines(parser') = BetweenLines(q)
  <2>1. parser' \in Parser
    BY <1>1, <1>3, <1>5, EmptySeq, Zenon DEF Fit, Parser
  <2>2. /\ parser'.carry = <<>> /\ parser'.pendingLF = EndsInCR(b)
        /\ parser'.dropping = FALSE
        /\ Agree(parser', q)
    BY <1>1, <1>5 DEF Fit, Parser, Agree
  <2> QED BY <1>5, <2>1, <2>2, BetweenAgree DEF Fit
<1>7. InPlace' /\ LineBegins' = LineStart(stream, e)
  BY <1>1, <1>6, <1>0, AfterLine
<1>8. /\ BetweenLines(q) = Processed(BetweenLines(parser), line)
      /\ CallsOn(parser, line) = CallsOn(BetweenLines(parser), line)
  BY <1>2, <1>4, ProcessedBetween DEF q
<1>9. /\ e \in 1..Len(stream) /\ AsReader!EndsAt(e)
      /\ SubSeq(stream, LineBegins, e - 1) = line
      /\ ~Overlong(line)
  BY <1>0, <1>1, ReaderAtEnd DEF line
<1>10. stream' = stream /\ finished' = finished /\ ~finished
  BY <1>1 DEF Turn, RInv, InPlace
<1>11. AsReader!Read(e)
  <2> DEFINE piece == SubSeq(stream, LineBegins, e - 1)
  <2>1. piece = line
    BY <1>9
  <2> HIDE DEF piece
  <2>2. BetweenLines(parser') = AsReader!Processed(BetweenLines(parser), piece)
    BY <1>6, <1>8, <2>1, SameOperators
  <2>3. out' = out \o AsReader!CallsOn(BetweenLines(parser), piece)
    BY <1>1, <1>8, <2>1, SameOperators
  <2>4. ~AsReader!Overlong(piece)
    BY <1>9, <2>1, SameOperators
  <2>5. LineBegins' = AsReader!LineStart(stream, e)
    BY <1>7, SameOperators
  <2>6. parser'.dropping = parser.dropping /\ ~parser.dropping
    BY <1>1, <1>5, <1>6
  <2> QED BY <1>9, <1>10, <2>2, <2>3, <2>4, <2>5, <2>6 DEF AsReader!Read, piece
<1> QED BY <1>7, <1>9, <1>11

LEMMA DropWholeDrops ==
    ASSUME RInv, DropWhole
    PROVE  InPlace' /\ \E e \in 1..Len(stream) : AsReader!Drop(e)
<1> DEFINE line == Collected(LineOf(b))
           q == DropLine(parser)
<1>0. PICK e : e = Consumed + IndexEOL(b)
  OBVIOUS
<1>1. /\ b # <<>> /\ ~LFIsPending /\ ~parser.dropping /\ HasEOL(b) /\ Overflows(LineOf(b))
      /\ parser' = [q EXCEPT !.carry = <<>>, !.pendingLF = EndsInCR(b)]
      /\ out' = out
      /\ Turn(After(b))
  BY DEF DropWhole
<1>2. Fit(parser) /\ b \in Seq(Symbol) /\ EndsInCR(b) \in BOOLEAN
  BY <1>1, Places, SplitType DEF RInv, IInv, TypeOK, WithinLimits, Fit
<1>3. Fit(q) /\ q.dropping = parser.dropping /\ parser.dropping \in BOOLEAN
  BY <1>2, EmptySeq, DropLineFit, DroppingKept DEF Fit, Parser
<1> HIDE DEF q, line
<1>4. /\ parser'.carry = <<>> /\ parser'.pendingLF = EndsInCR(b)
      /\ parser'.dropping = FALSE
      /\ BetweenLines(parser') = BetweenLines(q)
  <2>1. parser' \in Parser
    BY <1>1, <1>2, <1>3, EmptySeq, Zenon DEF Fit, Parser
  <2>2. /\ parser'.carry = <<>> /\ parser'.pendingLF = EndsInCR(b)
        /\ parser'.dropping = FALSE
        /\ Agree(parser', q)
    BY <1>1, <1>3 DEF Fit, Parser, Agree
  <2> QED BY <1>3, <2>1, <2>2, BetweenAgree DEF Fit
<1>5. InPlace' /\ LineBegins' = LineStart(stream, e)
  BY <1>1, <1>4, <1>0, AfterLine
<1>6. BetweenLines(q) = DropLine(BetweenLines(parser))
  BY <1>2, DropLineBetween DEF q
<1>7. /\ e \in 1..Len(stream) /\ AsReader!EndsAt(e)
      /\ SubSeq(stream, LineBegins, e - 1) = line
      /\ Overlong(line)
  BY <1>0, <1>1, ReaderAtEnd DEF line
<1>8. stream' = stream /\ finished' = finished /\ ~finished
  BY <1>1 DEF Turn, RInv, InPlace
<1>9. AsReader!Drop(e)
  <2> DEFINE piece == SubSeq(stream, LineBegins, e - 1)
  <2>1. piece = line
    BY <1>7
  <2> HIDE DEF piece
  <2>2. BetweenLines(parser') = AsReader!DropLine(BetweenLines(parser))
    BY <1>4, <1>6, SameOperators
  <2>3. AsReader!Overlong(piece)
    BY <1>7, <2>1, SameOperators
  <2>4. LineBegins' = AsReader!LineStart(stream, e)
    BY <1>5, SameOperators
  <2>5. parser'.dropping = parser.dropping /\ ~parser.dropping
    BY <1>1, <1>3, <1>4
  <2> QED BY <1>1, <1>7, <1>8, <2>2, <2>3, <2>4, <2>5 DEF AsReader!Drop, piece
<1> QED BY <1>5, <1>7, <1>9

LEMMA EndDroppingEnds ==
    ASSUME RInv, EndDropping
    PROVE  InPlace' /\ \E e \in 1..Len(stream) : AsReader!EndSkipping(e)
<1>0. PICK e : e = Consumed + IndexEOL(b)
  OBVIOUS
<1>1. /\ b # <<>> /\ ~LFIsPending /\ parser.dropping /\ HasEOL(b)
      /\ parser' = [parser EXCEPT !.dropping = FALSE, !.pendingLF = EndsInCR(b)]
      /\ out' = out
      /\ Turn(After(b))
  BY DEF EndDropping
<1>2. Fit(parser) /\ b \in Seq(Symbol) /\ EndsInCR(b) \in BOOLEAN
  BY <1>1, Places, SplitType DEF RInv, IInv, TypeOK, WithinLimits, Fit
<1>3. parser.carry = <<>>
  BY <1>1 DEF RInv, InPlace
<1>4. /\ parser'.carry = <<>> /\ parser'.pendingLF = EndsInCR(b)
      /\ parser'.dropping = FALSE
      /\ BetweenLines(parser') = BetweenLines(parser)
  <2>1. parser' \in Parser
    BY <1>1, <1>2, Zenon DEF Fit, Parser
  <2>2. /\ parser'.carry = <<>> /\ parser'.pendingLF = EndsInCR(b)
        /\ parser'.dropping = FALSE
        /\ Agree(parser', parser)
    BY <1>1, <1>2, <1>3 DEF Fit, Parser, Agree
  <2> QED BY <1>2, <2>1, <2>2, BetweenAgree DEF Fit
<1>5. InPlace' /\ LineBegins' = LineStart(stream, e)
  BY <1>1, <1>4, <1>0, AfterLine
<1>6. e \in 1..Len(stream) /\ AsReader!EndsAt(e)
  BY <1>0, <1>1, ReaderAtEnd
<1>7. stream' = stream /\ finished' = finished /\ ~finished
  BY <1>1 DEF Turn, RInv, InPlace
<1>8. AsReader!EndSkipping(e)
  BY <1>1, <1>4, <1>5, <1>6, <1>7, SameOperators DEF AsReader!EndSkipping
<1> QED BY <1>5, <1>6, <1>8

LEMMA KeepDroppingPasses ==
    ASSUME RInv, KeepDropping
    PROVE  InPlace' /\ \E n \in 1..Len(stream) : AsReader!PassOver(n)
<1>1. /\ b # <<>> /\ ~LFIsPending /\ parser.dropping /\ ~HasEOL(b)
      /\ parser' = [parser EXCEPT !.pendingLF = FALSE]
      /\ out' = out
      /\ Turn(<<>>)
  BY DEF KeepDropping
<1>2. Fit(parser) /\ parser.carry = <<>>
  BY <1>1 DEF RInv, IInv, TypeOK, WithinLimits, InPlace, Fit
<1>3. /\ parser'.carry = <<>> /\ parser'.pendingLF = FALSE
      /\ parser'.dropping = parser.dropping
      /\ BetweenLines(parser') = BetweenLines(parser)
  <2>1. parser' \in Parser
    BY <1>1, <1>2, Zenon DEF Fit, Parser
  <2>2. /\ parser'.carry = <<>> /\ parser'.pendingLF = FALSE
        /\ parser'.dropping = parser.dropping
        /\ Agree(parser', parser)
    BY <1>1, <1>2 DEF Fit, Parser, Agree
  <2> QED BY <1>2, <2>1, <2>2, BetweenAgree DEF Fit
<1>4. InPlace' /\ LineBegins' = at + 1
  BY <1>1, <1>3, AfterChunk
<1>5. LineBegins \in 1..at /\ \A i \in LineBegins..at : stream[i] \notin EOL
  BY <1>1, LineGoesOn
<1>6. at \in 1..Len(stream) /\ LineBegins <= at
  BY <1>5, Places
<1>7. stream' = stream /\ finished' = finished /\ ~finished
  BY <1>1 DEF Turn, RInv, InPlace
<1>8. AsReader!PassOver(at)
  BY <1>1, <1>3, <1>4, <1>5, <1>6, <1>7, SameOperators
     DEF AsReader!PassOver, AsReader!InLine
<1> QED BY <1>4, <1>6, <1>8

LEMMA DropPartialGivesUp ==
    ASSUME RInv, DropPartial
    PROVE  InPlace' /\ \E n \in 1..Len(stream) : AsReader!GiveUp(n)
<1> DEFINE q == DropLine(parser)
<1>1. /\ b # <<>> /\ ~LFIsPending /\ ~parser.dropping /\ ~HasEOL(b) /\ Overflows(b)
      /\ parser' = [q EXCEPT !.carry = <<>>, !.dropping = TRUE, !.pendingLF = FALSE]
      /\ out' = out
      /\ Turn(<<>>)
  BY DEF DropPartial
<1>2. Fit(parser)
  BY DEF RInv, IInv, TypeOK, WithinLimits, Fit
<1>3. Fit(q)
  BY <1>2, DropLineFit
<1> HIDE DEF q
<1>4. /\ parser'.carry = <<>> /\ parser'.pendingLF = FALSE /\ parser'.dropping = TRUE
      /\ BetweenLines(parser') = BetweenLines(q)
  <2>1. parser' \in Parser
    BY <1>1, <1>3, EmptySeq, Zenon DEF Fit, Parser
  <2>2. /\ parser'.carry = <<>> /\ parser'.pendingLF = FALSE /\ parser'.dropping = TRUE
        /\ Agree(parser', q)
    BY <1>1, <1>3 DEF Fit, Parser, Agree
  <2> QED BY <1>3, <2>1, <2>2, BetweenAgree DEF Fit
<1>5. InPlace' /\ LineBegins' = at + 1
  BY <1>1, <1>4, AfterChunk
<1>6. /\ LineBegins \in 1..at /\ \A i \in LineBegins..at : stream[i] \notin EOL
      /\ Len(SubSeq(stream, LineBegins, at)) = Len(parser.carry) + Len(b)
  BY <1>1, LineGoesOn
<1>7. at \in 1..Len(stream)
  BY <1>6, Places
<1>8. AsReader!Overlong(SubSeq(stream, LineBegins, at))
  BY <1>1, <1>6 DEF Overflows, AsReader!Overlong
<1>9. BetweenLines(parser') = AsReader!DropLine(BetweenLines(parser))
  <2>1. BetweenLines(q) = DropLine(BetweenLines(parser))
    BY <1>2, DropLineBetween DEF q
  <2> QED BY <1>4, <2>1, SameOperators
<1>10. stream' = stream /\ finished' = finished /\ ~finished
  BY <1>1 DEF Turn, RInv, InPlace
<1>11. AsReader!GiveUp(at)
  BY <1>1, <1>4, <1>5, <1>6, <1>8, <1>9, <1>10, SameOperators
     DEF AsReader!GiveUp, AsReader!InLine
<1> QED BY <1>5, <1>7, <1>11

\* A line that is not over yet is nothing to the reader.
LEMMA CarryPartialStutters ==
    ASSUME RInv, CarryPartial
    PROVE  InPlace' /\ UNCHANGED AsReader!vars
<1>1. /\ b # <<>> /\ ~LFIsPending /\ ~parser.dropping /\ ~HasEOL(b)
      /\ parser' = [parser EXCEPT !.carry = Collected(b), !.pendingLF = FALSE]
      /\ out' = out
      /\ Turn(<<>>)
  BY DEF CarryPartial
<1>2. Fit(parser) /\ Collected(b) \in Seq(Symbol)
  BY Places, ConcatProperties DEF RInv, IInv, TypeOK, WithinLimits, Fit, Collected
<1>3. /\ parser'.carry = Collected(b) /\ parser'.pendingLF = FALSE
      /\ parser'.dropping = parser.dropping
      /\ BetweenLines(parser') = BetweenLines(parser)
  <2>1. parser' \in Parser
    BY <1>1, <1>2, Zenon DEF Fit, Parser
  <2>2. /\ parser'.carry = Collected(b) /\ parser'.pendingLF = FALSE
        /\ parser'.dropping = parser.dropping
        /\ Agree(parser', parser)
    BY <1>1, <1>2 DEF Fit, Parser, Agree
  <2> QED BY <1>2, <2>1, <2>2, BetweenAgree DEF Fit
<1>4. InPlace' /\ LineBegins' = LineBegins
  BY <1>1, <1>3, AfterChunk
<1> QED BY <1>1, <1>3, <1>4 DEF Turn, AsReader!vars

LEMMA SkipLFStutters ==
    ASSUME RInv, SkipLF
    PROVE  InPlace' /\ UNCHANGED AsReader!vars
<1>1. /\ parser' = [parser EXCEPT !.pendingLF = FALSE]
      /\ out' = out /\ stream' = stream /\ finished' = finished
  BY DEF SkipLF, Turn
<1>2. Fit(parser)
  BY DEF RInv, IInv, TypeOK, WithinLimits, Fit
<1>3. parser'.dropping = parser.dropping /\ BetweenLines(parser') = BetweenLines(parser)
  <2>1. parser' \in Parser
    BY <1>1, <1>2, Zenon DEF Fit, Parser
  <2>2. parser'.dropping = parser.dropping /\ Agree(parser', parser)
    BY <1>1, <1>2 DEF Fit, Parser, Agree
  <2> QED BY <1>2, <2>1, <2>2, BetweenAgree DEF Fit
<1>4. InPlace' /\ LineBegins' = LineBegins
  BY AfterLF
<1> QED BY <1>1, <1>3, <1>4 DEF AsReader!vars

\* What is carried when the stream is over is the line the reader finds there.
LEMMA FinishCloses ==
    ASSUME RInv, Finish
    PROVE  InPlace' /\ AsReader!Close
<1> DEFINE p == [parser EXCEPT !.pendingLF = FALSE, !.dropping = FALSE, !.carry = <<>>]
           carried == ~parser.dropping /\ parser.carry # <<>>
           q == IF carried THEN Processed(p, parser.carry) ELSE p
           first == IF carried THEN CallsOn(p, parser.carry) ELSE <<>>
           end == Len(stream)
<1>1. /\ b = <<>> /\ ~finished /\ at = end
      /\ parser' = Dispatched(q)
      /\ out' = out \o first \o Calls(q)
      /\ finished' = TRUE /\ stream' = stream /\ at' = at /\ b' = b
  BY DEF Finish
<1>2. /\ Fit(parser) /\ parser.carry \in Seq(Symbol) /\ Len(parser.carry) <= MaxLine
      /\ parser.dropping \in BOOLEAN
  BY Places DEF RInv, IInv, TypeOK, WithinLimits, Parser, Fit
<1>3. Fit(p) /\ AtRest(p) /\ p = BetweenLines(parser)
  <2>1. p \in Parser
    BY <1>2, EmptySeq, Zenon DEF Fit, Parser
  <2>2. AtRest(p) /\ Agree(parser, p)
    BY <1>2 DEF Fit, Parser, AtRest, Agree
  <2>3. BetweenLines(parser) = p
    <3> HIDE DEF p
    <3> QED BY <1>2, <2>1, <2>2, BetweenIs DEF Fit
  <2> QED BY <1>2, <2>2, <2>3, BetweenFit
<1> HIDE DEF p
<1>4. Fit(q) /\ AtRest(q)
  BY <1>2, <1>3, AtRestKept
<1> HIDE DEF q
<1>5. Fit(parser') /\ AtRest(parser')
  BY <1>1, <1>2, <1>4, AtRestKept
<1>6. BetweenLines(parser') = parser'
  BY <1>5, BetweenIs DEF Fit, Agree
<1>7. Consumed = end /\ Consumed' = end /\ end \in Nat
  BY <1>1, Places DEF Consumed
<1>8. Len(parser'.carry) = 0
  BY <1>5 DEF AtRest
<1>9. LineBegins' = end + 1
  BY <1>1, <1>5, <1>7, <1>8 DEF LineBegins, LFFollows, AtRest
<1>10. InPlace'
  <2>1. Len(b') = 0 /\ at' \in Nat
    BY <1>1, Places
  <2> QED BY <1>1, <1>5, <1>7, <1>8, <2>1 DEF InPlace, AtRest
<1>11. LineBegins \in Nat /\ LineBegins + Len(parser.carry) = Consumed + 1
  <2>1. LineBegins = Consumed - Len(parser.carry) + 1
    <3>1. ~LFFollows
      BY <1>7 DEF LFFollows
    <3> QED BY <3>1 DEF LineBegins
  <2> QED BY <2>1, Places
<1>12. /\ \A i \in LineBegins..end : stream[i] \notin EOL
       /\ SubSeq(stream, LineBegins, end) = parser.carry
  <2>1. Len(b) = 0 /\ Consumed + 0 = end
    BY <1>1, <1>7
  <2>2. /\ \A i \in LineBegins..(Consumed + 0) : stream[i] \notin EOL
        /\ parser.carry \o SubSeq(b, 1, 0) = SubSeq(stream, LineBegins, Consumed + 0)
    <3>1. PICK n \in 0..Len(b) : n = 0
      BY <2>1
    <3>2. \A i \in 1..n : b[i] \notin EOL
      BY <3>1
    <3>3. /\ \A i \in LineBegins..(Consumed + n) : stream[i] \notin EOL
          /\ parser.carry \o SubSeq(b, 1, n) = SubSeq(stream, LineBegins, Consumed + n)
      BY <1>11, <3>2, CarriedLine
    <3> QED BY <3>1, <3>3
  <2>3. SubSeq(b, 1, 0) = <<>>
    BY SubSeqEmpty
  <2>4. parser.carry \o <<>> = parser.carry
    BY <1>2, ConcatEmptySeq
  <2> QED BY <2>1, <2>2, <2>3, <2>4
<1>13. AsReader!Close
  <2> DEFINE line == SubSeq(stream, LineBegins, end)
             left == ~parser.dropping /\ line # <<>>
             last == IF left THEN AsReader!Processed(BetweenLines(parser), line)
                     ELSE BetweenLines(parser)
             calls == IF left THEN AsReader!CallsOn(BetweenLines(parser), line) ELSE <<>>
  <2>1. line = parser.carry
    BY <1>12
  <2> HIDE DEF line
  <2>2. last = q
    BY <1>3, <2>1, SameOperators DEF q
  <2>3. calls = first
    BY <1>3, <2>1, SameOperators
  <2>4. left => ~AsReader!Overlong(line)
    BY <1>2, <2>1, MaxLineAssumption, Places DEF AsReader!Overlong
  <2>5. AsReader!InLine(end)
    BY <1>12, SameOperators DEF AsReader!InLine
  <2> HIDE DEF left, last, calls, first
  <2>6. /\ BetweenLines(parser') = AsReader!Dispatched(last)
        /\ out' = out \o calls \o AsReader!Calls(last)
    BY <1>1, <1>6, <2>2, <2>3, SameOperators
  <2>7. parser'.dropping = FALSE
    BY <1>5 DEF AtRest
  <2> QED BY <1>1, <1>9, <2>4, <2>5, <2>6, <2>7
          DEF AsReader!Close, line, left, last, calls
<1> QED BY <1>10, <1>13

LEMMA InitReader == Init => RInv /\ AsReader!Init
<1> SUFFICES ASSUME Init PROVE RInv /\ AsReader!Init
  OBVIOUS
<1>1. IInv
  BY InitIInv
<1>2. /\ stream \in Seq(Symbol) /\ Len(stream) \in Nat /\ at = 0 /\ b = <<>>
      /\ parser = NewParser /\ out = <<>> /\ finished = FALSE
  BY StreamsAssumption, LenProperties DEF Init
<1>3. NewParser \in Parser /\ AtRest(NewParser)
  BY EmptySeq DEF NewParser, Parser, AtRest
<1>4. Len(b) = 0 /\ Len(parser.carry) = 0 /\ ~parser.pendingLF /\ ~parser.dropping
  BY <1>2, <1>3 DEF AtRest
<1>5. Consumed = 0
  <2>1. at = 0 /\ Len(b) = 0
    BY <1>2, <1>4
  <2> QED BY <2>1 DEF Consumed
<1>6. InPlace
  BY <1>2, <1>4, <1>5 DEF InPlace
<1>7. LineBegins = 1
  BY <1>4, <1>5 DEF LineBegins, LFFollows
<1>8. BetweenLines(parser) = AsReader!NewParser
  BY <1>2, <1>3, BetweenIs, SameOperators DEF Agree
<1>9. AsReader!Symbol = Symbol
  BY SameOperators DEF AsReader!Symbol, Symbol
<1>10. parser.dropping = FALSE
  BY <1>2 DEF NewParser
<1> QED BY <1>1, <1>2, <1>6, <1>7, <1>8, <1>9, <1>10 DEF RInv, AsReader!Init

LEMMA NextReader == RInv /\ [Next]_vars => RInv' /\ [AsReader!Next]_(AsReader!vars)
<1> SUFFICES ASSUME RInv, [Next]_vars
             PROVE  RInv' /\ [AsReader!Next]_(AsReader!vars)
  OBVIOUS
<1>1. IInv'
  BY NextIInv DEF RInv
<1>2. SUFFICES InPlace' /\ (AsReader!Next \/ UNCHANGED AsReader!vars)
  BY <1>1 DEF RInv
<1>3. ASSUME NEW n \in 1..Len(stream), Feed(n)
      PROVE  InPlace' /\ UNCHANGED AsReader!vars
  <2>1. InPlace' /\ LineBegins' = LineBegins
    BY <1>3, AfterFeed
  <2> QED BY <1>3, <2>1 DEF Feed, AsReader!vars, BetweenLines
<1>4. CASE SkipLF
  BY <1>4, SkipLFStutters
<1>5. CASE EndDropping
  BY <1>5, EndDroppingEnds DEF AsReader!Next
<1>6. CASE KeepDropping
  BY <1>6, KeepDroppingPasses DEF AsReader!Next
<1>7. CASE CarryPartial
  BY <1>7, CarryPartialStutters
<1>8. CASE DropPartial
  BY <1>8, DropPartialGivesUp DEF AsReader!Next
<1>9. CASE DropWhole
  BY <1>9, DropWholeDrops DEF AsReader!Next
<1>10. CASE TakeLine
  BY <1>10, TakeLineReads DEF AsReader!Next
<1>11. CASE Finish
  BY <1>11, FinishCloses DEF AsReader!Next
<1>12. CASE UNCHANGED vars
  <2>1. InPlace'
    BY <1>12 DEF vars, RInv, InPlace, Consumed
  <2> QED BY <1>12, <2>1
          DEF vars, AsReader!vars, LineBegins, LFFollows, Consumed, BetweenLines
<1> QED BY <1>3, <1>4, <1>5, <1>6, <1>7, <1>8, <1>9, <1>10, <1>11, <1>12 DEF Next

\* What the parser holds is where the stream says: nothing that arrived is lost,
\* repeated or put in another order between two chunks.
THEOREM NothingIsLost == Spec => []RInv
<1>1. Init => RInv
  BY InitReader
<1>2. RInv /\ [Next]_vars => RInv'
  BY NextReader
<1> QED BY <1>1, <1>2, PTL DEF Spec

\* The parser implements the reader that has the whole stream before it: for every
\* limit, every stream and every way to cut it, it takes the same lines in the same
\* order and does the same with them.
THEOREM ImplementsReader == Spec => ReadsByLines
<1>1. Init => RInv /\ AsReader!Init
  BY InitReader
<1>2. RInv /\ [Next]_vars => RInv' /\ [AsReader!Next]_(AsReader!vars)
  BY NextReader
<1> QED BY <1>1, <1>2, PTL DEF Spec, ReadsByLines, AsReader!Spec
=============================================================================
