------------------------- MODULE AccumulatorProofs -------------------------
(***************************************************************************)
(* Theorems about Accumulator, for every set of events and all limits:     *)
(* what it keeps is bounded, each output is reported once, a report is     *)
(* complete only if every part of it was, and no text is lost unmarked.    *)
(*                                                                         *)
(* ReportedOnce is not inductive.  IInv adds why it holds: what has been   *)
(* reported is remembered in finishedGroups (ReportsInv), no part of such  *)
(* an output exists any more (PartsAreOpen), and the parts a step finishes *)
(* are whole outputs (WholeOutputs).                                       *)
(*                                                                         *)
(* KeptInv does the same for what a report says: a part of unknown size    *)
(* has its mark (SizesInv), what went wrong with a part is remembered with *)
(* it (TroubleIsKept) and what it was sent is kept or marked (TextIsKept), *)
(* until a report takes both over.                                         *)
(*                                                                         *)
(* WholeInv counts what was sent to each text, so that sums of texts are   *)
(* equal; EndingInv says that a complete part is about to be reported, so  *)
(* that none is left when the stream just stops.                           *)
(***************************************************************************)
EXTENDS Accumulator, FiniteSetTheorems, SequenceTheorems, TLAPS

CountsInv == /\ createdParts \in Nat /\ IsFiniteSet(Held)
             /\ IsFiniteSet(groups) /\ IsFiniteSet(finishedChoices)

PartsAreOpen == \A k \in DOMAIN states : Group(k) \notin finishedGroups

ReportsInv == /\ \E S : reports \in Seq(S)
              /\ \A i \in DOMAIN reports : \A o \in reports[i] : o.group \in finishedGroups

IInv == CountsInv /\ WithinLimits /\ PartsAreOpen /\ ReportsInv /\ ReportedOnce

-----------------------------------------------------------------------------
LEMMA InitIInv == Init => IInv
<1> SUFFICES ASSUME Init PROVE IInv
  OBVIOUS
<1> USE ConstantsAssumption DEF Init
<1>2. DOMAIN states = {} /\ DOMAIN reports = {} /\ reports \in Seq({})
  OBVIOUS
<1>3. Held = {}
  BY <1>2 DEF Held
<1>1. /\ CountsInv /\ Cardinality(groups) = 0 /\ Cardinality(finishedChoices) = 0
      /\ Cardinality(Held) = 0
  BY <1>3, FS_EmptySet DEF CountsInv
<1> QED
  BY <1>1, <1>2 DEF IInv, CountsInv, WithinLimits, PartsAreOpen, ReportsInv, ReportedOnce

\* An element more makes a finite set larger by one at most.
LEMMA OneMore ==
    ASSUME NEW S, IsFiniteSet(S), NEW x
    PROVE  /\ IsFiniteSet(S \cup {x})
           /\ Cardinality(S) \in Nat /\ Cardinality(S \cup {x}) \in Nat
           /\ x \in S => Cardinality(S \cup {x}) = Cardinality(S)
           /\ Cardinality(S \cup {x}) <= Cardinality(S) + 1
BY FS_AddElement, FS_CardinalityType

LEMMA AtMostOneMore ==
    ASSUME NEW S, IsFiniteSet(S), NEW x, NEW T, T \subseteq S \cup {x}
    PROVE  /\ IsFiniteSet(T) /\ Cardinality(T) \in Nat /\ Cardinality(S) \in Nat
           /\ x \in S => Cardinality(T) <= Cardinality(S)
           /\ Cardinality(T) <= Cardinality(S) + 1
<1>1. /\ IsFiniteSet(S \cup {x}) /\ Cardinality(S \cup {x}) \in Nat
      /\ IsFiniteSet(T) /\ Cardinality(T) <= Cardinality(S \cup {x})
  BY OneMore, FS_Subset
<1>2. Cardinality(T) \in Nat /\ Cardinality(S) \in Nat
  BY <1>1, FS_CardinalityType
<1> QED BY <1>1, <1>2, OneMore

\* What is counted stays counted when some of it goes.
LEMMA HeldShrinks ==
    ASSUME CountsInv, Cardinality(Held) <= createdParts, Held' \subseteq Held,
           UNCHANGED createdParts
    PROVE  IsFiniteSet(Held') /\ Cardinality(Held') <= createdParts'
<1>1. /\ IsFiniteSet(Held') /\ Cardinality(Held') <= Cardinality(Held)
      /\ Cardinality(Held) \in Nat /\ Cardinality(Held') \in Nat
  BY FS_Subset, FS_CardinalityType DEF CountsInv
<1> QED BY <1>1 DEF CountsInv

\* The keys of a set of parts that are finished together are those of whole outputs.
LEMMA WholeOutputs ==
    ASSUME NEW k, NEW K \in {All, ChoiceKeys(k), OutputKeys(k)},
           NEW l \in K, NEW m \in DOMAIN states, Group(l) = Group(m)
    PROVE  m \in K
<1>1. l.source = m.source /\ l.choice = m.choice /\ l.output = m.output
  BY DEF Group
<1> QED BY <1>1 DEF All, ChoiceKeys, OutputKeys

\* A part is made or written to within the limits, and only if its output is open.
LEMMA OpensStep ==
    ASSUME IInv, NEW k, NEW part, ~Over(k), HasRoom(k),
           DOMAIN states' = DOMAIN states \cup {k},
           groups' = groups \cup {Group(k)},
           createdParts' \in Nat, createdParts' <= MaxParts,
           IsFiniteSet(Held'), Cardinality(Held') <= createdParts',
           UNCHANGED <<ends, finishedChoices>>
    PROVE  IInv'
<1> USE DEF IInv, ends
<1>1. CountsInv'
  BY OneMore DEF CountsInv
<1>2. WithinLimits'
  <2>1. Cardinality(groups') <= MaxGroups
    <3>1. CASE k \in DOMAIN states
      BY <3>1, OneMore DEF WithinLimits, CountsInv
    <3>2. CASE k \notin DOMAIN states
      <4>1. /\ IsFiniteSet(groups) /\ Cardinality(groups) <= MaxGroups
            /\ Group(k) \in groups \/ Cardinality(groups) < MaxGroups
        BY <3>2 DEF WithinLimits, CountsInv, HasRoom
      <4> DEFINE g == Group(k)
      <4>2. /\ Cardinality(groups) \in Nat /\ Cardinality(groups \cup {g}) \in Nat
            /\ g \in groups => Cardinality(groups \cup {g}) = Cardinality(groups)
            /\ Cardinality(groups \cup {g}) <= Cardinality(groups) + 1
        BY <4>1, OneMore
      <4>3. groups' = groups \cup {g}
        OBVIOUS
      <4> HIDE DEF g
      <4> QED BY <4>1, <4>2, <4>3, ConstantsAssumption DEF g
    <3> QED BY <3>1, <3>2
  <2> QED BY <2>1 DEF WithinLimits
<1>3. PartsAreOpen'
  BY DEF PartsAreOpen, Over
<1>4. ReportsInv' /\ ReportedOnce'
  BY DEF ReportsInv, ReportedOnce
<1> QED BY <1>1, <1>2, <1>3, <1>4

\* A report is about the output its parts belong to.
LEMMA ReportOfGroup ==
    ASSUME NEW ready, NEW g \in {Group(k) : k \in ready}, NEW verdict, NEW limit, NEW cutShort
    PROVE  Report({k \in ready : Group(k) = g}, verdict, limit, cutShort).group = g
<1> DEFINE K == {k \in ready : Group(k) = g}
<1>1. (CHOOSE k \in K : TRUE) \in K
  OBVIOUS
<1>2. Report(K, verdict, limit, cutShort).group = Group(CHOOSE k \in K : TRUE)
  BY DEF Report
<1> QED BY <1>1, <1>2

\* Finishing the parts of whole outputs reports each of these outputs, for the first time.
LEMMA FinishStep ==
    ASSUME IInv, NEW k, NEW K \in {All, ChoiceKeys(k), OutputKeys(k)},
           NEW verdict, NEW limit, NEW cutShort,
           FinishKeys(K, verdict, limit, cutShort),
           UNCHANGED limits
    PROVE  /\ PartsAreOpen' /\ ReportsInv' /\ ReportedOnce'
           /\ {Group(l) : l \in DOMAIN states'} \cup finishedGroups' \subseteq groups'
           /\ Held' \subseteq Held
<1> USE DEF IInv, limits
<1> DEFINE ready == {l \in K : HasData(states[l])}
           gs == {Group(l) : l \in ready}
           R(g) == Report({l \in ready : Group(l) = g}, verdict, limit, cutShort)
           batch == {R(g) : g \in gs}
<1>1. K \subseteq DOMAIN states
  BY DEF All, ChoiceKeys, OutputKeys
<1>2. /\ DOMAIN states' = DOMAIN states \ K
      /\ finishedGroups' = finishedGroups \cup gs
      /\ reports' = IF ready = {} THEN reports ELSE Append(reports, batch)
  BY DEF FinishKeys
<1>3. \A g \in gs : g \notin finishedGroups /\ g \in groups
  BY <1>1 DEF PartsAreOpen, WithinLimits
<1>0. \A g \in gs : R(g).group = g
  BY ReportOfGroup
<1> HIDE DEF R, gs, ready
<1>4. \A o \in batch : o.group \in gs
  BY <1>0
<1>5. \A o, q \in batch : o.group = q.group => o = q
  BY <1>0
<1> HIDE DEF batch
<1>6. PartsAreOpen'
  <2> SUFFICES ASSUME NEW l \in DOMAIN states' PROVE Group(l) \notin finishedGroups'
    BY DEF PartsAreOpen
  <2>1. l \in DOMAIN states /\ l \notin K
    BY <1>2
  <2>2. Group(l) \notin gs
    BY <2>1, WholeOutputs DEF gs, ready
  <2> QED BY <1>2, <2>1, <2>2 DEF PartsAreOpen
<1>7. ReportsInv' /\ ReportedOnce'
  <2>1. CASE ready = {}
    BY <1>2, <2>1 DEF ReportsInv, ReportedOnce
  <2>2. CASE ready # {}
    <3>1. PICK S : reports \in Seq(S)
      BY DEF ReportsInv
    <3>2. reports \in Seq(S \cup {batch})
      BY <3>1, SeqDef
    <3>3. /\ reports' = Append(reports, batch) /\ reports' \in Seq(S \cup {batch})
          /\ Len(reports) \in Nat
          /\ DOMAIN reports = 1..Len(reports)
          /\ DOMAIN reports' = 1..(Len(reports) + 1)
          /\ reports'[Len(reports) + 1] = batch
          /\ \A i \in DOMAIN reports : reports'[i] = reports[i]
      BY <1>2, <2>2, <3>2
    <3>4. DOMAIN reports' = DOMAIN reports \cup {Len(reports) + 1}
          /\ Len(reports) + 1 \notin DOMAIN reports
      BY <3>3
    <3>5. \A i \in DOMAIN reports : \A o \in reports[i] : o.group \notin gs
      BY <1>3 DEF ReportsInv
    <3>6. ReportsInv'
      <4>1. \A i \in DOMAIN reports' : \A o \in reports'[i] : o.group \in finishedGroups'
        BY <1>2, <1>4, <3>3, <3>4 DEF ReportsInv
      <4> QED BY <3>3, <4>1 DEF ReportsInv
    <3>7. ReportedOnce'
      <4> SUFFICES ASSUME NEW i \in DOMAIN reports', NEW j \in DOMAIN reports',
                          NEW o \in reports'[i], NEW q \in reports'[j], o.group = q.group
                   PROVE  i = j /\ o = q
        BY DEF ReportedOnce
      <4>1. CASE i \in DOMAIN reports /\ j \in DOMAIN reports
        BY <3>3, <4>1 DEF ReportedOnce
      <4>2. CASE i \notin DOMAIN reports /\ j \notin DOMAIN reports
        BY <1>5, <3>3, <3>4, <4>2
      <4>3. CASE (i \in DOMAIN reports) # (j \in DOMAIN reports)
        BY <1>4, <3>3, <3>4, <3>5, <4>3
      <4> QED BY <4>1, <4>2, <4>3
    <3> QED BY <3>6, <3>7
  <2> QED BY <2>1, <2>2
<1>8. {Group(l) : l \in DOMAIN states'} \cup finishedGroups' \subseteq groups'
  BY <1>1, <1>2, <1>3 DEF WithinLimits
<1>9. Held' \subseteq Held
  <2>1. \A l \in DOMAIN states' : l \in DOMAIN states /\ states'[l] = states[l]
    BY <1>1 DEF FinishKeys
  <2>2. finished' \subseteq finished \cup DOMAIN states
    BY <1>1 DEF FinishKeys
  <2> QED BY <2>1, <2>2 DEF Held
<1> QED BY <1>6, <1>7, <1>8, <1>9

\* What a step that only finishes leaves of IInv once the choices are counted.
LEMMA FinishKeepsIInv ==
    ASSUME IInv, NEW k, NEW K \in {All, ChoiceKeys(k), OutputKeys(k)},
           NEW verdict, NEW limit, NEW cutShort,
           FinishKeys(K, verdict, limit, cutShort),
           UNCHANGED limits,
           IsFiniteSet(finishedChoices'), Cardinality(finishedChoices') <= MaxGroups
    PROVE  IInv'
<1>1. /\ PartsAreOpen' /\ ReportsInv' /\ ReportedOnce'
      /\ {Group(l) : l \in DOMAIN states'} \cup finishedGroups' \subseteq groups'
      /\ Held' \subseteq Held
  BY FinishStep
<1>2. IsFiniteSet(Held') /\ Cardinality(Held') <= createdParts'
  BY <1>1, HeldShrinks DEF IInv, WithinLimits, limits
<1> QED BY <1>1, <1>2 DEF IInv, CountsInv, WithinLimits, limits

\* A step that makes no part, finishes nothing and keeps the keys keeps IInv.
LEMMA QuietStep ==
    ASSUME IInv, DOMAIN states' = DOMAIN states,
           \A k \in DOMAIN states : DOMAIN states'[k].text = DOMAIN states[k].text,
           UNCHANGED <<limits, ends, finishedChoices>>
    PROVE  IInv'
<1>1. Held' = Held
  BY DEF Held, ends
<1> QED BY <1>1 DEF IInv, CountsInv, WithinLimits, PartsAreOpen, ReportsInv, ReportedOnce, limits, ends

-----------------------------------------------------------------------------
\* A write adds a field to the text of a part, which is there then.
LEMMA WriteAddsField ==
    ASSUME NEW s, NEW p
    PROVE  /\ DOMAIN Written(s, p).text = DOMAIN s.text \cup {p.field}
           /\ Labelled(s, p).text = s.text
BY DEF Written, WithStatus, Labelled, Put

\* What a write adds to what is held has been counted.
LEMMA HeldGrows ==
    ASSUME IInv, NEW p, WritePart(p) \/ WriteNewCommand(p)
    PROVE  IsFiniteSet(Held') /\ Cardinality(Held') <= createdParts'
<1> DEFINE k == p.key
           part == <<k, "part">>
           command == <<k, p.field>>
           old == Opened(k)
           room == createdParts + (IF k \in DOMAIN states THEN 0 ELSE 1) < MaxParts
<1>1. /\ DOMAIN states' = DOMAIN states \cup {k} /\ finished' = finished
      /\ \A l \in DOMAIN states \ {k} : states'[l] = states[l]
  BY DEF WritePart, WriteNewCommand, Writing, Put, ends
<1>2. /\ k \in DOMAIN states => part \in Held /\ old = states[k]
      /\ k \notin DOMAIN states => \A c \in Commands : c \notin DOMAIN old.text
  BY ConstantsAssumption DEF Held, Opened, Blank
<1>3. ASSUME NEW X, \A c \in Commands : c \in DOMAIN states'[k].text =>
                                   c \in DOMAIN old.text \/ <<k, c>> \in X
      PROVE  Held' \subseteq (Held \cup {part}) \cup X
  <2>1. SUFFICES ASSUME NEW h \in Held' PROVE h \in (Held \cup {part}) \cup X
    OBVIOUS
  <2>2. CASE \E l \in DOMAIN states' \cup finished' : h = <<l, "part">>
    BY <1>1, <2>2 DEF Held
  <2>3. CASE \E l \in DOMAIN states', c \in Commands :
                 h = <<l, c>> /\ c \in DOMAIN states'[l].text
    <3>1. PICK l \in DOMAIN states', c \in Commands :
              h = <<l, c>> /\ c \in DOMAIN states'[l].text
      BY <2>3
    <3>2. l \in DOMAIN states /\ c \in DOMAIN states[l].text => <<l, c>> \in Held
      BY DEF Held
    <3> QED BY <1>1, <1>2, <1>3, <3>1, <3>2
  <2> QED BY <2>1, <2>2, <2>3 DEF Held
<1>4. states'[k] = IF WritePart(p) \/ room THEN Written(old, p) ELSE Labelled(old, p)
  BY DEF WritePart, WriteNewCommand, Put
<1>5. createdParts' = IF ~WritePart(p) /\ room
                      THEN createdParts + (IF k \in DOMAIN states THEN 0 ELSE 1) + 1
                      ELSE createdParts + (IF k \in DOMAIN states THEN 0 ELSE 1)
  <2>1. createdParts \in Nat
    BY DEF IInv, CountsInv
  <2>2. CASE WritePart(p)
    BY <2>2 DEF WritePart, Opens
  <2>3. CASE ~WritePart(p)
    BY <2>1, <2>3 DEF WriteNewCommand
  <2> QED BY <2>2, <2>3
<1>6. /\ IsFiniteSet(Held) /\ Cardinality(Held) <= createdParts /\ createdParts \in Nat
  BY DEF IInv, CountsInv, WithinLimits
<1> HIDE DEF k, part, command, old, room
<1>7. CASE WritePart(p) \/ ~room
  <2>1. \A c \in Commands : c \in DOMAIN states'[k].text => c \in DOMAIN old.text
    <3>1. CASE WritePart(p)
      BY <1>4, <3>1, WriteAddsField DEF WritePart, NewCommand, old, k
    <3>2. CASE ~WritePart(p)
      BY <1>4, <1>7, <3>2, WriteAddsField
    <3> QED BY <3>1, <3>2
  <2>2. Held' \subseteq Held \cup {part}
    <3>1. Held' \subseteq (Held \cup {part}) \cup {}
      BY <1>3, <2>1
    <3> QED BY <3>1
  <2> QED BY <1>2, <1>5, <1>6, <1>7, <2>2, AtMostOneMore
<1>8. CASE ~WritePart(p) /\ room
  <2>1. Held' \subseteq (Held \cup {part}) \cup {command}
    <3>1. \A c \in Commands : c \in DOMAIN states'[k].text =>
                               c \in DOMAIN old.text \/ <<k, c>> \in {command}
      BY <1>4, <1>8, WriteAddsField DEF command, k
    <3> QED BY <1>3, <3>1
  <2>2. /\ IsFiniteSet(Held \cup {part}) /\ Cardinality(Held \cup {part}) \in Nat
        /\ k \in DOMAIN states => Cardinality(Held \cup {part}) = Cardinality(Held)
        /\ Cardinality(Held \cup {part}) <= Cardinality(Held) + 1 /\ Cardinality(Held) \in Nat
    BY <1>2, <1>6, OneMore
  <2>3. IsFiniteSet(Held') /\ Cardinality(Held') <= Cardinality(Held \cup {part}) + 1
        /\ Cardinality(Held') \in Nat
    BY <2>1, <2>2, AtMostOneMore
  <2> QED BY <1>5, <1>6, <1>8, <2>2, <2>3
<1> QED BY <1>7, <1>8

LEMMA WriteStep ==
    ASSUME IInv, NEW p, WritePart(p) \/ WriteNewCommand(p)
    PROVE  IInv'
<1>1. /\ ~Over(p.key) /\ HasRoom(p.key) /\ UNCHANGED <<ends, finishedChoices>>
      /\ groups' = groups \cup {Group(p.key)}
  BY DEF WritePart, WriteNewCommand, Writing, Opens
<1>3. DOMAIN states' = DOMAIN states \cup {p.key}
  BY DEF WritePart, WriteNewCommand, Put
<1>2. createdParts' \in Nat /\ createdParts' <= MaxParts
  BY ConstantsAssumption DEF WritePart, WriteNewCommand, Opens, HasRoom, IInv, CountsInv, WithinLimits
<1>4. IsFiniteSet(Held') /\ Cardinality(Held') <= createdParts'
  BY HeldGrows, <1>3
<1> QED BY <1>1, <1>2, <1>3, <1>4, OpensStep

LEMMA PieceStep ==
    ASSUME IInv, ObservePiece
    PROVE  IInv'
<1> DEFINE p == Head(todo)
<1>1. CASE WriteLate(p) \/ RefusePart(p)
  BY <1>1, QuietStep DEF WriteLate, RefusePart, Writing
<1>2. CASE WritePart(p) \/ WriteNewCommand(p)
  BY <1>2, WriteStep
<1>3. CASE ReportLifecycle(p) \/ MarkOutput(p)
  <2>1. PICK K : states' = [k \in DOMAIN states |->
                               IF k \in K THEN WithStatus(states[k], p.status) ELSE states[k]]
    BY <1>3 DEF ReportLifecycle, MarkOutput, MarkKeys
  <2>2. \A s, status : WithStatus(s, status).text = s.text
    BY DEF WithStatus
  <2>3. UNCHANGED <<limits, ends, finishedChoices>>
    BY <1>3 DEF ReportLifecycle, MarkOutput, MarkKeys
  <2> QED BY <2>1, <2>2, <2>3, QuietStep
<1>4. CASE FinishOutputItem(p)
  <2>1. /\ FinishKeys(OutputKeys(p.key), VerdictOf(p.status), limited, terminalIncomplete)
        /\ UNCHANGED <<limits, finishedChoices>>
    BY <1>4 DEF FinishOutputItem
  <2> QED BY <2>1, FinishKeepsIInv DEF IInv, CountsInv, WithinLimits
<1>5. CASE EndOfChoice(p)
  <2> DEFINE c == <<p.key.source, p.key.choice>>
  <2>1. CASE c \in finishedChoices \/ Cardinality(finishedChoices) >= MaxGroups
    BY <1>5, <2>1, QuietStep DEF EndOfChoice
  <2>2. CASE ~(c \in finishedChoices \/ Cardinality(finishedChoices) >= MaxGroups)
    <3>1. /\ FinishKeys(ChoiceKeys(p.key), VerdictOf("completed"), limited, terminalIncomplete)
          /\ finishedChoices' = finishedChoices \cup {c}
          /\ UNCHANGED limits
      BY <1>5, <2>2 DEF EndOfChoice
    <3>2. IsFiniteSet(finishedChoices') /\ Cardinality(finishedChoices') <= MaxGroups
      <4> HIDE DEF c
      <4>1. IsFiniteSet(finishedChoices) /\ Cardinality(finishedChoices) < MaxGroups
        BY <2>2, FS_CardinalityType, ConstantsAssumption DEF IInv, CountsInv
      <4> QED BY <3>1, <4>1, OneMore, ConstantsAssumption
    <3> QED BY <3>1, <3>2, FinishKeepsIInv
  <2> QED BY <2>1, <2>2
<1> QED BY <1>1, <1>2, <1>3, <1>4, <1>5 DEF ObservePiece

LEMMA CloseStep ==
    ASSUME IInv, NEW ending, NEW mark, Close(ending, mark)
    PROVE  IInv'
<1>1. /\ FinishKeys(All, VerdictOf(ending), limited', terminalIncomplete')
      /\ UNCHANGED <<limits, finishedChoices>>
  BY DEF Close
<1> QED BY <1>1, FinishKeepsIInv DEF IInv, CountsInv, WithinLimits

LEMMA NextIInv == IInv /\ [Next]_vars => IInv'
<1> SUFFICES ASSUME IInv, [Next]_vars PROVE IInv'
  OBVIOUS
<1>1. CASE \E e \in Events : Receive(e)
  BY <1>1, QuietStep DEF Receive
<1>2. CASE ObservePiece
  BY <1>2, PieceStep
<1>3. CASE ConcludeOpen \/ ObserveInvalid \/ MarkLimited
  BY <1>3, QuietStep DEF ConcludeOpen, ObserveInvalid, MarkLimited
<1>4. CASE ConcludeTerminal \/ ObserveDone \/ Finish
  BY <1>4, CloseStep DEF ConcludeTerminal, ObserveDone, Finish
<1>5. CASE \E ending \in Ending : ObserveMisshapen(ending)
  BY <1>5, CloseStep, QuietStep DEF ObserveMisshapen
<1>6. CASE UNCHANGED vars
  BY <1>6, QuietStep DEF vars
<1> QED BY <1>1, <1>2, <1>3, <1>4, <1>5, <1>6 DEF Next

\* The inductive invariant holds in every reachable state.
THEOREM Invariance == Spec => []IInv
<1> QED BY InitIInv, NextIInv, PTL DEF Spec

\* Whatever the upstream sends, at most MaxParts parts and commands are kept or remembered,
\* at most MaxGroups outputs and choices, and every output is one of those counted.
THEOREM LimitsHold == Spec => []WithinLimits
<1>1. IInv => WithinLimits
  BY DEF IInv
<1> QED BY Invariance, <1>1, PTL

\* Whatever the upstream sends, each output is reported once: its parts together.
THEOREM OutputsReportedOnce == Spec => []ReportedOnce
<1>1. IInv => ReportedOnce
  BY DEF IInv
<1> QED BY Invariance, <1>1, PTL

-----------------------------------------------------------------------------
(* Statuses and texts: what the response said is kept until it is reported, *)
(* unless the accumulator is marked.                                        *)

\* The types of the parts, of the pieces in hand and of what was streamed.
SizesInv ==
    /\ todo \in Seq(Piece)
    /\ \A k \in DOMAIN states : states[k] \in Part
    /\ DOMAIN streamed \subseteq Key \X Fields
    /\ \A s \in DOMAIN streamed : streamed[s] \in Nat

\* What is remembered as finished has been reported.
RememberedInv ==
    /\ \A k \in finished : Group(k) \in finishedGroups
    /\ \A g \in finishedGroups : Reported(g)

\* A part that was declared failed or incomplete says so until its output is reported.
TroubleIsKept ==
    \A k \in troubled : ~limited =>
        \/ k \in DOMAIN states /\ (states[k].failed \/ states[k].incomplete)
        \/ Group(k) \in finishedGroups

\* What was streamed to a field of a part is in it until its output is reported.
TextIsKept ==
    \A s \in DOMAIN streamed : ~limited /\ streamed[s] > 0 =>
        \/ /\ s[1] \in DOMAIN states
           /\ s[2] \in DOMAIN states[s[1]].text
           /\ states[s[1]].text[s[2]].len > 0
        \/ Group(s[1]) \in finishedGroups

\* A stream that is over has no part left, and nothing is left to do between events.
ClosedIsEmpty == /\ closed => DOMAIN states = {} /\ Idle
                 /\ Idle => todo = <<>>

KeptInv == /\ SizesInv
           /\ RememberedInv
           /\ TroubleIsKept
           /\ TextIsKept
           /\ ClosedIsEmpty
           /\ CompleteIsEarned

LEMMA InitKept == Init => KeptInv
BY DEF Init, KeptInv, SizesInv, RememberedInv, TroubleIsKept, TextIsKept, ClosedIsEmpty,
       CompleteIsEarned, Idle

\* A part that ends as complete was not declared failed or incomplete.
LEMMA EndedIsEarned ==
    ASSUME NEW s, NEW status, Ended(s, VerdictOf(status)).complete
    PROVE  ~Ended(s, VerdictOf(status)).failed /\ ~s.failed /\ ~s.incomplete
BY DEF Ended, VerdictOf

\* What is reported is remembered, and the other way round.
LEMMA ReportedIsFinished ==
    ASSUME IInv, KeptInv, NEW g
    PROVE  Reported(g) <=> g \in finishedGroups
BY DEF IInv, ReportsInv, KeptInv, RememberedInv, Reported

\* An output that is over has said what it had to say.
LEMMA OverIsHeard ==
    ASSUME IInv, KeptInv, NEW k, Over(k)
    PROVE  Heard(k)
BY ReportedIsFinished DEF Over, Heard, KeptInv, RememberedInv

\* What finishing parts of whole outputs adds to the reports.
LEMMA NewReports ==
    ASSUME IInv, NEW K, NEW verdict, NEW limit, NEW cutShort,
           FinishKeys(K, verdict, limit, cutShort),
           NEW i \in DOMAIN reports', NEW o \in reports'[i]
    PROVE  \/ i \in DOMAIN reports /\ o \in reports[i]
           \/ \E g \in {Group(k) : k \in {l \in K : HasData(states[l])}} :
                 /\ o.group = g
                 /\ ~o.limited => ~limit
                 /\ o.complete => \A k \in {l \in K : HasData(states[l])} : Group(k) = g =>
                                     Ended(states[k], verdict).complete
                 /\ o.failed => \E k \in {l \in K : HasData(states[l])} :
                                     /\ Group(k) = g
                                     /\ Ended(states[k], verdict).failed
<1> DEFINE ready == {l \in K : HasData(states[l])}
           gs == {Group(k) : k \in ready}
           R(g) == Report({k \in ready : Group(k) = g}, verdict, limit, cutShort)
<1>1. reports' = IF ready = {} THEN reports ELSE Append(reports, {R(g) : g \in gs})
  BY DEF FinishKeys
<1>2. PICK S : reports \in Seq(S)
  BY DEF IInv, ReportsInv
<1>3. ASSUME NEW g \in gs PROVE R(g).group = g
  <2> HIDE DEF ready
  <2>1. g \in {Group(k) : k \in ready}
    OBVIOUS
  <2> HIDE DEF gs
  <2> QED BY <2>1, ReportOfGroup
<1>4. ASSUME NEW g \in gs
      PROVE  /\ ~R(g).limited => ~limit
             /\ R(g).complete => \A k \in ready : Group(k) = g => Ended(states[k], verdict).complete
             /\ R(g).failed => \E k \in ready : Group(k) = g /\ Ended(states[k], verdict).failed
  BY DEF Report
<1> HIDE DEF R, gs
<1>5. CASE i \in DOMAIN reports
  <2>1. reports'[i] = reports[i]
    BY <1>1, <1>2, <1>5
  <2> QED BY <1>5, <2>1
<1>6. CASE i \notin DOMAIN reports
  <2>1. reports'[i] = {R(g) : g \in gs}
    BY <1>1, <1>2, <1>6
  <2>2. PICK g \in gs : o = R(g)
    BY <2>1
  <2> QED BY <1>3, <1>4, <2>2 DEF gs
<1> QED BY <1>5, <1>6

\* Finishing parts of whole outputs keeps what has been said.
LEMMA FinishKept ==
    ASSUME IInv, KeptInv, NEW k, NEW K \in {All, ChoiceKeys(k), OutputKeys(k)},
           NEW status, NEW cutShort,
           FinishKeys(K, VerdictOf(status), limited', cutShort),
           limited => limited', UNCHANGED streamed
    PROVE  RememberedInv' /\ TroubleIsKept' /\ TextIsKept' /\ CompleteIsEarned'
<1> DEFINE ready == {l \in K : HasData(states[l])}
           gs == {Group(l) : l \in ready}
           v == VerdictOf(status)
<1>1. K \subseteq DOMAIN states
  BY DEF All, ChoiceKeys, OutputKeys
<1>2. /\ states' = [l \in DOMAIN states \ K |-> states[l]]
      /\ finished' = finished \cup ready
      /\ finishedGroups' = finishedGroups \cup gs
      /\ troubled' = troubled \ (K \ ready)
  BY DEF FinishKeys
<1>3. \A g \in gs : g \notin finishedGroups
  BY <1>1 DEF IInv, PartsAreOpen
<1>4. RememberedInv'
  <2>1. ASSUME NEW g \in finishedGroups PROVE Reported(g)'
    <3>1. PICK i \in DOMAIN reports : \E o \in reports[i] : o.group = g
      BY DEF KeptInv, RememberedInv, Reported
    <3>2. PICK S : reports \in Seq(S)
      BY DEF IInv, ReportsInv
    <3>3. i \in DOMAIN reports' /\ reports'[i] = reports[i]
      BY <3>2 DEF FinishKeys
    <3> QED BY <3>1, <3>3 DEF Reported
  <2>2. ASSUME NEW g \in gs PROVE Reported(g)'
    <3> DEFINE R(h) == Report({l \in ready : Group(l) = h}, v, limited', cutShort)
    <3>1. reports' = Append(reports, {R(h) : h \in gs})
      BY <2>2 DEF FinishKeys
    <3>2. R(g).group = g
      <4> HIDE DEF ready, v
      <4> QED BY <2>2, ReportOfGroup
    <3> HIDE DEF R, gs
    <3>3. PICK S : reports \in Seq(S)
      BY DEF IInv, ReportsInv
    <3>4. /\ Len(reports) + 1 \in DOMAIN reports'
          /\ reports'[Len(reports) + 1] = {R(h) : h \in gs}
      BY <3>1, <3>3
    <3> QED BY <2>2, <3>2, <3>4 DEF Reported
  <2> QED BY <1>2, <2>1, <2>2 DEF KeptInv, RememberedInv
<1>5. TroubleIsKept'
  BY <1>1, <1>2 DEF KeptInv, TroubleIsKept
<1>6. TextIsKept'
  <2>1. \A l \in DOMAIN states : \A f : f \in DOMAIN states[l].text /\ states[l].text[f].len > 0 => HasData(states[l])
    BY DEF HasData
  <2> QED BY <1>1, <1>2, <2>1 DEF KeptInv, TextIsKept
<1>7. CompleteIsEarned'
  <2> SUFFICES ASSUME NEW i \in DOMAIN reports', NEW o \in reports'[i], o.complete, ~o.limited
               PROVE  ~o.failed /\ o.group \notin {Group(l) : l \in troubled'}
    BY DEF CompleteIsEarned
  <2>1. CASE i \in DOMAIN reports /\ o \in reports[i]
    BY <1>2, <2>1 DEF KeptInv, CompleteIsEarned
  <2>2. CASE ~(i \in DOMAIN reports /\ o \in reports[i])
    <3>1. PICK g \in gs : /\ o.group = g
                          /\ ~limited'
                          /\ \A l \in ready : Group(l) = g => Ended(states[l], v).complete
                          /\ o.failed => \E l \in ready : Group(l) = g /\ Ended(states[l], v).failed
      BY <2>2, NewReports
    <3>2. ~o.failed
      BY <3>1, EndedIsEarned
    <3>3. ASSUME NEW l \in troubled', Group(l) = g PROVE FALSE
      <4>1. l \in DOMAIN states /\ (states[l].failed \/ states[l].incomplete)
        BY <1>2, <1>3, <3>1, <3>3 DEF KeptInv, TroubleIsKept
      <4>2. l \in ready
        BY <1>2, <3>3, <4>1, WholeOutputs
      <4> QED BY <3>1, <3>3, <4>1, <4>2, EndedIsEarned
    <3> QED BY <3>1, <3>2, <3>3
  <2> QED BY <2>1, <2>2
<1> QED BY <1>4, <1>5, <1>6, <1>7

\* A write says nothing about an output that has been reported.
LEMMA WritingEarned ==
    ASSUME IInv, KeptInv, NEW p, Writing(p)
    PROVE  RememberedInv' /\ CompleteIsEarned'
<1>1. UNCHANGED ends
  BY DEF Writing
<1>2. \A k \in troubled' : k \in troubled \/ (k = p.key /\ ~Reported(Group(k)))
  BY DEF Writing, Heard
<1> QED BY <1>1, <1>2
    DEF ends, KeptInv, RememberedInv, CompleteIsEarned, Reported

\* The piece in hand, and what it adds to what was streamed.
LEMMA PieceInHand ==
    ASSUME KeptInv, todo # <<>>
    PROVE  /\ Head(todo) \in Piece /\ Tail(todo) \in Seq(Piece)
           /\ Slot(Head(todo)) \in Key \X Fields
           /\ Head(todo).n \in Nat
<1>1. Head(todo) \in Piece /\ Tail(todo) \in Seq(Piece)
  BY DEF KeptInv, SizesInv
<1> HIDE DEF KeptInv
<1> QED BY <1>1 DEF Piece, Slot

LEMMA SentSizes ==
    ASSUME KeptInv, NEW p \in Piece
    PROVE  /\ DOMAIN Sent(p) \subseteq Key \X Fields
           /\ \A s \in DOMAIN Sent(p) : Sent(p)[s] \in Nat
<1>1. p.n \in Nat /\ Slot(p) \in Key \X Fields
  BY DEF Piece, Slot
<1> QED BY <1>1 DEF Sent, Put, KeptInv, SizesInv

\* A text with something added holds something, and no more than the limit.
LEMMA AppendedText ==
    ASSUME NEW t \in Text, NEW n \in Nat
    PROVE  /\ Appended(t, n) \in Text
           /\ t.len > 0 \/ n > 0 => Appended(t, n).len > 0
<1> USE ConstantsAssumption DEF Text
<1>0. t.len \in 0..Limit /\ t.cut \in BOOLEAN
  OBVIOUS
<1>1. CASE t.len + n <= Limit
  <2>1. Appended(t, n) = [t EXCEPT !.len = t.len + n]
    BY <1>1 DEF Appended
  <2>2. t.len + n \in 0..Limit
    BY <1>0, <1>1
  <2> QED BY <1>0, <2>1, <2>2
<1>2. CASE ~(t.len + n <= Limit)
  BY <1>2 DEF Appended
<1> QED BY <1>1, <1>2

\* The texts of a part with one field more, or another text in a field.
LEMMA PutText ==
    ASSUME NEW texts \in Texts, NEW f \in Fields, NEW t \in Text
    PROVE  Put(texts, f, t) \in Texts
<1>1. PICK C \in SUBSET Commands : texts \in [{"main", "refusal"} \cup C -> Text]
  BY DEF Texts
<1>2. Put(texts, f, t) \in [({"main", "refusal"} \cup C) \cup {f} -> Text]
  BY <1>1 DEF Put
<1>3. CASE f \in Commands
  <2>1. ({"main", "refusal"} \cup C) \cup {f} = {"main", "refusal"} \cup (C \cup {f})
    OBVIOUS
  <2>2. C \cup {f} \in SUBSET Commands
    BY <1>3
  <2> QED BY <1>2, <2>1, <2>2 DEF Texts
<1>4. CASE f \notin Commands
  <2>1. ({"main", "refusal"} \cup C) \cup {f} = {"main", "refusal"} \cup C
    BY <1>4 DEF Fields
  <2> QED BY <1>2, <2>1 DEF Texts
<1> QED BY <1>3, <1>4

LEMMA BlankPart == Blank \in Part /\ ~Blank.completed
<1>1. NoText \in Text
  BY ConstantsAssumption DEF NoText, Text
<1>2. [f \in {"main", "refusal"} |-> NoText] \in [{"main", "refusal"} \cup {} -> Text]
  BY <1>1
<1>3. [f \in {"main", "refusal"} |-> NoText] \in Texts
  BY <1>2 DEF Texts
<1> QED BY <1>3 DEF Blank, Part

\* A status is noted and nothing that was noted before is forgotten.
LEMMA StatusNoted ==
    ASSUME NEW s \in Part, NEW status
    PROVE  /\ WithStatus(s, status) \in Part
           /\ WithStatus(s, status).text = s.text
           /\ s.failed \/ status = "failed" <=> WithStatus(s, status).failed
           /\ s.incomplete \/ status = "incomplete" <=> WithStatus(s, status).incomplete
           /\ s.completed \/ status = "completed" <=> WithStatus(s, status).completed
BY DEF WithStatus, Part

\* A label changes neither texts nor statuses.
LEMMA LabelNoted ==
    ASSUME NEW s \in Part, NEW p \in Piece
    PROVE  /\ Labelled(s, p) \in Part
           /\ Labelled(s, p).text = s.text
           /\ Labelled(s, p).failed = s.failed /\ Labelled(s, p).incomplete = s.incomplete
           /\ Labelled(s, p).completed = s.completed
<1>1. p.labels \in BOOLEAN
  BY DEF Piece
<1> QED BY <1>1 DEF Labelled, Part

\* The text a write adds to.
TextBefore(s, p) == IF p.whole \/ p.field \notin DOMAIN s.text THEN NoText ELSE s.text[p.field]

\* What a write makes of a part: its text is there, and what was said of it is not forgotten.
LEMMA WrittenPart ==
    ASSUME NEW s \in Part, NEW p \in Piece
    PROVE  /\ Written(s, p) \in Part
           /\ s.failed \/ p.status = "failed" <=> Written(s, p).failed
           /\ s.incomplete \/ p.status = "incomplete" <=> Written(s, p).incomplete
           /\ s.completed \/ p.status = "completed" <=> Written(s, p).completed
           /\ p.field \in DOMAIN Written(s, p).text
           /\ \A f \in DOMAIN s.text \ {p.field} :
                 f \in DOMAIN Written(s, p).text /\ Written(s, p).text[f] = s.text[f]
           /\ p.n > 0 => Written(s, p).text[p.field].len > 0
           /\ ~p.whole /\ p.field \in DOMAIN s.text /\ s.text[p.field].len > 0 =>
                 Written(s, p).text[p.field].len > 0
           /\ TextBefore(s, p) \in Text
           /\ Written(s, p).text[p.field] = Appended(TextBefore(s, p), p.n)
<1> DEFINE old == IF p.whole \/ p.field \notin DOMAIN s.text THEN NoText ELSE s.text[p.field]
           base == Labelled(s, p)
           text == Put(base.text, p.field, Appended(old, p.n))
           authoritative == IF p.decides THEN p.n > 0 ELSE base.authoritative
           noted == [base EXCEPT !.text = text, !.authoritative = authoritative]
<1>0. /\ base \in Part /\ base.text = s.text
      /\ base.failed = s.failed /\ base.incomplete = s.incomplete
      /\ base.completed = s.completed
  BY LabelNoted
<1> HIDE DEF base
<1>1. /\ p.n \in Nat /\ p.field \in Fields /\ p.decides \in BOOLEAN /\ p.whole \in BOOLEAN
      /\ s.text \in Texts /\ base.authoritative \in BOOLEAN
  BY <1>0 DEF Piece, Part
<1>2. \A f \in DOMAIN s.text : s.text[f] \in Text
  BY <1>1 DEF Texts
<1>3. old \in Text
  BY <1>2, ConstantsAssumption DEF NoText, Text
<1>4. /\ Appended(old, p.n) \in Text
      /\ old.len > 0 \/ p.n > 0 => Appended(old, p.n).len > 0
  BY <1>1, <1>3, AppendedText
<1>5. text \in Texts
  BY <1>0, <1>1, <1>4, PutText
<1>6. /\ DOMAIN text = DOMAIN s.text \cup {p.field}
      /\ text[p.field] = Appended(old, p.n)
      /\ \A f \in DOMAIN s.text \ {p.field} : text[f] = s.text[f]
  BY <1>0 DEF Put
<1>7. authoritative \in BOOLEAN
  <2>1. (p.n > 0) \in BOOLEAN
    OBVIOUS
  <2> QED BY <1>1, <2>1
<1> HIDE DEF text, authoritative, old
<1>8. /\ noted \in Part /\ noted.text = text
      /\ noted.failed = s.failed /\ noted.incomplete = s.incomplete
      /\ noted.completed = s.completed
  BY <1>0, <1>5, <1>7 DEF Part
<1>9. Written(s, p) = WithStatus(noted, p.status)
  BY <1>0 DEF Written, text, authoritative, old, base
<1> HIDE DEF noted
<1>10. /\ Written(s, p) \in Part /\ Written(s, p).text = text
       /\ s.failed \/ p.status = "failed" <=> Written(s, p).failed
       /\ s.incomplete \/ p.status = "incomplete" <=> Written(s, p).incomplete
       /\ s.completed \/ p.status = "completed" <=> Written(s, p).completed
  BY <1>8, <1>9, StatusNoted
<1> QED BY <1>3, <1>4, <1>6, <1>10 DEF old, TextBefore

\* A part that is written to holds what is sent, unless the accumulator is marked.
LEMMA WriteKept ==
    ASSUME IInv, KeptInv, todo # <<>>, NEW p, p = Head(todo),
           ~Over(p.key), Writing(p), NEW s \in Part, s = Opened(p.key),
           NEW part \in {Written(s, p), Labelled(s, p)},
           states' = Put(states, p.key, part),
           part # Written(s, p) => limited',
           limited => limited', ClosedIsEmpty'
    PROVE  KeptInv'
<1> USE DEF KeptInv
<1> DEFINE k == p.key
<1>1. /\ p \in Piece /\ todo' \in Seq(Piece) /\ Slot(p) \in Key \X Fields /\ p.n \in Nat
      /\ k \in Key /\ p.field \in Fields /\ p.whole \in BOOLEAN
  <2>1. p \in Piece /\ todo' \in Seq(Piece) /\ Slot(p) \in Key \X Fields /\ p.n \in Nat
    BY PieceInHand DEF Writing, Does
  <2> QED BY <2>1 DEF Piece
<1>2. /\ DOMAIN states' = DOMAIN states \cup {k} /\ states'[k] = part
      /\ \A l \in DOMAIN states \ {k} : states'[l] = states[l]
  BY DEF Put
<1>3. UNCHANGED ends /\ streamed' = Sent(p)
  BY DEF Writing
<1>4. part \in Part
  BY <1>1, WrittenPart, LabelNoted
<1>5. SizesInv'
  BY <1>1, <1>2, <1>3, <1>4, SentSizes DEF SizesInv
<1>6. RememberedInv' /\ CompleteIsEarned'
  BY WritingEarned
<1>8. TroubleIsKept'
  <2> SUFFICES ASSUME NEW l \in troubled', ~limited'
               PROVE  \/ l \in DOMAIN states' /\ (states'[l].failed \/ states'[l].incomplete)
                      \/ Group(l) \in finishedGroups'
    BY DEF TroubleIsKept
  <2>1. part = Written(s, p)
    OBVIOUS
  <2>2. CASE l \in troubled
    <3>1. \/ l \in DOMAIN states /\ (states[l].failed \/ states[l].incomplete)
          \/ Group(l) \in finishedGroups'
      BY <1>3, <2>2 DEF TroubleIsKept, ends
    <3>2. l = k /\ l \in DOMAIN states => s = states[l]
      BY DEF Opened
    <3> QED BY <1>1, <1>2, <2>1, <3>1, <3>2, WrittenPart
  <2>3. CASE l \notin troubled
    <3>1. l = k /\ Bad(p.status)
      BY <2>3 DEF Writing
    <3> QED BY <1>1, <1>2, <2>1, <3>1, WrittenPart DEF Bad
  <2> QED BY <2>2, <2>3
<1>9. TextIsKept'
  <2> SUFFICES ASSUME NEW t \in DOMAIN streamed', ~limited', streamed'[t] > 0
               PROVE  \/ /\ t[1] \in DOMAIN states'
                         /\ t[2] \in DOMAIN states'[t[1]].text
                         /\ states'[t[1]].text[t[2]].len > 0
                      \/ Group(t[1]) \in finishedGroups'
    BY DEF TextIsKept
  <2>1. part = Written(s, p)
    OBVIOUS
  <2>2. t \in Key \X Fields
    BY <1>5 DEF SizesInv
  <2>3. k \in DOMAIN states => s = states[k]
    BY DEF Opened
  <2>4. CASE t = Slot(p)
    <3>1. t[1] = k /\ t[2] = p.field
      BY <2>4 DEF Slot
    <3>2. CASE p.n > 0
      BY <1>1, <1>2, <2>1, <3>1, <3>2, WrittenPart
    <3>3. CASE ~(p.n > 0)
      <4>1. /\ t \in DOMAIN streamed /\ streamed[t] > 0
            /\ Heard(k) \/ ~p.whole
        BY <1>1, <1>3, <2>4, <3>3 DEF Sent, Put, SizesInv
      <4>2. \/ /\ k \in DOMAIN states
               /\ p.field \in DOMAIN states[k].text
               /\ states[k].text[p.field].len > 0
            \/ Group(k) \in finishedGroups
        BY <3>1, <4>1 DEF TextIsKept
      <4>3. ~p.whole /\ Group(k) \notin finishedGroups
        BY <4>1, ReportedIsFinished DEF Heard, Over
      <4>4. part.text[p.field].len > 0
        BY <1>1, <2>1, <2>3, <4>2, <4>3, WrittenPart
      <4>5. p.field \in DOMAIN part.text
        BY <1>1, <2>1, WrittenPart
      <4> QED BY <1>2, <3>1, <4>4, <4>5
    <3> QED BY <3>2, <3>3
  <2>5. CASE t # Slot(p)
    <3>1. t \in DOMAIN streamed /\ streamed[t] > 0
      BY <1>3, <2>5 DEF Sent, Put
    <3>2. \/ /\ t[1] \in DOMAIN states
             /\ t[2] \in DOMAIN states[t[1]].text
             /\ states[t[1]].text[t[2]].len > 0
          \/ Group(t[1]) \in finishedGroups'
      BY <1>3, <3>1 DEF TextIsKept, ends
    <3>3. t[1] = k => t[2] # p.field
      BY <2>2, <2>5 DEF Slot
    <3>4. \A f \in DOMAIN s.text \ {p.field} : f \in DOMAIN part.text /\ part.text[f] = s.text[f]
      BY <1>1, <2>1, WrittenPart
    <3>5. CASE t[1] = k
      BY <1>2, <2>3, <3>2, <3>3, <3>4, <3>5
    <3>6. CASE t[1] # k
      BY <1>2, <3>2, <3>6
    <3> QED BY <3>5, <3>6
  <2> QED BY <2>4, <2>5
<1> QED BY <1>5, <1>6, <1>8, <1>9

\* A step that changes no part and reports nothing.
LEMMA QuietKept ==
    ASSUME KeptInv, UNCHANGED <<states, ends, history>>, limited => limited',
           todo' \in Seq(Piece), closed => Idle', Idle' => todo' = <<>>, UNCHANGED closed
    PROVE  KeptInv'
BY DEF KeptInv, SizesInv, RememberedInv, Reported, TroubleIsKept, TextIsKept, ClosedIsEmpty,
       CompleteIsEarned, ends, history

LEMMA PieceKept ==
    ASSUME IInv, KeptInv, ObservePiece
    PROVE  KeptInv'
<1> DEFINE p == Head(todo)
<1>0. /\ p \in Piece /\ Tail(todo) \in Seq(Piece)
      /\ ~closed /\ todo # <<>> /\ ~Idle
  <2>1. ~closed /\ todo # <<>> /\ ~Idle
    BY DEF ObservePiece, KeptInv, ClosedIsEmpty
  <2> QED BY <2>1, PieceInHand
<1>e. /\ ~Idle' /\ ~closed' /\ ClosedIsEmpty'
  <2>1. end' = end /\ closed' = closed
    BY DEF ObservePiece, WriteLate, RefusePart, WritePart, WriteNewCommand, Writing, ReportLifecycle,
           MarkOutput, MarkKeys, FinishOutputItem, EndOfChoice, Does, flags
  <2> QED BY <1>0, <2>1 DEF ClosedIsEmpty, Idle
<1>1. /\ Opened(p.key) \in Part
      /\ \A k \in DOMAIN states : states[k] \in Part
  BY BlankPart DEF Opened, KeptInv, SizesInv
<1>2. CASE WriteLate(p)
  <2>1. Heard(p.key)
    BY <1>2, OverIsHeard DEF WriteLate
  <2>2. UNCHANGED <<states, ends, history, limited, closed>> /\ todo' = Tail(todo)
    BY <1>2, <2>1 DEF WriteLate, Writing, Does, Sent, history, flags
  <2> QED BY <1>0, <1>e, <2>2, QuietKept
<1>3. CASE RefusePart(p)
  <2>1. /\ UNCHANGED <<states, ends, closed>> /\ todo' = Tail(todo) /\ streamed' = Sent(p)
        /\ limited'
    BY <1>3 DEF RefusePart, Writing, Does, flags
  <2>2. SizesInv'
    BY <1>0, <2>1, SentSizes DEF KeptInv, SizesInv
  <2>3. RememberedInv' /\ CompleteIsEarned'
    BY <1>3, WritingEarned DEF RefusePart
  <2>4. TroubleIsKept' /\ TextIsKept'
    BY <2>1 DEF TroubleIsKept, TextIsKept
  <2> QED BY <1>e, <2>2, <2>3, <2>4 DEF KeptInv
<1>4. CASE WritePart(p)
  <2>1. /\ ~Over(p.key) /\ Writing(p) /\ UNCHANGED <<limited, closed>>
        /\ states' = Put(states, p.key, Written(Opened(p.key), p))
    BY <1>4 DEF WritePart, Writing, Does, flags
  <2> QED BY <1>0, <1>e, <1>1, <2>1, WriteKept
<1>5. CASE WriteNewCommand(p)
  <2> DEFINE room == createdParts + (IF p.key \in DOMAIN states THEN 0 ELSE 1) < MaxParts
  <2>1. /\ ~Over(p.key) /\ Writing(p) /\ UNCHANGED closed
        /\ states' = Put(states, p.key, IF room THEN Written(Opened(p.key), p)
                                                ELSE Labelled(Opened(p.key), p))
        /\ limited' = (limited \/ ~room)
    BY <1>5 DEF WriteNewCommand, Writing, Does, flags
  <2> HIDE DEF room
  <2>2. CASE room
    BY <1>0, <1>e, <1>1, <2>1, <2>2, WriteKept
  <2>3. CASE ~room
    BY <1>0, <1>e, <1>1, <2>1, <2>3, WriteKept
  <2> QED BY <2>2, <2>3
<1>6. CASE ReportLifecycle(p) \/ MarkOutput(p)
  <2>1. PICK op, K : MarkKeys(p, op, K)
    BY <1>6 DEF ReportLifecycle, MarkOutput
  <2>2. /\ DOMAIN states' = DOMAIN states
        /\ \A k \in DOMAIN states : states'[k] = IF k \in K THEN WithStatus(states[k], p.status)
                                                            ELSE states[k]
        /\ UNCHANGED <<ends, limited, streamed, closed>> /\ todo' = Tail(todo)
        /\ troubled' = IF Bad(p.status) THEN troubled \cup (K \cap DOMAIN states) ELSE troubled
    BY <2>1 DEF MarkKeys, Does, flags
  <2>3. \A k \in DOMAIN states :
           /\ states'[k] \in Part /\ states'[k].text = states[k].text
           /\ states[k].failed \/ (k \in K /\ p.status = "failed") <=> states'[k].failed
           /\ states[k].incomplete \/ (k \in K /\ p.status = "incomplete") <=> states'[k].incomplete
    BY <1>1, <2>2, StatusNoted
  <2>4. SizesInv'
    BY <1>0, <2>2, <2>3 DEF KeptInv, SizesInv
  <2>5. RememberedInv' /\ TextIsKept'
    BY <2>2, <2>3 DEF KeptInv, RememberedInv, Reported, TextIsKept, ends
  <2>6. TroubleIsKept'
    BY <2>2, <2>3 DEF KeptInv, TroubleIsKept, Bad, ends
  <2>7. CompleteIsEarned'
    <3>1. \A k \in K \cap DOMAIN states : ~Reported(Group(k))
      BY ReportedIsFinished DEF IInv, PartsAreOpen
    <3> QED BY <2>2, <3>1 DEF KeptInv, CompleteIsEarned, Reported, ends
  <2> QED BY <1>e, <2>4, <2>5, <2>6, <2>7 DEF KeptInv
<1>7. ASSUME NEW K \in {OutputKeys(p.key), ChoiceKeys(p.key)}, NEW status,
             FinishKeys(K, VerdictOf(status), limited, terminalIncomplete),
             UNCHANGED <<limited, streamed, closed>>, todo' = Tail(todo)
      PROVE  KeptInv'
  <2>1. RememberedInv' /\ TroubleIsKept' /\ TextIsKept' /\ CompleteIsEarned'
    BY <1>7, FinishKept
  <2>2. SizesInv'
    BY <1>0, <1>1, <1>7 DEF FinishKeys, KeptInv, SizesInv
  <2> QED BY <1>e, <2>1, <2>2 DEF KeptInv
<1>8. CASE FinishOutputItem(p)
  BY <1>7, <1>8 DEF FinishOutputItem, Does, flags
<1>9. CASE EndOfChoice(p)
  <2> DEFINE c == <<p.key.source, p.key.choice>>
  <2>1. todo' = Tail(todo) /\ UNCHANGED <<closed, streamed>>
    BY <1>9 DEF EndOfChoice, Does, flags
  <2>2. CASE c \in finishedChoices \/ Cardinality(finishedChoices) >= MaxGroups
    BY <1>0, <1>e, <1>9, <2>1, <2>2, QuietKept DEF EndOfChoice, history
  <2>3. CASE ~(c \in finishedChoices \/ Cardinality(finishedChoices) >= MaxGroups)
    BY <1>7, <1>9, <2>1, <2>3 DEF EndOfChoice
  <2> QED BY <2>2, <2>3
<1> QED BY <1>2, <1>3, <1>4, <1>5, <1>6, <1>8, <1>9 DEF ObservePiece

LEMMA CloseKept ==
    ASSUME IInv, KeptInv, NEW ending, NEW mark, Close(ending, mark), todo = <<>>
    PROVE  KeptInv'
<1>1. /\ FinishKeys(All, VerdictOf(ending), limited', terminalIncomplete')
      /\ streamed' = streamed /\ todo' = todo /\ closed' = TRUE /\ end' = "idle"
  BY DEF Close
<1>0. limited => limited'
  BY DEF Close
<1>2. RememberedInv' /\ TroubleIsKept' /\ TextIsKept' /\ CompleteIsEarned'
  <2>1. All \in {All, ChoiceKeys(0), OutputKeys(0)}
    OBVIOUS
  <2>2. UNCHANGED streamed
    BY <1>1
  <2> DEFINE K == All
             cut == terminalIncomplete'
  <2>3. FinishKeys(K, VerdictOf(ending), limited', cut)
    BY <1>1
  <2> HIDE DEF K, cut
  <2> QED BY <1>0, <2>1, <2>2, <2>3, FinishKept DEF K
<1>3. DOMAIN states' = {}
  BY <1>1 DEF FinishKeys, All
<1>4. SizesInv'
  BY <1>1, <1>3 DEF KeptInv, SizesInv
<1>5. ClosedIsEmpty'
  BY <1>1, <1>3 DEF ClosedIsEmpty, Idle
<1> QED BY <1>2, <1>4, <1>5 DEF KeptInv

LEMMA NextKept ==
    ASSUME IInv, KeptInv, [Next]_vars
    PROVE  KeptInv'
<1>0. (closed => Idle) /\ (Idle => todo = <<>>) /\ todo \in Seq(Piece)
  BY DEF KeptInv, ClosedIsEmpty, SizesInv
<1>1. ASSUME NEW e \in Events, Receive(e) PROVE KeptInv'
  <2>1. e.pieces \in Seq(Piece) /\ e.end # "idle"
    BY EventsAssumption DEF Event, Ending
  <2>2. ~closed /\ todo' = e.pieces /\ end' = e.end /\ UNCHANGED <<states, ends, history, limited, closed>>
    BY <1>1 DEF Receive, flags, history
  <2> QED BY <2>1, <2>2, QuietKept DEF Idle
<1>2. CASE ObservePiece
  BY <1>2, PieceKept
<1>3. CASE ConcludeOpen
  <2>1. UNCHANGED <<states, ends, history, limited, closed, todo>> /\ ~closed
    BY <1>0, <1>3 DEF ConcludeOpen, flags, Idle
  <2>2. todo = <<>>
    BY <1>3 DEF ConcludeOpen
  <2> QED BY <1>0, <2>1, <2>2, QuietKept
<1>4. CASE ObserveInvalid \/ MarkLimited
  <2>1. UNCHANGED <<states, ends, history, closed, todo, end>> /\ (limited => limited')
    BY <1>4 DEF ObserveInvalid, MarkLimited, flags
  <2> QED BY <1>0, <2>1, QuietKept DEF Idle
<1>5. CASE ConcludeTerminal
  BY <1>5, CloseKept DEF ConcludeTerminal
<1>6. CASE ObserveDone \/ Finish
  <2>1. ~closed /\ Idle
    BY <1>6 DEF ObserveDone, Finish
  <2>2. PICK ending, mark : Close(ending, mark)
    BY <1>6 DEF ObserveDone, Finish
  <2> QED BY <1>0, <2>1, <2>2, CloseKept
<1>7. ASSUME NEW ending \in Ending, ObserveMisshapen(ending) PROVE KeptInv'
  <2>1. CASE ending = "open"
    <3>1. UNCHANGED <<states, ends, history, closed, todo, end>> /\ (limited => limited')
      BY <1>7, <2>1 DEF ObserveMisshapen
    <3> QED BY <1>0, <3>1, QuietKept DEF Idle
  <2>2. CASE ending # "open"
    <3>1. Close(ending, TRUE) /\ Idle
      BY <1>7, <2>2 DEF ObserveMisshapen
    <3> QED BY <1>0, <3>1, CloseKept
  <2> QED BY <2>1, <2>2
<1>8. CASE UNCHANGED vars
  <2>1. UNCHANGED <<states, ends, history, limited, closed, todo, end>>
    BY <1>8 DEF vars, flags
  <2> QED BY <1>0, <2>1, QuietKept DEF Idle
<1> QED BY <1>1, <1>2, <1>3, <1>4, <1>5, <1>6, <1>7, <1>8 DEF Next

\* The statuses and texts the response has sent are kept in every reachable state.
THEOREM KeptInvariance == Spec => []KeptInv
<1>1. IInv /\ KeptInv /\ [Next]_vars => KeptInv'
  BY NextKept
<1> QED BY InitKept, Invariance, <1>1, PTL DEF Spec

\* An output is complete only if none of its parts was declared failed or incomplete, in
\* whatever order the statuses of parts, tool calls and items come, or it is marked.
THEOREM CompletenessIsEarned == Spec => []CompleteIsEarned
<1>1. KeptInv => CompleteIsEarned
  BY DEF KeptInv
<1> QED BY KeptInvariance, <1>1, PTL

\* When the stream is over without a mark, whatever carried text has been reported.
THEOREM NoTextIsLost == Spec => []NothingLost
<1>1. IInv /\ KeptInv => NothingLost
  <2> SUFFICES ASSUME IInv, KeptInv, closed, ~limited,
                      NEW s \in DOMAIN streamed, streamed[s] > 0
               PROVE  Reported(Group(s[1]))
    BY DEF NothingLost
  <2>1. Group(s[1]) \in finishedGroups
    BY DEF KeptInv, TextIsKept, ClosedIsEmpty
  <2> QED BY <2>1, ReportedIsFinished
<1> QED BY Invariance, KeptInvariance, <1>1, PTL

-----------------------------------------------------------------------------
(* Sizes: a report without a mark has all the bytes its output was sent. *)

\* What was streamed to a field of a part.
StreamedTo(s) == IF s \in DOMAIN streamed THEN streamed[s] ELSE 0

\* A text that was not cut is as long as what was streamed to it.
TextIsExact ==
    \A k \in DOMAIN states : \A f \in DOMAIN states[k].text :
        ~limited /\ ~states[k].text[f].cut => states[k].text[f].len = StreamedTo(<<k, f>>)

\* A tool call is one part, and commands are those of a tool call.
OneTool(k) == k.kind = "tool" => k.content = Absent
ToolField(k, f) == OneTool(k) /\ (f \in Commands => k.kind = "tool")

ToolsInv ==
    /\ \A i \in DOMAIN todo : ToolField(todo[i].key, todo[i].field)
    /\ \A s \in DOMAIN streamed : ToolField(s[1], s[2])
    /\ \A k \in DOMAIN states : k \in Key /\ OneTool(k)
    /\ \A k \in DOMAIN states : \A c \in CommandsOf(states[k]) : <<k, c>> \in DOMAIN streamed

WholeInv == TextIsExact /\ ToolsInv /\ ReportsAreWhole

LEMMA InitWhole == Init => WholeInv
BY DEF Init, WholeInv, TextIsExact, ToolsInv, ReportsAreWhole

\* The values of a function that are zero add nothing.
LEMMA SameSum ==
    ASSUME NEW f, NEW h,
           \A x \in DOMAIN f : f[x] \in Nat, \A x \in DOMAIN h : h[x] \in Nat,
           \A x \in DOMAIN f : f[x] > 0 => x \in DOMAIN h /\ h[x] = f[x],
           \A x \in DOMAIN h : h[x] > 0 => x \in DOMAIN f /\ f[x] = h[x]
    PROVE  SumOf(f) = SumOf(h)
<1> DEFINE F == UNION {{x} \X (1..f[x]) : x \in DOMAIN f}
           H == UNION {{x} \X (1..h[x]) : x \in DOMAIN h}
<1>1. ASSUME NEW u \in F PROVE u \in H
  <2>1. PICK x \in DOMAIN f : u \in {x} \X (1..f[x])
    OBVIOUS
  <2>2. f[x] > 0
    BY <2>1
  <2>3. x \in DOMAIN h /\ h[x] = f[x]
    BY <2>2
  <2> QED BY <2>1, <2>3
<1>2. ASSUME NEW u \in H PROVE u \in F
  <2>1. PICK x \in DOMAIN h : u \in {x} \X (1..h[x])
    OBVIOUS
  <2>2. h[x] > 0
    BY <2>1
  <2>3. x \in DOMAIN f /\ f[x] = h[x]
    BY <2>2
  <2> QED BY <2>1, <2>3
<1>3. F = H
  BY <1>1, <1>2
<1> QED BY <1>3 DEF SumOf

\* The sum of one value, and of none.
LEMMA SumOfOne ==
    ASSUME NEW f, NEW x, DOMAIN f = {x}, f[x] \in Nat
    PROVE  SumOf(f) = f[x]
<1> DEFINE n == f[x]
<1>1. UNION {{y} \X (1..f[y]) : y \in DOMAIN f} = {x} \X (1..n)
  OBVIOUS
<1>2. IsFiniteSet({x}) /\ Cardinality({x}) = 1
  BY FS_Singleton
<1>3. n \in Nat
  OBVIOUS
<1> HIDE DEF n
<1>4. IsFiniteSet(1..n) /\ Cardinality(1..n) = n
  BY <1>3, FS_Interval
<1>5. Cardinality({x} \X (1..n)) = Cardinality({x}) * Cardinality(1..n)
  BY <1>2, <1>4, FS_Product
<1>6. Cardinality({x}) * Cardinality(1..n) = n
  BY <1>2, <1>3, <1>4
<1> QED BY <1>1, <1>5, <1>6 DEF SumOf, n

LEMMA SumOfNone ==
    ASSUME NEW f, DOMAIN f = {}
    PROVE  SumOf(f) = 0
<1>1. UNION {{y} \X (1..f[y]) : y \in DOMAIN f} = {}
  OBVIOUS
<1> QED BY <1>1, FS_EmptySet DEF SumOf

\* A sum of lengths within the limit is a number.
LEMMA SumOfSizes ==
    ASSUME NEW f, IsFiniteSet(DOMAIN f), \A x \in DOMAIN f : f[x] \in 0..Limit
    PROVE  SumOf(f) \in Nat
<1> DEFINE F == UNION {{x} \X (1..f[x]) : x \in DOMAIN f}
<1>1. Limit \in Nat
  BY ConstantsAssumption
<1>2. IsFiniteSet(1..Limit)
  BY <1>1, FS_Interval
<1>3. IsFiniteSet((DOMAIN f) \X (1..Limit))
  BY <1>2, FS_Product
<1>4. F \subseteq (DOMAIN f) \X (1..Limit)
  <2> SUFFICES ASSUME NEW u \in F PROVE u \in (DOMAIN f) \X (1..Limit)
    OBVIOUS
  <2>1. PICK x \in DOMAIN f : u \in {x} \X (1..f[x])
    OBVIOUS
  <2>2. f[x] \in 0..Limit
    OBVIOUS
  <2> QED BY <1>1, <2>1, <2>2
<1> HIDE DEF F
<1>5. IsFiniteSet(F)
  BY <1>3, <1>4, FS_Subset
<1> QED BY <1>5, FS_CardinalityType DEF SumOf, F

\* What is unheard of an output that is not over was not streamed.
LEMMA NothingBefore ==
    ASSUME KeptInv, ~limited, NEW k, NEW f, Group(k) \notin finishedGroups,
           k \in DOMAIN states => f \notin DOMAIN states[k].text \/ ~(states[k].text[f].len > 0)
    PROVE  StreamedTo(<<k, f>>) = 0
<1>1. CASE <<k, f>> \in DOMAIN streamed
  <2>1. streamed[<<k, f>>] \in Nat
    BY <1>1 DEF KeptInv, SizesInv
  <2>2. ~(streamed[<<k, f>>] > 0)
    BY <1>1 DEF KeptInv, TextIsKept
  <2> QED BY <1>1, <2>1, <2>2 DEF StreamedTo
<1>2. CASE <<k, f>> \notin DOMAIN streamed
  BY <1>2 DEF StreamedTo
<1> QED BY <1>1, <1>2

LEMMA StreamedToType ==
    ASSUME KeptInv, NEW s
    PROVE  StreamedTo(s) \in Nat
BY DEF KeptInv, SizesInv, StreamedTo

\* What was streamed to an output that has been reported does not change.
LEMMA ReportedIsSilent ==
    ASSUME KeptInv, NEW p, streamed' = Sent(p), NEW g, Reported(g)
    PROVE  /\ \A f : Total(g, f)' = Total(g, f)
           /\ HasCommands(g) => HasCommands(g)'
<1>1. /\ \A f : Speakers(g, f)' = Speakers(g, f)
      /\ \A s \in DOMAIN streamed : Group(s[1]) = g => s \in DOMAIN streamed' /\ streamed'[s] = streamed[s]
  <2>1. CASE Heard(p.key)
    <3>1. streamed' = streamed
      BY <2>1 DEF Sent
    <3> QED BY <3>1 DEF Speakers
  <2>2. CASE ~Heard(p.key)
    <3>1. Group(p.key) # g /\ Slot(p)[1] = p.key
      BY <2>2 DEF Heard, Slot
    <3>2. /\ DOMAIN streamed' = DOMAIN streamed \cup {Slot(p)}
          /\ \A s \in DOMAIN streamed \ {Slot(p)} : streamed'[s] = streamed[s]
      BY <2>2 DEF Sent, Put
    <3> QED BY <3>1, <3>2 DEF Speakers
  <2> QED BY <2>1, <2>2
<1>2. ASSUME NEW f PROVE Total(g, f)' = Total(g, f)
  <2>1. ASSUME NEW k \in Speakers(g, f) PROVE streamed'[<<k, f>>] = streamed[<<k, f>>]
    <3>1. PICK s \in DOMAIN streamed : Group(s[1]) = g /\ s[2] = f /\ s[1] = k
      BY DEF Speakers
    <3>2. s = <<s[1], s[2]>>
      BY DEF KeptInv, SizesInv
    <3> QED BY <1>1, <3>1, <3>2
  <2>2. /\ Total(g, f) = SumOf([k \in Speakers(g, f) |-> streamed[<<k, f>>]])
        /\ Total(g, f)' = SumOf([k \in Speakers(g, f)' |-> streamed'[<<k, f>>]])
    BY DEF Total, SumOf
  <2>3. [k \in Speakers(g, f)' |-> streamed'[<<k, f>>]] = [k \in Speakers(g, f) |-> streamed[<<k, f>>]]
    BY <1>1, <2>1
  <2> QED BY <2>2, <2>3
<1>3. HasCommands(g) => HasCommands(g)'
  BY <1>1 DEF HasCommands
<1> QED BY <1>2, <1>3

\* The reports there are stay right.
LEMMA ReportsStayWhole ==
    ASSUME KeptInv, ReportsAreWhole, NEW p, UNCHANGED reports, streamed' = Sent(p)
    PROVE  ReportsAreWhole'
<1> SUFFICES ASSUME NEW i \in DOMAIN reports, NEW o \in reports[i], ~o.truncated, ~o.limited
             PROVE  /\ o.refusal = Total(o.group, "refusal")'
                    /\ \/ o.main = Total(o.group, "main")'
                       \/ HasCommands(o.group)' /\ o.main = CommandTotal(o.group)'
  BY DEF ReportsAreWhole
<1>1. Reported(o.group)
  BY DEF Reported
<1>2. /\ \A f : Total(o.group, f)' = Total(o.group, f)
      /\ HasCommands(o.group) => HasCommands(o.group)'
  BY <1>1, ReportedIsSilent
<1>3. CommandTotal(o.group)' = CommandTotal(o.group)
  <2>1. CommandTotal(o.group)' = Quoting + SumOf([c \in Commands |-> Total(o.group, c)'])
    BY DEF CommandTotal, SumOf
  <2>2. [c \in Commands |-> Total(o.group, c)'] = [c \in Commands |-> Total(o.group, c)]
    BY <1>2
  <2> QED BY <2>1, <2>2 DEF CommandTotal
<1> QED BY <1>2, <1>3 DEF ReportsAreWhole

\* A text that is not cut by what is added to it was not cut before.
LEMMA ExactAppend ==
    ASSUME NEW t \in Text, NEW n \in Nat, ~Appended(t, n).cut
    PROVE  ~t.cut /\ Appended(t, n).len = t.len + n
<1>1. t.len + n <= Limit
  BY DEF Appended
<1>2. Appended(t, n) = [t EXCEPT !.len = t.len + n]
  BY <1>1 DEF Appended
<1> QED BY <1>2 DEF Text

\* A write that is heard is counted, at its part and field and nowhere else.
LEMMA SlotAfter ==
    ASSUME KeptInv, NEW p, p.n \in Nat, ~Heard(p.key), streamed' = Sent(p)
    PROVE  /\ StreamedTo(Slot(p))' = (IF p.whole THEN 0 ELSE StreamedTo(Slot(p))) + p.n
           /\ \A s : s # Slot(p) => StreamedTo(s)' = StreamedTo(s)
           /\ DOMAIN streamed' = DOMAIN streamed \cup {Slot(p)}
<1>1. /\ DOMAIN streamed' = DOMAIN streamed \cup {Slot(p)}
      /\ \A s \in DOMAIN streamed \ {Slot(p)} : streamed'[s] = streamed[s]
      /\ streamed'[Slot(p)] = (IF p.whole \/ Slot(p) \notin DOMAIN streamed THEN 0
                               ELSE streamed[Slot(p)]) + p.n
  BY DEF Sent, Put
<1>2. StreamedTo(Slot(p))' = streamed'[Slot(p)]
  BY <1>1 DEF StreamedTo, Slot
<1>3. StreamedTo(Slot(p))' = (IF p.whole THEN 0 ELSE StreamedTo(Slot(p))) + p.n
  BY <1>1, <1>2 DEF StreamedTo
<1> QED BY <1>1, <1>3 DEF StreamedTo

\* A part that is written to holds exactly what was streamed, unless it is cut.
LEMMA WriteWhole ==
    ASSUME IInv, KeptInv, WholeInv, todo # <<>>, NEW p, p = Head(todo),
           ~Over(p.key), Writing(p), NEW s \in Part, s = Opened(p.key),
           NEW part \in {Written(s, p), Labelled(s, p)},
           states' = Put(states, p.key, part),
           part # Written(s, p) => limited',
           limited => limited'
    PROVE  WholeInv'
<1> DEFINE k == p.key
<1>1. /\ p \in Piece /\ k \in Key /\ p.n \in Nat /\ p.field \in Fields
      /\ todo' = Tail(todo) /\ streamed' = Sent(p) /\ UNCHANGED <<reports, finishedGroups>>
  <2>1. p \in Piece
    BY PieceInHand
  <2> QED BY <2>1 DEF Piece, Writing, Does, ends
<1>2. /\ DOMAIN states' = DOMAIN states \cup {k} /\ states'[k] = part
      /\ \A l \in DOMAIN states \ {k} : states'[l] = states[l]
  BY DEF Put
<1>3. ~Heard(k) /\ Group(k) \notin finishedGroups
  BY ReportedIsFinished DEF Heard, Over
<1>4. /\ StreamedTo(Slot(p))' = (IF p.whole THEN 0 ELSE StreamedTo(Slot(p))) + p.n
      /\ \A t : t # Slot(p) => StreamedTo(t)' = StreamedTo(t)
      /\ DOMAIN streamed' = DOMAIN streamed \cup {Slot(p)}
  BY <1>1, <1>3, SlotAfter
<1>5. s = IF k \in DOMAIN states THEN states[k] ELSE Blank
  BY DEF Opened
<1>6. DOMAIN Blank.text = {"main", "refusal"} /\ \A f \in DOMAIN Blank.text : Blank.text[f].len = 0
  BY DEF Blank, NoText
<1>7. ReportsAreWhole'
  BY <1>1, ReportsStayWhole DEF WholeInv
<1>8. TextIsExact'
  <2> SUFFICES ASSUME NEW l \in DOMAIN states', NEW f \in DOMAIN states'[l].text,
                      ~limited', ~states'[l].text[f].cut
               PROVE  states'[l].text[f].len = StreamedTo(<<l, f>>)'
    BY DEF TextIsExact
  <2>1. ~limited /\ part = Written(s, p)
    OBVIOUS
  <2>2. CASE l # k
    <3>1. l \in DOMAIN states /\ states'[l] = states[l] /\ <<l, f>> # Slot(p)
      BY <1>2, <2>2 DEF Slot
    <3> QED BY <1>4, <2>1, <3>1 DEF WholeInv, TextIsExact
  <2>3. CASE l = k /\ f # p.field
    <3>1. /\ f \in DOMAIN s.text /\ part.text[f] = s.text[f] /\ <<l, f>> # Slot(p)
      BY <1>1, <1>2, <2>1, <2>3, WrittenPart, WriteAddsField DEF Slot
    <3>2. CASE k \in DOMAIN states
      BY <1>2, <1>4, <1>5, <2>1, <2>3, <3>1, <3>2 DEF WholeInv, TextIsExact
    <3>3. CASE k \notin DOMAIN states
      <4>1. StreamedTo(<<k, f>>) = 0
        BY <1>3, <2>1, <3>3, NothingBefore
      <4> QED BY <1>2, <1>4, <1>5, <1>6, <2>3, <3>1, <3>3, <4>1
    <3> QED BY <3>2, <3>3
  <2>4. CASE l = k /\ f = p.field
    <3> DEFINE old == TextBefore(s, p)
    <3>1. old \in Text /\ part.text[f] = Appended(old, p.n)
      BY <1>1, <2>1, <2>4, WrittenPart
    <3>2. ~old.cut /\ part.text[f].len = old.len + p.n
      BY <1>1, <1>2, <2>4, <3>1, ExactAppend
    <3>3. Slot(p) = <<k, f>>
      BY <2>4 DEF Slot
    <3>4. CASE p.whole
      <4>1. old.len = 0
        BY <3>4 DEF TextBefore, NoText
      <4> QED BY <1>2, <1>4, <2>4, <3>2, <3>3, <3>4, <4>1
    <3>5. CASE ~p.whole /\ f \in DOMAIN s.text /\ k \in DOMAIN states
      <4>1. old = states[k].text[f]
        BY <1>5, <2>4, <3>5 DEF TextBefore
      <4>2. old.len = StreamedTo(<<k, f>>)
        BY <1>5, <2>1, <3>2, <3>5, <4>1 DEF WholeInv, TextIsExact
      <4> QED BY <1>2, <1>4, <2>4, <3>2, <3>3, <3>5, <4>2
    <3>6. CASE ~p.whole /\ (f \notin DOMAIN s.text \/ k \notin DOMAIN states)
      <4>1. old.len = 0
        BY <1>5, <1>6, <2>4, <3>6 DEF TextBefore, NoText
      <4>2. StreamedTo(<<k, f>>) = 0
        BY <1>3, <1>5, <2>1, <3>6, NothingBefore
      <4> QED BY <1>2, <1>4, <2>4, <3>2, <3>3, <3>6, <4>1, <4>2
    <3> QED BY <3>4, <3>5, <3>6
  <2> QED BY <2>2, <2>3, <2>4
<1>9. ToolsInv'
  <2>1. ToolField(k, p.field)
    BY DEF WholeInv, ToolsInv
  <2>2. \A i \in DOMAIN todo' : ToolField(todo'[i].key, todo'[i].field)
    BY <1>1 DEF WholeInv, ToolsInv, KeptInv, SizesInv
  <2>3. \A t \in DOMAIN streamed' : ToolField(t[1], t[2])
    BY <1>4, <2>1 DEF WholeInv, ToolsInv, Slot
  <2>4. \A l \in DOMAIN states' : l \in Key /\ OneTool(l)
    BY <1>1, <1>2, <2>1 DEF WholeInv, ToolsInv, ToolField
  <2>5. ASSUME NEW l \in DOMAIN states', NEW c \in CommandsOf(states'[l])
        PROVE  <<l, c>> \in DOMAIN streamed'
    <3>1. CASE l # k
      BY <1>2, <1>4, <2>5, <3>1 DEF WholeInv, ToolsInv
    <3>2. CASE l = k
      <4>1. DOMAIN part.text \subseteq DOMAIN s.text \cup {p.field}
        BY WriteAddsField
      <4>2. c \in Commands /\ c \in DOMAIN part.text
        BY <1>2, <2>5, <3>2 DEF CommandsOf
      <4>3. CASE c = p.field
        BY <1>4, <3>2, <4>3 DEF Slot
      <4>4. CASE c # p.field
        <5>1. c \in DOMAIN s.text /\ k \in DOMAIN states
          BY <1>5, <1>6, <4>1, <4>2, <4>4, ConstantsAssumption
        <5>2. c \in CommandsOf(states[k])
          BY <1>5, <4>2, <5>1 DEF CommandsOf
        <5> QED BY <1>4, <3>2, <5>1, <5>2 DEF WholeInv, ToolsInv
      <4> QED BY <4>3, <4>4
    <3> QED BY <3>1, <3>2
  <2> QED BY <2>2, <2>3, <2>4, <2>5 DEF ToolsInv
<1> QED BY <1>7, <1>8, <1>9 DEF WholeInv

\* A step that changes no text and reports nothing.
LEMMA QuietWhole ==
    ASSUME WholeInv, DOMAIN states' = DOMAIN states,
           \A k \in DOMAIN states : states'[k].text = states[k].text,
           UNCHANGED <<reports, streamed>>, limited => limited',
           \A i \in DOMAIN todo' : ToolField(todo'[i].key, todo'[i].field)
    PROVE  WholeInv'
<1>1. TextIsExact' /\ ToolsInv'
  BY DEF WholeInv, TextIsExact, ToolsInv, StreamedTo, CommandsOf
<1>2. ReportsAreWhole'
  <2>1. /\ \A g, f : Total(g, f)' = Total(g, f)
        /\ \A g : CommandTotal(g)' = CommandTotal(g) /\ HasCommands(g)' = HasCommands(g)
    BY DEF Total, Speakers, CommandTotal, HasCommands, SumOf
  <2> QED BY <2>1 DEF WholeInv, ReportsAreWhole
<1> QED BY <1>1, <1>2 DEF WholeInv

\* The parts P are those of output g that have something in them, none of them cut.
PartsOf(P, g) ==
    /\ P \subseteq DOMAIN states /\ P # {} /\ g \notin finishedGroups
    /\ \A k \in P : Group(k) = g
    /\ \A k \in DOMAIN states : Group(k) = g /\ HasData(states[k]) => k \in P

\* What was streamed to an output that is open, and is some bytes, is in one of its parts.
LEMMA StreamedToParts ==
    ASSUME KeptInv, ~limited, NEW P, NEW g, PartsOf(P, g), NEW k, NEW f,
           <<k, f>> \in DOMAIN streamed, Group(k) = g, streamed[<<k, f>>] > 0
    PROVE  k \in P /\ f \in DOMAIN states[k].text /\ states[k].text[f].len > 0
<1>1. k \in DOMAIN states /\ f \in DOMAIN states[k].text /\ states[k].text[f].len > 0
  BY DEF KeptInv, TextIsKept, PartsOf
<1>2. HasData(states[k])
  BY <1>1 DEF HasData
<1> QED BY <1>1, <1>2 DEF PartsOf

\* Every part has a main text and a refusal.
LEMMA PartTexts ==
    ASSUME KeptInv, NEW k \in DOMAIN states
    PROVE  /\ {"main", "refusal"} \subseteq DOMAIN states[k].text
           /\ \A f \in DOMAIN states[k].text :
                 states[k].text[f].len \in 0..Limit /\ f \in {"main", "refusal"} \cup Commands
<1>1. states[k].text \in Texts
  BY DEF KeptInv, SizesInv, Part
<1>2. PICK C \in SUBSET Commands : states[k].text \in [{"main", "refusal"} \cup C -> Text]
  BY <1>1 DEF Texts
<1> QED BY <1>2 DEF Text

\* A field of the parts of an output adds up to what was streamed to it.
LEMMA FieldIsWhole ==
    ASSUME KeptInv, WholeInv, ~limited, NEW P, NEW g, PartsOf(P, g),
           NEW f \in {"main", "refusal"}, \A k \in P : ~states[k].text[f].cut
    PROVE  SumOf([k \in P |-> states[k].text[f].len]) = Total(g, f)
<1> DEFINE kept == [k \in P |-> states[k].text[f].len]
           sent == [k \in Speakers(g, f) |-> streamed[<<k, f>>]]
<1>1. ASSUME NEW k \in P
      PROVE  kept[k] \in Nat /\ kept[k] = StreamedTo(<<k, f>>) /\ Group(k) = g
  <2>1. k \in DOMAIN states /\ Group(k) = g
    BY DEF PartsOf
  <2>2. f \in DOMAIN states[k].text /\ states[k].text[f].len \in 0..Limit
    BY <2>1, PartTexts
  <2> QED BY <2>1, <2>2, ConstantsAssumption DEF WholeInv, TextIsExact
<1>2. ASSUME NEW k \in Speakers(g, f)
      PROVE  sent[k] \in Nat /\ sent[k] = StreamedTo(<<k, f>>) /\ <<k, f>> \in DOMAIN streamed /\ Group(k) = g
  <2>1. PICK s \in DOMAIN streamed : Group(s[1]) = g /\ s[2] = f /\ s[1] = k
    BY DEF Speakers
  <2>2. s = <<s[1], s[2]>> /\ streamed[s] \in Nat
    BY DEF KeptInv, SizesInv
  <2> QED BY <2>1, <2>2 DEF StreamedTo
<1>3. ASSUME NEW k \in P, kept[k] > 0
      PROVE  k \in Speakers(g, f) /\ sent[k] = kept[k]
  <2>1. StreamedTo(<<k, f>>) > 0
    BY <1>1, <1>3
  <2>2. <<k, f>> \in DOMAIN streamed
    BY <2>1 DEF StreamedTo
  <2>3. k \in Speakers(g, f)
    BY <1>1, <2>2 DEF Speakers
  <2> QED BY <1>1, <1>2, <2>3
<1>4. ASSUME NEW k \in Speakers(g, f), sent[k] > 0
      PROVE  k \in P /\ kept[k] = sent[k]
  <2>1. k \in P
    BY <1>2, <1>4, StreamedToParts
  <2> QED BY <1>1, <1>2, <2>1
<1>5. DOMAIN kept = P /\ DOMAIN sent = Speakers(g, f)
  OBVIOUS
<1> HIDE DEF kept, sent
<1>6. SumOf(kept) = SumOf(sent)
  BY <1>1, <1>2, <1>3, <1>4, <1>5, SameSum
<1> QED BY <1>6 DEF Total, kept, sent

\* A tool call with commands is the only part of its output.
LEMMA OnePart ==
    ASSUME KeptInv, WholeInv, NEW k \in DOMAIN states, NEW l, k.kind = "tool",
           Group(l) = Group(k), l \in Key, OneTool(l)
    PROVE  l = k
<1>1. k \in Key /\ OneTool(k)
  BY DEF WholeInv, ToolsInv
<1>2. /\ l.source = k.source /\ l.kind = k.kind /\ l.choice = k.choice
      /\ l.output = k.output /\ l.tool = k.tool
  BY DEF Group
<1>3. l.content = k.content
  BY <1>1, <1>2 DEF OneTool
<1> QED BY <1>1, <1>2, <1>3 DEF Key

\* Of an output with one part a command says what was streamed to it.
LEMMA TotalOfOne ==
    ASSUME KeptInv, WholeInv, NEW k \in DOMAIN states, k.kind = "tool", NEW c
    PROVE  Total(Group(k), c) = StreamedTo(<<k, c>>)
<1> DEFINE S == Speakers(Group(k), c)
           sent == [l \in S |-> streamed[<<l, c>>]]
<1>1. ASSUME NEW l \in S PROVE l = k /\ <<k, c>> \in DOMAIN streamed
  <2>1. PICK s \in DOMAIN streamed : Group(s[1]) = Group(k) /\ s[2] = c /\ s[1] = l
    BY DEF Speakers
  <2>2. s = <<s[1], s[2]>> /\ s[1] \in Key
    BY DEF KeptInv, SizesInv
  <2>3. OneTool(s[1])
    BY DEF WholeInv, ToolsInv, ToolField
  <2>4. s[1] = k
    BY <2>1, <2>2, <2>3, OnePart
  <2> QED BY <2>1, <2>2, <2>4
<1>2. Total(Group(k), c) = SumOf(sent) /\ DOMAIN sent = S
  BY DEF Total
<1>3. CASE <<k, c>> \in DOMAIN streamed
  <2>1. k \in S
    BY <1>3 DEF Speakers
  <2>2. S = {k}
    BY <1>1, <2>1
  <2>3. sent[k] = streamed[<<k, c>>] /\ streamed[<<k, c>>] \in Nat
    BY <1>3, <2>1 DEF KeptInv, SizesInv
  <2>4. DOMAIN sent = {k} /\ sent[k] \in Nat
    BY <1>2, <2>2, <2>3
  <2> HIDE DEF sent
  <2>5. SumOf(sent) = sent[k]
    BY <2>4, SumOfOne
  <2> QED BY <1>2, <1>3, <2>3, <2>5 DEF StreamedTo
<1>4. CASE <<k, c>> \notin DOMAIN streamed
  <2>1. DOMAIN sent = {}
    BY <1>1, <1>2, <1>4
  <2> HIDE DEF sent
  <2>2. SumOf(sent) = 0
    BY <2>1, SumOfNone
  <2> QED BY <1>2, <1>4, <2>2 DEF StreamedTo
<1> QED BY <1>3, <1>4

\* The commands of a tool call add up to what was streamed to it.
LEMMA CommandsAreWhole ==
    ASSUME KeptInv, WholeInv, ~limited, NEW k \in DOMAIN states, Group(k) \notin finishedGroups,
           CommandsOf(states[k]) # {},
           \A c \in CommandsOf(states[k]) : ~states[k].text[c].cut
    PROVE  /\ k.kind = "tool" /\ HasCommands(Group(k))
           /\ SumOf([c \in CommandsOf(states[k]) |-> states[k].text[c].len]) \in Nat
           /\ SumOf([c \in CommandsOf(states[k]) |-> states[k].text[c].len])
                 = SumOf([c \in Commands |-> Total(Group(k), c)])
<1> DEFINE C == CommandsOf(states[k])
           kept == [c \in C |-> states[k].text[c].len]
           sent == [c \in Commands |-> Total(Group(k), c)]
<1>1. C \subseteq Commands /\ \A c \in C : c \in DOMAIN states[k].text
  BY DEF CommandsOf
<1>2. PICK c \in C : TRUE
  OBVIOUS
<1>3. <<k, c>> \in DOMAIN streamed /\ c \in Commands
  BY <1>1, <1>2 DEF WholeInv, ToolsInv
<1>4. k.kind = "tool"
  BY <1>3 DEF WholeInv, ToolsInv, ToolField
<1>5. HasCommands(Group(k))
  BY <1>3 DEF HasCommands
<1>6. IsFiniteSet(C)
  BY <1>1, FS_Subset, ConstantsAssumption
<1>7. \A d \in C : states[k].text[d].len \in 0..Limit
  BY <1>1, PartTexts
<1>8. SumOf(kept) \in Nat
  <2>1. DOMAIN kept = C /\ \A d \in C : kept[d] \in 0..Limit
    BY <1>7
  <2> HIDE DEF kept
  <2> QED BY <1>6, <2>1, SumOfSizes
<1>9. ASSUME NEW d \in Commands
      PROVE  sent[d] = StreamedTo(<<k, d>>) /\ sent[d] \in Nat
  BY <1>4, TotalOfOne, StreamedToType
<1>10. ASSUME NEW d \in C
       PROVE  kept[d] \in Nat /\ kept[d] = sent[d]
  <2>1. kept[d] = StreamedTo(<<k, d>>)
    BY <1>1 DEF WholeInv, TextIsExact
  <2>2. d \in Commands
    BY <1>1
  <2> QED BY <1>9, <2>1, <2>2
<1>11. ASSUME NEW d \in Commands, sent[d] > 0
       PROVE  d \in C
  <2>1. StreamedTo(<<k, d>>) # 0
    BY <1>9, <1>11
  <2>2. d \in DOMAIN states[k].text
    BY <2>1, NothingBefore
  <2> QED BY <2>2 DEF CommandsOf
<1>12. DOMAIN kept = C /\ DOMAIN sent = Commands
  OBVIOUS
<1> HIDE DEF kept, sent
<1>13. SumOf(kept) = SumOf(sent)
  <2>1. \A d \in DOMAIN kept : kept[d] \in Nat
    BY <1>10, <1>12
  <2>2. \A d \in DOMAIN sent : sent[d] \in Nat
    BY <1>9, <1>12
  <2>3. \A d \in DOMAIN kept : kept[d] > 0 => d \in DOMAIN sent /\ sent[d] = kept[d]
    BY <1>1, <1>10, <1>12
  <2>4. \A d \in DOMAIN sent : sent[d] > 0 => d \in DOMAIN kept /\ kept[d] = sent[d]
    BY <1>10, <1>11, <1>12
  <2> QED BY <2>1, <2>2, <2>3, <2>4, SameSum
<1> QED BY <1>4, <1>5, <1>8, <1>13 DEF kept, sent, C

\* The parts of an output that nothing was cut from add up to what the output was sent.
LEMMA PartsAreWhole ==
    ASSUME IInv, KeptInv, WholeInv, ~limited, NEW P, NEW g, PartsOf(P, g), ~Truncated(P)
    PROVE  /\ Kept(Refusals(P)) = Total(g, "refusal")
           /\ \/ Kept(Mains(P)) = Total(g, "main")
              \/ HasCommands(g) /\ Kept(Mains(P)) = CommandTotal(g)
<1>1. /\ Kept(Refusals(P)) = Refusals(P) /\ Kept(Mains(P)) = Mains(P)
      /\ \A k \in P : ~Cut(states[k]) /\ Kept(MainSize(states[k])) = MainSize(states[k])
  BY DEF Truncated, Kept
<1>2. \A k \in P : ~states[k].text["main"].cut /\ ~states[k].text["refusal"].cut
  BY <1>1 DEF Cut
<1>3. Refusals(P) = Total(g, "refusal")
  BY <1>2, FieldIsWhole DEF Refusals
<1>4. CASE \A k \in P : ~Assembled(states[k])
  <2>1. \A k \in P : Kept(MainSize(states[k])) = states[k].text["main"].len
    BY <1>1, <1>4 DEF MainSize
  <2>2. [k \in P |-> Kept(MainSize(states[k]))] = [k \in P |-> states[k].text["main"].len]
    BY <2>1
  <2>3. SumOf([k \in P |-> states[k].text["main"].len]) = Total(g, "main")
    BY <1>2, FieldIsWhole
  <2> QED BY <1>1, <1>3, <2>2, <2>3 DEF Mains
<1>5. CASE \E k \in P : Assembled(states[k])
  <2>1. PICK k \in P : Assembled(states[k])
    BY <1>5
  <2>2. /\ k \in DOMAIN states /\ Group(k) = g /\ Group(k) \notin finishedGroups
        /\ CommandsOf(states[k]) # {}
        /\ \A c \in CommandsOf(states[k]) : ~states[k].text[c].cut
    BY <1>1, <2>1 DEF PartsOf, Assembled, Cut
  <2> DEFINE sum == SumOf([c \in CommandsOf(states[k]) |-> states[k].text[c].len])
             sizes == [l \in P |-> Kept(MainSize(states[l]))]
  <2>3. /\ k.kind = "tool" /\ HasCommands(g) /\ sum \in Nat
        /\ sum = SumOf([c \in Commands |-> Total(g, c)])
    BY <2>2, CommandsAreWhole
  <2>4. MainSize(states[k]) = Quoting + sum
    BY <2>1 DEF MainSize
  <2>5. P = {k}
    <3> SUFFICES ASSUME NEW l \in P PROVE l = k
      OBVIOUS
    <3>1. l \in DOMAIN states /\ Group(l) = Group(k)
      BY <2>2 DEF PartsOf
    <3>2. l \in Key /\ OneTool(l)
      BY <3>1 DEF WholeInv, ToolsInv
    <3> QED BY <2>2, <2>3, <3>1, <3>2, OnePart
  <2>6. CommandTotal(g) = Quoting + sum
    BY <2>3 DEF CommandTotal
  <2> HIDE DEF sum
  <2>7. Quoting + sum \in Nat
    BY <2>3, ConstantsAssumption
  <2>8. DOMAIN sizes = {k} /\ sizes[k] = Quoting + sum
    BY <1>1, <2>4, <2>5
  <2>9. Mains(P) = SumOf(sizes)
    BY DEF Mains
  <2> HIDE DEF sizes
  <2>10. Mains(P) = Quoting + sum
    BY <2>7, <2>8, <2>9, SumOfOne
  <2> QED BY <1>1, <1>3, <2>3, <2>6, <2>10
<1> QED BY <1>4, <1>5

\* The reports a step adds are those on outputs it finds whole.
LEMMA NewBatch ==
    ASSUME IInv, NEW K, NEW verdict, NEW limit, NEW cutShort,
           FinishKeys(K, verdict, limit, cutShort),
           NEW i \in DOMAIN reports', NEW o \in reports'[i],
           ~(i \in DOMAIN reports /\ o \in reports[i])
    PROVE  \E g \in {Group(k) : k \in {l \in K : HasData(states[l])}} :
               o = Report({k \in {l \in K : HasData(states[l])} : Group(k) = g},
                          verdict, limit, cutShort)
<1> DEFINE ready == {l \in K : HasData(states[l])}
           gs == {Group(k) : k \in ready}
           R(g) == Report({k \in ready : Group(k) = g}, verdict, limit, cutShort)
<1>1. reports' = IF ready = {} THEN reports ELSE Append(reports, {R(g) : g \in gs})
  BY DEF FinishKeys
<1>2. PICK S : reports \in Seq(S)
  BY DEF IInv, ReportsInv
<1> HIDE DEF R, gs
<1>3. i \notin DOMAIN reports
  BY <1>1, <1>2
<1>4. reports'[i] = {R(g) : g \in gs}
  BY <1>1, <1>2, <1>3
<1>5. PICK g \in gs : o = R(g)
  BY <1>4
<1> QED BY <1>5 DEF R, gs

\* Finishing parts of whole outputs reports all of what each was sent.
LEMMA FinishWhole ==
    ASSUME IInv, KeptInv, WholeInv, NEW k, NEW K \in {All, ChoiceKeys(k), OutputKeys(k)},
           NEW verdict, NEW limit, NEW cutShort,
           FinishKeys(K, verdict, limit, cutShort), limited => limit,
           limited => limited', UNCHANGED streamed,
           \A i \in DOMAIN todo' : ToolField(todo'[i].key, todo'[i].field)
    PROVE  WholeInv'
<1>1. K \subseteq DOMAIN states
  BY DEF All, ChoiceKeys, OutputKeys
<1>2. \A l \in DOMAIN states' : l \in DOMAIN states /\ states'[l] = states[l]
  BY <1>1 DEF FinishKeys
<1>3. TextIsExact'
  BY <1>2 DEF WholeInv, TextIsExact, StreamedTo
<1>4. ToolsInv'
  BY <1>2 DEF WholeInv, ToolsInv
<1>5. ReportsAreWhole'
  <2>1. /\ \A g, f : Total(g, f)' = Total(g, f)
        /\ \A g : CommandTotal(g)' = CommandTotal(g) /\ HasCommands(g)' = HasCommands(g)
    BY DEF Total, Speakers, CommandTotal, HasCommands, SumOf
  <2> SUFFICES ASSUME NEW i \in DOMAIN reports', NEW o \in reports'[i], ~o.truncated, ~o.limited
               PROVE  /\ o.refusal = Total(o.group, "refusal")
                      /\ \/ o.main = Total(o.group, "main")
                         \/ HasCommands(o.group) /\ o.main = CommandTotal(o.group)
    BY <2>1 DEF ReportsAreWhole
  <2>2. CASE i \in DOMAIN reports /\ o \in reports[i]
    BY <2>2 DEF WholeInv, ReportsAreWhole
  <2>3. CASE ~(i \in DOMAIN reports /\ o \in reports[i])
    <3> DEFINE ready == {l \in K : HasData(states[l])}
               P(g) == {l \in ready : Group(l) = g}
    <3>1. PICK g \in {Group(l) : l \in ready} : o = Report(P(g), verdict, limit, cutShort)
      BY <2>3, NewBatch
    <3>2. o.group = g
      <4> HIDE DEF ready
      <4> QED BY <3>1, ReportOfGroup
    <3>3. PartsOf(P(g), g)
      <4>1. PICK l \in ready : Group(l) = g
        BY <3>1
      <4>2. g \notin finishedGroups
        BY <1>1, <4>1 DEF IInv, PartsAreOpen
      <4>3. \A m \in DOMAIN states : Group(m) = g /\ HasData(states[m]) => m \in P(g)
        BY <4>1, WholeOutputs
      <4> QED BY <1>1, <4>1, <4>2, <4>3 DEF PartsOf
    <3>4. /\ ~limit /\ ~Truncated(P(g))
          /\ o.main = Kept(Mains(P(g))) /\ o.refusal = Kept(Refusals(P(g)))
      <4> HIDE DEF P
      <4> QED BY <3>1 DEF Report
    <3> QED BY <3>2, <3>3, <3>4, PartsAreWhole
  <2> QED BY <2>2, <2>3
<1> QED BY <1>3, <1>4, <1>5 DEF WholeInv

LEMMA PieceWhole ==
    ASSUME IInv, KeptInv, WholeInv, ObservePiece
    PROVE  WholeInv'
<1> DEFINE p == Head(todo)
<1>0. /\ p \in Piece /\ todo # <<>> /\ todo' = Tail(todo)
      /\ \A i \in DOMAIN todo' : ToolField(todo'[i].key, todo'[i].field)
  <2>1. todo # <<>> /\ todo' = Tail(todo)
    BY DEF ObservePiece, WriteLate, RefusePart, WritePart, WriteNewCommand, Writing, ReportLifecycle,
           MarkOutput, MarkKeys, FinishOutputItem, EndOfChoice, Does
  <2>2. p \in Piece
    BY <2>1, PieceInHand
  <2> QED BY <2>1, <2>2 DEF WholeInv, ToolsInv, KeptInv, SizesInv
<1>1. Opened(p.key) \in Part
  BY BlankPart DEF Opened, KeptInv, SizesInv
<1>2. CASE WriteLate(p)
  <2>1. Heard(p.key)
    BY <1>2, OverIsHeard DEF WriteLate
  <2>2. UNCHANGED <<states, reports, limited, streamed>>
    BY <1>2, <2>1 DEF WriteLate, Writing, Sent, ends
  <2> QED BY <1>0, <2>2, QuietWhole
<1>3. CASE RefusePart(p)
  <2>1. /\ UNCHANGED <<states, reports, finishedGroups>> /\ streamed' = Sent(p) /\ limited'
        /\ ~Over(p.key)
    BY <1>3 DEF RefusePart, Writing, ends
  <2>2. ReportsAreWhole'
    BY <2>1, ReportsStayWhole DEF WholeInv
  <2>3. TextIsExact'
    BY <2>1 DEF TextIsExact
  <2>4. ToolField(p.key, p.field)
    BY <1>0 DEF WholeInv, ToolsInv, KeptInv, SizesInv
  <2>5. DOMAIN streamed \subseteq DOMAIN streamed' /\ DOMAIN streamed' \subseteq DOMAIN streamed \cup {Slot(p)}
    BY <2>1 DEF Sent, Put
  <2>6. ToolsInv'
    BY <1>0, <2>1, <2>4, <2>5 DEF WholeInv, ToolsInv, Slot
  <2> QED BY <2>2, <2>3, <2>6 DEF WholeInv
<1>4. CASE WritePart(p)
  <2>1. /\ ~Over(p.key) /\ Writing(p) /\ UNCHANGED limited
        /\ states' = Put(states, p.key, Written(Opened(p.key), p))
    BY <1>4 DEF WritePart
  <2> QED BY <1>0, <1>1, <2>1, WriteWhole
<1>5. CASE WriteNewCommand(p)
  <2> DEFINE room == createdParts + (IF p.key \in DOMAIN states THEN 0 ELSE 1) < MaxParts
  <2>1. /\ ~Over(p.key) /\ Writing(p)
        /\ states' = Put(states, p.key, IF room THEN Written(Opened(p.key), p)
                                                ELSE Labelled(Opened(p.key), p))
        /\ limited' = (limited \/ ~room)
    BY <1>5 DEF WriteNewCommand
  <2> HIDE DEF room
  <2>2. CASE room
    BY <1>0, <1>1, <2>1, <2>2, WriteWhole
  <2>3. CASE ~room
    BY <1>0, <1>1, <2>1, <2>3, WriteWhole
  <2> QED BY <2>2, <2>3
<1>6. CASE ReportLifecycle(p) \/ MarkOutput(p)
  <2>1. PICK K : states' = [k \in DOMAIN states |->
                               IF k \in K THEN WithStatus(states[k], p.status) ELSE states[k]]
    BY <1>6 DEF ReportLifecycle, MarkOutput, MarkKeys
  <2>2. \A s, status : WithStatus(s, status).text = s.text
    BY DEF WithStatus
  <2>3. UNCHANGED <<reports, limited, streamed>>
    BY <1>6 DEF ReportLifecycle, MarkOutput, MarkKeys, ends
  <2> QED BY <1>0, <2>1, <2>2, <2>3, QuietWhole
<1>7. CASE FinishOutputItem(p)
  <2>1. /\ FinishKeys(OutputKeys(p.key), VerdictOf(p.status), limited, terminalIncomplete)
        /\ UNCHANGED <<limited, streamed>>
    BY <1>7 DEF FinishOutputItem
  <2> QED BY <1>0, <2>1, FinishWhole
<1>8. CASE EndOfChoice(p)
  <2> DEFINE c == <<p.key.source, p.key.choice>>
  <2>1. UNCHANGED streamed
    BY <1>8 DEF EndOfChoice
  <2>2. CASE c \in finishedChoices \/ Cardinality(finishedChoices) >= MaxGroups
    <3>1. UNCHANGED <<states, reports>> /\ (limited => limited')
      BY <1>8, <2>2 DEF EndOfChoice, ends
    <3> QED BY <1>0, <2>1, <3>1, QuietWhole
  <2>3. CASE ~(c \in finishedChoices \/ Cardinality(finishedChoices) >= MaxGroups)
    <3>1. /\ FinishKeys(ChoiceKeys(p.key), VerdictOf("completed"), limited, terminalIncomplete)
          /\ UNCHANGED limited
      BY <1>8, <2>3 DEF EndOfChoice
    <3> QED BY <1>0, <2>1, <3>1, FinishWhole
  <2> QED BY <2>2, <2>3
<1> QED BY <1>0, <1>2, <1>3, <1>4, <1>5, <1>6, <1>7, <1>8 DEF ObservePiece

LEMMA CloseWhole ==
    ASSUME IInv, KeptInv, WholeInv, NEW ending, NEW mark, Close(ending, mark)
    PROVE  WholeInv'
<1>1. /\ FinishKeys(All, VerdictOf(ending), limited', terminalIncomplete')
      /\ streamed' = streamed /\ todo' = todo /\ (limited => limited')
  BY DEF Close
<1> DEFINE K == All
           limit == limited'
           cut == terminalIncomplete'
<1>2. FinishKeys(K, VerdictOf(ending), limit, cut) /\ (limited => limit)
  BY <1>1
<1>3. K \in {All, ChoiceKeys(0), OutputKeys(0)}
  OBVIOUS
<1>4. \A i \in DOMAIN todo' : ToolField(todo'[i].key, todo'[i].field)
  BY <1>1 DEF WholeInv, ToolsInv
<1> HIDE DEF K, limit, cut
<1> QED BY <1>1, <1>2, <1>3, <1>4, FinishWhole

LEMMA NextWhole ==
    ASSUME IInv, KeptInv, WholeInv, [Next]_vars
    PROVE  WholeInv'
<1>0. \A i \in DOMAIN todo : ToolField(todo[i].key, todo[i].field)
  BY DEF WholeInv, ToolsInv
<1>1. ASSUME NEW e \in Events, Receive(e) PROVE WholeInv'
  <2>1. todo' = e.pieces /\ UNCHANGED <<states, reports, streamed, limited>>
    BY <1>1 DEF Receive, ends, history
  <2>2. \A i \in DOMAIN e.pieces : ToolField(e.pieces[i].key, e.pieces[i].field)
    BY ToolsAssumption DEF ToolField, OneTool
  <2> QED BY <2>1, <2>2, QuietWhole
<1>2. CASE ObservePiece
  BY <1>2, PieceWhole
<1>3. CASE ConcludeOpen \/ ObserveInvalid \/ MarkLimited \/ UNCHANGED vars
  <2>1. UNCHANGED <<states, reports, streamed, todo>> /\ (limited => limited')
    BY <1>3 DEF ConcludeOpen, ObserveInvalid, MarkLimited, vars, ends, history
  <2> QED BY <1>0, <2>1, QuietWhole
<1>4. CASE ConcludeTerminal \/ ObserveDone \/ Finish
  BY <1>4, CloseWhole DEF ConcludeTerminal, ObserveDone, Finish
<1>5. ASSUME NEW ending \in Ending, ObserveMisshapen(ending) PROVE WholeInv'
  <2>1. CASE ending = "open"
    <3>1. UNCHANGED <<states, reports, streamed, todo>> /\ (limited => limited')
      BY <1>5, <2>1 DEF ObserveMisshapen, ends, history
    <3> QED BY <1>0, <3>1, QuietWhole
  <2>2. CASE ending # "open"
    BY <1>5, <2>2, CloseWhole DEF ObserveMisshapen
  <2> QED BY <2>1, <2>2
<1> QED BY <1>1, <1>2, <1>3, <1>4, <1>5 DEF Next

\* Sizes are exact until they are reported, for every set of events and all limits.
THEOREM WholeInvariance == Spec => []WholeInv
<1>1. IInv /\ KeptInv /\ WholeInv /\ [Next]_vars => WholeInv'
  BY NextWhole
<1> QED BY InitWhole, Invariance, KeptInvariance, <1>1, PTL DEF Spec

\* What is reported without a mark is all of what the output was sent, part by part and
\* command by command, and what is not reported at all is marked.
THEOREM TextIsWholeOrMarked == Spec => []WholeOrMarked
<1>1. WholeInv /\ NothingLost => WholeOrMarked
  BY DEF WholeInv, WholeOrMarked
<1> QED BY WholeInvariance, NoTextIsLost, <1>1, PTL

-----------------------------------------------------------------------------
(* Endings: how the stream ends decides what is reported at its end. *)

\* What is still to come of an event after a part of an output was completed.
Follows(pieces, ending, output) == IsEnded(pieces, ending, output) /\ IsAnnounced(pieces, output)

\* The pieces have to do with each other what the assumptions say.
Orderly(pieces, ending) ==
    \A i \in DOMAIN pieces :
        /\ ending = "failed" => pieces[i].op # "finishChoice"
        /\ Completes(pieces[i]) =>
              /\ pieces[i].key.source = "responses"
              /\ Follows(SubSeq(pieces, i + 1, Len(pieces)), ending, pieces[i].key.output)

\* A part that is complete will be reported by the event in hand, if it has not failed:
\* between two events there is none.
NoneIsLeft ==
    \A k \in DOMAIN states :
        states[k].completed =>
            /\ k.source = "responses"
            /\ \/ states[k].failed \/ states[k].incomplete
               \/ ~Idle /\ Follows(todo, end, k.output)

EndingInv == Orderly(todo, end) /\ NoneIsLeft

LEMMA InitEnding == Init => EndingInv
BY DEF Init, EndingInv, Orderly, NoneIsLeft

LEMMA EventsAreOrderly == \A e \in Events : Orderly(e.pieces, e.end)
BY ShapesAssumption, ItemsAssumption DEF Orderly, Follows

LEMMA ThreeInOrder ==
    ASSUME NEW x, NEW y, NEW z
    PROVE  /\ <<x>> \o <<y>> \o <<z>> = <<x, y, z>>
           /\ SubSeq(<<x, y, z>>, 2, 3) = <<y, z>> /\ SubSeq(<<x, y, z>>, 3, 3) = <<z>>
<1> DEFINE S == {x, y, z}
           s == <<x, y, z>>
           joined == <<x>> \o <<y>> \o <<z>>
<1>1. /\ s \in Seq(S) /\ Len(s) = 3 /\ s[1] = x /\ s[2] = y /\ s[3] = z
      /\ <<y, z>> \in Seq(S) /\ <<z>> \in Seq(S)
  OBVIOUS
<1>2. joined \in Seq(S) /\ Len(joined) = 3 /\ \A i \in 1..3 : joined[i] = s[i]
  OBVIOUS
<1>3. joined = s
  <2> HIDE DEF s, joined, S
  <2> QED BY <1>1, <1>2, SeqEqual
<1>4. \A m \in {2, 3} :
         /\ SubSeq(s, m, 3) \in Seq(S) /\ Len(SubSeq(s, m, 3)) = 4 - m
         /\ \A i \in 1..(4 - m) : SubSeq(s, m, 3)[i] = s[m + i - 1]
  <2> HIDE DEF s, S
  <2> QED BY <1>1, SubSeqProperties
<1>5. SubSeq(s, 2, 3) = <<y, z>>
  <2>1. /\ SubSeq(s, 2, 3) \in Seq(S) /\ Len(SubSeq(s, 2, 3)) = 2
        /\ SubSeq(s, 2, 3)[1] = s[2] /\ SubSeq(s, 2, 3)[2] = s[3]
    <3> HIDE DEF s, S
    <3> QED BY <1>4
  <2>2. \A i \in 1..2 : SubSeq(s, 2, 3)[i] = <<y, z>>[i]
    <3> HIDE DEF s, S
    <3> QED BY <1>1, <2>1
  <2>3. Len(<<y, z>>) = 2
    OBVIOUS
  <2> HIDE DEF s, S
  <2> QED BY <1>1, <2>1, <2>2, <2>3, SeqEqual
<1>6. SubSeq(s, 3, 3) = <<z>>
  <2>1. /\ SubSeq(s, 3, 3) \in Seq(S) /\ Len(SubSeq(s, 3, 3)) = 1
        /\ SubSeq(s, 3, 3)[1] = s[3]
    <3> HIDE DEF s, S
    <3> QED BY <1>4
  <2>2. \A i \in 1..1 : SubSeq(s, 3, 3)[i] = <<z>>[i]
    <3> HIDE DEF s, S
    <3> QED BY <1>1, <2>1
  <2>3. Len(<<z>>) = 1
    OBVIOUS
  <2> HIDE DEF s, S
  <2> QED BY <1>1, <2>1, <2>2, <2>3, SeqEqual
<1> QED BY <1>3, <1>5, <1>6

\* The assumptions on events say of a tool that is done what follows from how its pieces
\* are made (observeResponseItem, then genai.go:1315).
LEMMA ItemsDoneAreOrderly ==
    ASSUME NEW output \in Int, NEW n \in Nat, NEW status \in Status
    PROVE  Orderly(ItemDone(output, ToolItem(output, n, TRUE, status), status), "open")
<1> DEFINE s == ItemDone(output, ToolItem(output, n, TRUE, status), status)
           x == ToolItem(output, n, TRUE, status)[1]
           y == Mark(output, status)[1]
           z == FinishOutput(output, status)[1]
<1>1. s = <<x, y, z>>
  <2>1. /\ ToolItem(output, n, TRUE, status) = <<x>>
        /\ Mark(output, status) = <<y>> /\ FinishOutput(output, status) = <<z>>
    BY DEF ToolItem, Mark, FinishOutput
  <2> HIDE DEF x, y, z
  <2>2. s = <<x>> \o <<y>> \o <<z>>
    BY <2>1 DEF ItemDone
  <2> QED BY <2>2, ThreeInOrder
<1>2. /\ x.op = "write" /\ x.status = status /\ x.key = ToolKey(output)
      /\ y.op = "mark" /\ y.status = status /\ y.key = ToolKey(output)
      /\ z.op = "finishOutput" /\ z.status = status /\ z.key = ToolKey(output)
  BY DEF ToolItem, Mark, FinishOutput, Write, Plain
<1>3. ToolKey(output).source = "responses" /\ ToolKey(output).output = output
  BY DEF ToolKey, TextKey
<1>4. PICK k : k = ToolKey(output)
  OBVIOUS
<1> HIDE DEF x, y, z
<1>5. SubSeq(<<x, y, z>>, 2, 3) = <<y, z>> /\ SubSeq(<<x, y, z>>, 3, 3) = <<z>>
  BY ThreeInOrder
<1>6. ASSUME status = "completed", NEW t \in {<<y, z>>, <<z>>} PROVE Follows(t, "open", output)
  <2>1. \E i \in DOMAIN t : t[i] = z
    BY <1>6
  <2>2. EndsOutput(z, output)
    BY <1>2, <1>3, <1>4 DEF EndsOutput
  <2>3. \A i \in DOMAIN t : t[i].status = "completed"
    BY <1>2, <1>6
  <2>4. VerdictOf("completed").complete
    BY DEF VerdictOf
  <2> QED BY <2>1, <2>2, <2>3, <2>4 DEF Follows, IsEnded, IsAnnounced
<1>7. \A i \in DOMAIN <<x, y, z>> :
         /\ "open" = "failed" => <<x, y, z>>[i].op # "finishChoice"
         /\ Completes(<<x, y, z>>[i]) =>
               /\ <<x, y, z>>[i].key.source = "responses"
               /\ Follows(SubSeq(<<x, y, z>>, i + 1, 3), "open", <<x, y, z>>[i].key.output)
  <2> SUFFICES ASSUME NEW i \in {1, 2, 3}, Completes(<<x, y, z>>[i])
               PROVE  /\ <<x, y, z>>[i].key.source = "responses"
                      /\ Follows(SubSeq(<<x, y, z>>, i + 1, 3), "open",
                                 <<x, y, z>>[i].key.output)
    OBVIOUS
  <2>1. CASE i = 1
    <3>1. <<x, y, z>>[i] = x /\ SubSeq(<<x, y, z>>, i + 1, 3) = <<y, z>>
      BY <1>5, <2>1
    <3>2. status = "completed"
      BY <1>2, <3>1 DEF Completes
    <3> QED BY <1>2, <1>3, <1>6, <3>1, <3>2
  <2>2. CASE i = 2
    <3>1. <<x, y, z>>[i] = y /\ SubSeq(<<x, y, z>>, i + 1, 3) = <<z>>
      BY <1>5, <2>2
    <3>2. status = "completed"
      BY <1>2, <3>1 DEF Completes
    <3> QED BY <1>2, <1>3, <1>6, <3>1, <3>2
  <2>3. CASE i = 3
    <3>1. <<x, y, z>>[i] = z
      BY <2>3
    <3> QED BY <1>2, <3>1 DEF Completes
  <2> QED BY <2>1, <2>2, <2>3
<1> HIDE DEF s
<1>8. Len(s) = 3
  BY <1>1
<1> QED BY <1>1, <1>7, <1>8 DEF Orderly, s

LEMMA TailFacts ==
    ASSUME NEW s \in Seq(Piece), s # <<>>
    PROVE  /\ Head(s) = s[1] /\ 1 \in DOMAIN s /\ DOMAIN Tail(s) = 1..(Len(s) - 1)
           /\ Len(s) \in Nat /\ Len(Tail(s)) = Len(s) - 1
           /\ \A i \in DOMAIN Tail(s) : i + 1 \in DOMAIN s /\ Tail(s)[i] = s[i + 1]
           /\ Tail(s) = SubSeq(s, 2, Len(s))
           /\ Tail(s) \in Seq(Piece)
OBVIOUS

\* What is orderly stays so, piece by piece.
LEMMA TailOrderly ==
    ASSUME NEW s \in Seq(Piece), s # <<>>, NEW ending, Orderly(s, ending)
    PROVE  /\ Orderly(Tail(s), ending)
           /\ ending = "failed" => Head(s).op # "finishChoice"
           /\ Completes(Head(s)) => /\ Head(s).key.source = "responses"
                                    /\ Follows(Tail(s), ending, Head(s).key.output)
<1>1. /\ Head(s) = s[1] /\ 1 \in DOMAIN s /\ Len(s) \in Nat /\ Len(Tail(s)) = Len(s) - 1
      /\ \A i \in DOMAIN Tail(s) : i + 1 \in DOMAIN s /\ Tail(s)[i] = s[i + 1]
      /\ Tail(s) = SubSeq(s, 2, Len(s)) /\ DOMAIN Tail(s) = 1..(Len(s) - 1)
  BY TailFacts
<1>2. SubSeq(s, 1 + 1, Len(s)) = Tail(s)
  BY <1>1
<1>3. ASSUME NEW i \in DOMAIN Tail(s)
      PROVE  SubSeq(Tail(s), i + 1, Len(Tail(s))) = SubSeq(s, (i + 1) + 1, Len(s))
  BY <1>1, <1>3
<1>4. Orderly(Tail(s), ending)
  <2> SUFFICES ASSUME NEW i \in DOMAIN Tail(s)
               PROVE  /\ ending = "failed" => Tail(s)[i].op # "finishChoice"
                      /\ Completes(Tail(s)[i]) =>
                            /\ Tail(s)[i].key.source = "responses"
                            /\ Follows(SubSeq(Tail(s), i + 1, Len(Tail(s))), ending,
                                       Tail(s)[i].key.output)
    BY DEF Orderly
  <2> DEFINE j == i + 1
  <2>1. j \in DOMAIN s /\ Tail(s)[i] = s[j]
    BY <1>1
  <2>2. SubSeq(Tail(s), i + 1, Len(Tail(s))) = SubSeq(s, j + 1, Len(s))
    BY <1>3
  <2> HIDE DEF j
  <2> QED BY <2>1, <2>2 DEF Orderly
<1>5. /\ ending = "failed" => s[1].op # "finishChoice"
      /\ Completes(s[1]) => /\ s[1].key.source = "responses"
                            /\ Follows(SubSeq(s, 1 + 1, Len(s)), ending, s[1].key.output)
  BY <1>1 DEF Orderly
<1> QED BY <1>1, <1>2, <1>4, <1>5

\* What is to come is still to come after a piece that is not it.
LEMMA TailFollows ==
    ASSUME NEW s \in Seq(Piece), s # <<>>, NEW ending, NEW output, Follows(s, ending, output),
           ~MarksBad(Head(s), output), ~EndsOutput(Head(s), output)
    PROVE  Follows(Tail(s), ending, output)
<1>1. /\ Head(s) = s[1] /\ Len(s) \in Nat /\ DOMAIN Tail(s) = 1..(Len(s) - 1)
      /\ \A i \in DOMAIN Tail(s) : i + 1 \in DOMAIN s /\ Tail(s)[i] = s[i + 1]
      /\ DOMAIN s = 1..Len(s)
  BY TailFacts
<1>2. IsEnded(Tail(s), ending, output)
  <2> SUFFICES ASSUME ending = "open"
               PROVE  \E i \in DOMAIN Tail(s) : EndsOutput(Tail(s)[i], output)
    BY DEF IsEnded
  <2>1. PICK j \in DOMAIN s : EndsOutput(s[j], output)
    BY DEF Follows, IsEnded
  <2>2. j # 1
    BY <1>1, <2>1
  <2>3. j - 1 \in DOMAIN Tail(s) /\ (j - 1) + 1 = j
    BY <1>1, <2>2
  <2>4. Tail(s)[j - 1] = s[j]
    BY <1>1, <2>3
  <2> QED BY <2>1, <2>3, <2>4
<1>3. IsAnnounced(Tail(s), output)
  <2> SUFFICES ASSUME NEW i \in DOMAIN Tail(s), EndsOutput(Tail(s)[i], output),
                      ~VerdictOf(Tail(s)[i].status).complete
               PROVE  \E j \in 1..(i - 1) : MarksBad(Tail(s)[j], output)
    BY DEF IsAnnounced
  <2>1. i + 1 \in DOMAIN s /\ Tail(s)[i] = s[i + 1]
    BY <1>1
  <2>2. PICK j \in 1..((i + 1) - 1) : MarksBad(s[j], output)
    BY <2>1 DEF Follows, IsAnnounced
  <2>3. j # 1
    BY <1>1, <2>2
  <2>4. j - 1 \in DOMAIN Tail(s) /\ j - 1 \in 1..(i - 1) /\ (j - 1) + 1 = j
    BY <1>1, <2>2, <2>3
  <2>5. Tail(s)[j - 1] = s[j]
    BY <1>1, <2>4
  <2> QED BY <2>2, <2>4, <2>5
<1> QED BY <1>2, <1>3 DEF Follows

\* What is written to a part completes it only if the piece does, and forgets nothing.
LEMMA WriteEnding ==
    ASSUME KeptInv, EndingInv, todo # <<>>, NEW p, p = Head(todo), p.op = "write", ~Idle,
           todo' = Tail(todo), end' = end,
           NEW s \in Part, s = Opened(p.key), NEW part \in {Written(s, p), Labelled(s, p)},
           states' = Put(states, p.key, part)
    PROVE  NoneIsLeft'
<1>1. p \in Piece /\ todo \in Seq(Piece)
  BY PieceInHand DEF KeptInv, SizesInv
<1>2. /\ DOMAIN states' = DOMAIN states \cup {p.key} /\ states'[p.key] = part
      /\ \A l \in DOMAIN states \ {p.key} : states'[l] = states[l]
  BY DEF Put
<1>3. /\ s.failed => part.failed
      /\ s.incomplete => part.incomplete
      /\ part.completed => s.completed \/ p.status = "completed"
  <2>1. CASE part = Written(s, p)
    BY <1>1, <2>1, WrittenPart
  <2>2. CASE part = Labelled(s, p)
    BY <1>1, <2>2, LabelNoted
  <2> QED BY <2>1, <2>2
<1>4. s.completed => p.key \in DOMAIN states /\ states[p.key] = s
  <2>1. CASE p.key \in DOMAIN states
    BY <2>1 DEF Opened
  <2>2. CASE p.key \notin DOMAIN states
    <3>1. s = Blank
      BY <2>2 DEF Opened
    <3> QED BY <3>1, BlankPart
  <2> QED BY <2>1, <2>2
<1>5. ~Idle'
  BY DEF Idle
<1>6. ASSUME NEW o, Follows(todo, end, o) PROVE Follows(Tail(todo), end, o)
  <2>1. ~MarksBad(p, o) /\ ~EndsOutput(p, o)
    BY DEF MarksBad, EndsOutput
  <2> QED BY <1>1, <1>6, <2>1, TailFollows
<1>7. Completes(p) => p.key.source = "responses" /\ Follows(Tail(todo), end, p.key.output)
  BY <1>1, TailOrderly DEF EndingInv
<1> SUFFICES ASSUME NEW k \in DOMAIN states', states'[k].completed
             PROVE  /\ k.source = "responses"
                    /\ \/ states'[k].failed \/ states'[k].incomplete
                       \/ Follows(Tail(todo), end, k.output)
  BY <1>5 DEF NoneIsLeft
<1>8. CASE k = p.key
  <2>1. CASE p.status = "completed"
    BY <1>7, <1>8, <2>1 DEF Completes
  <2>2. CASE s.completed
    BY <1>2, <1>3, <1>4, <1>6, <1>8, <2>2 DEF EndingInv, NoneIsLeft
  <2> QED BY <1>2, <1>3, <1>8, <2>1, <2>2
<1>9. CASE k # p.key
  BY <1>2, <1>6, <1>9 DEF EndingInv, NoneIsLeft
<1> QED BY <1>8, <1>9

\* A status marks the parts it is about, and those the response completes are of one output.
LEMMA MarkEnding ==
    ASSUME KeptInv, EndingInv, ~Idle, todo # <<>>, NEW p, p = Head(todo),
           NEW op, NEW K, MarkKeys(p, op, K),
           \/ op = "lifecycle" /\ K = {p.key}
           \/ op = "mark" /\ K = OutputKeys(p.key)
    PROVE  NoneIsLeft'
<1>1. p \in Piece /\ todo \in Seq(Piece) /\ \A k \in DOMAIN states : states[k] \in Part
  BY PieceInHand DEF KeptInv, SizesInv
<1>2. /\ DOMAIN states' = DOMAIN states
      /\ \A k \in DOMAIN states : states'[k] = IF k \in K THEN WithStatus(states[k], p.status)
                                                          ELSE states[k]
      /\ todo' = Tail(todo) /\ end' = end /\ p.op = op
  BY DEF MarkKeys, Does, flags
<1>3. \A k \in DOMAIN states :
         /\ states[k].failed \/ (k \in K /\ p.status = "failed") <=> states'[k].failed
         /\ states[k].incomplete \/ (k \in K /\ p.status = "incomplete") <=> states'[k].incomplete
         /\ states[k].completed \/ (k \in K /\ p.status = "completed") <=> states'[k].completed
  BY <1>1, <1>2, StatusNoted
<1>4. ~Idle'
  BY <1>2 DEF Idle
<1>5. Completes(p) => p.key.source = "responses" /\ Follows(Tail(todo), end, p.key.output)
  BY <1>1, TailOrderly DEF EndingInv
<1> SUFFICES ASSUME NEW k \in DOMAIN states, states'[k].completed
             PROVE  /\ k.source = "responses"
                    /\ \/ states'[k].failed \/ states'[k].incomplete
                       \/ Follows(Tail(todo), end, k.output)
  BY <1>2, <1>4 DEF NoneIsLeft
<1>6. CASE k \in K /\ p.status = "completed"
  <2>1. Completes(p)
    BY <1>2, <1>6 DEF Completes
  <2>2. k.source = "responses" /\ k.output = p.key.output
    BY <1>5, <1>6, <2>1 DEF OutputKeys
  <2> QED BY <1>5, <2>1, <2>2
<1>7. CASE states[k].completed
  <2>1. /\ k.source = "responses"
        /\ states[k].failed \/ states[k].incomplete \/ Follows(todo, end, k.output)
    BY <1>7 DEF EndingInv, NoneIsLeft
  <2>2. CASE states[k].failed \/ states[k].incomplete
    BY <1>3, <2>1, <2>2
  <2>3. CASE MarksBad(p, k.output)
    <3>1. k \in K
      BY <1>2, <2>1, <2>3 DEF MarksBad, OutputKeys
    <3> QED BY <1>3, <2>1, <2>3, <3>1 DEF MarksBad, Bad
  <2>4. CASE Follows(todo, end, k.output) /\ ~MarksBad(p, k.output)
    <3>1. ~EndsOutput(p, k.output)
      BY <1>2 DEF EndsOutput
    <3> QED BY <1>1, <2>1, <2>4, <3>1, TailFollows
  <2> QED BY <2>1, <2>2, <2>3, <2>4
<1> QED BY <1>3, <1>6, <1>7

\* What is finished is left no more, and the rest is of another output.
LEMMA FinishEnding ==
    ASSUME KeptInv, EndingInv, ~Idle, todo # <<>>, NEW p, p = Head(todo),
           todo' = Tail(todo), end' = end,
           NEW K, NEW verdict, NEW limit, NEW cutShort, FinishKeys(K, verdict, limit, cutShort),
           K \subseteq DOMAIN states,
           \/ p.op = "finishOutput" /\ K = OutputKeys(p.key)
           \/ p.op = "finishChoice"
    PROVE  NoneIsLeft'
<1>1. todo \in Seq(Piece)
  BY DEF KeptInv, SizesInv
<1>2. ~Idle'
  BY DEF Idle
<1> SUFFICES ASSUME NEW k \in DOMAIN states', states'[k].completed
             PROVE  /\ k.source = "responses"
                    /\ \/ states'[k].failed \/ states'[k].incomplete
                       \/ Follows(Tail(todo), end, k.output)
  BY <1>2 DEF NoneIsLeft
<1>3. k \in DOMAIN states \ K /\ states'[k] = states[k]
  BY DEF FinishKeys
<1>4. k.source = "responses"
  BY <1>3 DEF EndingInv, NoneIsLeft
<1>5. CASE Follows(todo, end, k.output)
  <2>1. ~MarksBad(p, k.output)
    BY DEF MarksBad
  <2>2. ~EndsOutput(p, k.output)
    BY <1>3, <1>4 DEF EndsOutput, OutputKeys
  <2> QED BY <1>1, <1>4, <1>5, <2>1, <2>2, TailFollows
<1> QED BY <1>3, <1>4, <1>5 DEF EndingInv, NoneIsLeft

LEMMA PieceEnding ==
    ASSUME KeptInv, EndingInv, ObservePiece
    PROVE  EndingInv'
<1>0. PICK p : p = Head(todo)
  OBVIOUS
<1>1. ~Idle /\ todo # <<>> /\ todo \in Seq(Piece)
  BY DEF ObservePiece, KeptInv, ClosedIsEmpty, SizesInv
<1>2. todo' = Tail(todo) /\ end' = end
  BY <1>0 DEF ObservePiece, WriteLate, RefusePart, WritePart, WriteNewCommand, Writing, ReportLifecycle,
         MarkOutput, MarkKeys, FinishOutputItem, EndOfChoice, Does
<1>3. Orderly(todo', end')
  BY <1>0, <1>1, <1>2, TailOrderly DEF EndingInv
<1> SUFFICES NoneIsLeft'
  BY <1>3 DEF EndingInv
<1>4. ASSUME UNCHANGED states, ~\E o : MarksBad(p, o) \/ EndsOutput(p, o)
      PROVE  NoneIsLeft'
  <2>1. \A o : Follows(todo, end, o) => Follows(Tail(todo), end, o)
    BY <1>0, <1>1, <1>4, TailFollows
  <2>2. ~Idle'
    BY <1>0, <1>1, <1>2 DEF Idle
  <2> QED BY <1>0, <1>1, <1>2, <1>4, <2>1, <2>2 DEF EndingInv, NoneIsLeft
<1>5. CASE WriteLate(p) \/ RefusePart(p)
  <2>1. p.op = "write" /\ UNCHANGED states
    BY <1>0, <1>5 DEF WriteLate, RefusePart, Writing, Does
  <2> QED BY <1>4, <2>1 DEF MarksBad, EndsOutput
<1>6. CASE WritePart(p) \/ WriteNewCommand(p)
  <2>1. p.op = "write"
    BY <1>0, <1>6 DEF WritePart, WriteNewCommand, Writing, Does
  <2>2. PICK part \in {Written(Opened(p.key), p), Labelled(Opened(p.key), p)} :
               states' = Put(states, p.key, part)
    BY <1>6 DEF WritePart, WriteNewCommand
  <2>3. Opened(p.key) \in Part
    BY BlankPart DEF Opened, KeptInv, SizesInv
  <2> QED BY <1>0, <1>1, <1>2, <2>1, <2>2, <2>3, WriteEnding
<1>7. CASE ReportLifecycle(p)
  BY <1>0, <1>1, <1>7, MarkEnding DEF ReportLifecycle
<1>8. CASE MarkOutput(p)
  BY <1>0, <1>1, <1>8, MarkEnding DEF MarkOutput
<1>9. CASE FinishOutputItem(p)
  <2>1. /\ p.op = "finishOutput"
        /\ FinishKeys(OutputKeys(p.key), VerdictOf(p.status), limited, terminalIncomplete)
    BY <1>0, <1>9 DEF FinishOutputItem, Does
  <2>2. OutputKeys(p.key) \subseteq DOMAIN states
    BY DEF OutputKeys
  <2> QED BY <1>0, <1>1, <1>2, <2>1, <2>2, FinishEnding
<1>10. CASE EndOfChoice(p)
  <2>1. p.op = "finishChoice"
    BY <1>0, <1>10 DEF EndOfChoice, Does
  <2>2. CASE UNCHANGED states
    BY <1>4, <2>1, <2>2 DEF MarksBad, EndsOutput
  <2>3. CASE FinishKeys(ChoiceKeys(p.key), VerdictOf("completed"), limited, terminalIncomplete)
    <3>1. ChoiceKeys(p.key) \subseteq DOMAIN states
      BY DEF ChoiceKeys
    <3> QED BY <1>0, <1>1, <1>2, <2>1, <2>3, <3>1, FinishEnding
  <2> QED BY <1>10, <2>2, <2>3 DEF EndOfChoice
<1> QED BY <1>0, <1>5, <1>6, <1>7, <1>8, <1>9, <1>10 DEF ObservePiece

LEMMA NextEnding ==
    ASSUME KeptInv, EndingInv, [Next]_vars
    PROVE  EndingInv'
<1>0. Idle => todo = <<>>
  BY DEF KeptInv, ClosedIsEmpty
<1>1. ASSUME NEW e \in Events, Receive(e) PROVE EndingInv'
  <2>1. /\ Idle /\ UNCHANGED states /\ todo' = e.pieces /\ end' = e.end
    BY <1>1 DEF Receive
  <2>2. Orderly(todo', end')
    BY <2>1, EventsAreOrderly
  <2>3. NoneIsLeft'
    BY <2>1 DEF EndingInv, NoneIsLeft
  <2> QED BY <2>2, <2>3 DEF EndingInv
<1>2. CASE ObservePiece
  BY <1>2, PieceEnding
<1>3. CASE ConcludeOpen
  <2>1. /\ ~Idle /\ todo = <<>> /\ end = "open" /\ UNCHANGED <<states, todo>>
    BY <1>3 DEF ConcludeOpen, Idle
  <2>2. \A o : ~Follows(todo, end, o)
    BY <2>1 DEF Follows, IsEnded
  <2> QED BY <2>1, <2>2 DEF EndingInv, Orderly, NoneIsLeft
<1>4. CASE ObserveInvalid \/ MarkLimited \/ UNCHANGED vars
  <2>1. UNCHANGED <<states, todo, end>>
    BY <1>4 DEF ObserveInvalid, MarkLimited, vars
  <2> QED BY <2>1 DEF EndingInv, NoneIsLeft, Idle
<1>5. ASSUME NEW ending, NEW mark, Close(ending, mark), todo = <<>>
      PROVE  EndingInv'
  <2>1. FinishKeys(All, VerdictOf(ending), limited', terminalIncomplete') /\ todo' = <<>>
    BY <1>5 DEF Close
  <2>2. DOMAIN states' = {}
    BY <2>1 DEF FinishKeys, All
  <2> QED BY <2>1, <2>2 DEF EndingInv, Orderly, NoneIsLeft
<1>6. CASE ConcludeTerminal
  BY <1>5, <1>6 DEF ConcludeTerminal
<1>7. CASE ObserveDone \/ Finish
  BY <1>0, <1>5, <1>7 DEF ObserveDone, Finish
<1>8. ASSUME NEW ending \in Ending, ObserveMisshapen(ending) PROVE EndingInv'
  <2>1. CASE ending = "open"
    <3>1. UNCHANGED <<states, todo, end>>
      BY <1>8, <2>1 DEF ObserveMisshapen
    <3> QED BY <3>1 DEF EndingInv, NoneIsLeft, Idle
  <2>2. CASE ending # "open"
    BY <1>0, <1>5, <1>8, <2>2 DEF ObserveMisshapen
  <2> QED BY <2>1, <2>2
<1> QED BY <1>1, <1>2, <1>3, <1>4, <1>6, <1>7, <1>8 DEF Next

\* Whatever is complete before its output ends has failed or is about to be reported.
THEOREM EndingInvariance == Spec => []EndingInv
<1>1. KeptInv /\ EndingInv /\ [Next]_vars => EndingInv'
  BY NextEnding
<1> QED BY InitEnding, KeptInvariance, <1>1, PTL DEF Spec

\* A part that is neither complete nor known to be lost ends as the verdict says.
LEMMA EndsAsToldBy ==
    ASSUME NEW s, NEW status
    PROVE  /\ ~s.completed /\ status = "failed" => Ended(s, VerdictOf(status)).failed
           /\ ~VerdictOf(status).complete /\ Ended(s, VerdictOf(status)).complete =>
                 s.completed /\ ~s.failed /\ ~s.incomplete
BY DEF Ended, VerdictOf

\* What a report says of the end of its output, whatever ended it.
LEMMA ReportsAreHonest ==
    ASSUME IInv, NEW K, NEW status, NEW limit, NEW cutShort,
           FinishKeys(K, VerdictOf(status), limit, cutShort),
           NEW i \in DOMAIN reports' \ DOMAIN reports, NEW o \in reports'[i]
    PROVE  \E k \in K :
              /\ o.group = Group(k)
              /\ ~states[k].completed /\ status = "failed" => o.failed
              /\ o.complete => \/ VerdictOf(status).complete
                               \/ /\ states[k].completed
                                  /\ ~states[k].failed /\ ~states[k].incomplete
              /\ o.complete /\ decodeFailed /\ VerdictOf(status).complete => o.limited
              /\ limit => o.limited
<1> DEFINE ready == {l \in K : HasData(states[l])}
           v == VerdictOf(status)
           P(g) == {k \in ready : Group(k) = g}
<1>1. PICK g \in {Group(k) : k \in ready} : o = Report(P(g), v, limit, cutShort)
  <2>1. ~(i \in DOMAIN reports /\ o \in reports[i])
    OBVIOUS
  <2> HIDE DEF v
  <2> QED BY <2>1, NewBatch DEF v
<1>2. o.group = g
  <2> HIDE DEF ready, v
  <2> QED BY <1>1, ReportOfGroup
<1>3. PICK k \in ready : Group(k) = g
  BY <1>1
<1>4. k \in P(g) /\ k \in K
  BY <1>3
<1> HIDE DEF P
<1>5. /\ o.failed <=> \E l \in P(g) : Ended(states[l], v).failed
      /\ o.complete <=> \A l \in P(g) : Ended(states[l], v).complete
      /\ o.limited <=> (limit \/ (decodeFailed /\ v.complete))
  BY <1>1 DEF Report
<1> QED BY <1>2, <1>3, <1>4, <1>5, EndsAsToldBy

\* How the stream ends decides what is complete, for all limits and every set of events: an
\* error in the event in hand completes no output of a chat or native stream, a stream that
\* just stops completes nothing, and what follows an event that could not be understood is
\* not complete without a mark.
THEOREM EndingsDecide == Spec => EndingsAreHonest
<1>1. ASSUME IInv, KeptInv, EndingInv, [Next]_vars
      PROVE  [\A i \in DOMAIN reports' \ DOMAIN reports : \A o \in reports'[i] :
                 /\ end = "failed" /\ o.group.source # "responses" => o.failed
                 /\ closed' /\ ~terminalObserved' => ~o.complete
                 /\ decodeFailed /\ o.complete => o.limited]_vars
  <2> SUFFICES ASSUME NEW i \in DOMAIN reports' \ DOMAIN reports, NEW o \in reports'[i], Next
               PROVE  /\ end = "failed" /\ o.group.source # "responses" => o.failed
                      /\ closed' /\ ~terminalObserved' => ~o.complete
                      /\ decodeFailed /\ o.complete => o.limited
    BY <1>1 DEF vars, ends
  <2>0. /\ (closed => Idle) /\ (Idle => todo = <<>>) /\ (Idle => end = "idle")
        /\ todo \in Seq(Piece)
    BY <1>1 DEF KeptInv, ClosedIsEmpty, SizesInv, Idle
  <2>1. \A k \in DOMAIN states : states[k].completed =>
           /\ k.source = "responses"
           /\ \/ states[k].failed \/ states[k].incomplete
              \/ ~Idle /\ Follows(todo, end, k.output)
    BY <1>1 DEF EndingInv, NoneIsLeft
  <2>2. reports' # reports
    OBVIOUS
  <2>3. ASSUME NEW ending, NEW mark, Close(ending, mark),
               end = "failed" => ending = "failed",
               \/ terminalObserved' /\ (decodeFailed => mark)
               \/ Idle /\ ~VerdictOf(ending).complete
        PROVE  /\ end = "failed" /\ o.group.source # "responses" => o.failed
               /\ closed' /\ ~terminalObserved' => ~o.complete
               /\ decodeFailed /\ o.complete => o.limited
    <3>1. FinishKeys(All, VerdictOf(ending), limited', terminalIncomplete')
          /\ limited' = (limited \/ mark)
      BY <2>3 DEF Close
    <3>2. PICK k \in All :
             /\ o.group = Group(k)
             /\ ~states[k].completed /\ ending = "failed" => o.failed
             /\ o.complete => \/ VerdictOf(ending).complete
                              \/ /\ states[k].completed
                                 /\ ~states[k].failed /\ ~states[k].incomplete
             /\ limited' => o.limited
      <4> DEFINE K == All
                 limit == limited'
                 cut == terminalIncomplete'
      <4>1. FinishKeys(K, VerdictOf(ending), limit, cut)
        BY <3>1
      <4> HIDE DEF K, limit, cut
      <4>2. PICK k \in K :
               /\ o.group = Group(k)
               /\ ~states[k].completed /\ ending = "failed" => o.failed
               /\ o.complete => \/ VerdictOf(ending).complete
                                \/ /\ states[k].completed
                                   /\ ~states[k].failed /\ ~states[k].incomplete
               /\ limit => o.limited
        BY <1>1, <4>1, ReportsAreHonest
      <4> QED BY <4>2 DEF K, limit
    <3>3. k \in DOMAIN states /\ o.group.source = k.source
      BY <3>2 DEF All, Group
    <3> QED BY <2>1, <2>3, <3>1, <3>2, <3>3
  <2>4. ASSUME NEW p, p = Head(todo), FinishOutputItem(p), todo # <<>>
        PROVE  /\ end = "failed" /\ o.group.source # "responses" => o.failed
               /\ closed' /\ ~terminalObserved' => ~o.complete
               /\ decodeFailed /\ o.complete => o.limited
    <3>1. /\ FinishKeys(OutputKeys(p.key), VerdictOf(p.status), limited, terminalIncomplete)
          /\ closed' = closed /\ p.op = "finishOutput"
      BY <2>4 DEF FinishOutputItem, Does, flags
    <3>2. PICK k \in OutputKeys(p.key) :
             /\ o.group = Group(k)
             /\ o.complete => \/ VerdictOf(p.status).complete
                              \/ /\ states[k].completed
                                 /\ ~states[k].failed /\ ~states[k].incomplete
             /\ o.complete /\ decodeFailed /\ VerdictOf(p.status).complete => o.limited
      BY <1>1, <3>1, ReportsAreHonest
    <3>3. /\ k \in DOMAIN states /\ k.source = "responses" /\ k.output = p.key.output
          /\ o.group.source = k.source
      BY <3>2 DEF OutputKeys, Group
    <3>4. ~closed
      BY <2>0, <2>4
    <3>5. o.complete => VerdictOf(p.status).complete
      <4> SUFFICES ASSUME states[k].completed, ~states[k].failed, ~states[k].incomplete
                   PROVE  VerdictOf(p.status).complete
        BY <3>2
      <4>1. Follows(todo, end, p.key.output)
        BY <2>1, <3>3
      <4>2. p = todo[1] /\ 1 \in DOMAIN todo
        BY <2>0, <2>4, TailFacts
      <4>3. EndsOutput(todo[1], p.key.output)
        BY <3>1, <4>2 DEF EndsOutput
      <4>4. 1..(1 - 1) = {}
        OBVIOUS
      <4> QED BY <4>1, <4>2, <4>3, <4>4 DEF Follows, IsAnnounced
    <3> QED BY <3>1, <3>2, <3>3, <3>4, <3>5
  <2>5. ASSUME NEW p, p = Head(todo), EndOfChoice(p), todo # <<>>
        PROVE  /\ end = "failed" /\ o.group.source # "responses" => o.failed
               /\ closed' /\ ~terminalObserved' => ~o.complete
               /\ decodeFailed /\ o.complete => o.limited
    <3>1. /\ FinishKeys(ChoiceKeys(p.key), VerdictOf("completed"), limited, terminalIncomplete)
          /\ closed' = closed /\ p.op = "finishChoice"
      BY <2>2, <2>5 DEF EndOfChoice, Does, flags, ends
    <3>2. o.complete /\ decodeFailed => o.limited
      <4>1. VerdictOf("completed").complete
        BY DEF VerdictOf
      <4> QED BY <1>1, <3>1, <4>1, ReportsAreHonest
    <3>3. ~closed /\ end # "failed"
      BY <1>1, <2>0, <2>5, <3>1, TailOrderly DEF EndingInv
    <3> QED BY <3>1, <3>2, <3>3
  <2>6. CASE ObservePiece
    <3>1. PICK p : p = Head(todo) /\ todo # <<>>
      BY <2>6 DEF ObservePiece
    <3>2. \/ WriteLate(p) \/ RefusePart(p) \/ WritePart(p) \/ WriteNewCommand(p)
          \/ ReportLifecycle(p) \/ MarkOutput(p) \/ FinishOutputItem(p) \/ EndOfChoice(p)
      BY <2>6, <3>1 DEF ObservePiece
    <3>3. ~(WriteLate(p) \/ RefusePart(p) \/ WritePart(p) \/ WriteNewCommand(p))
      BY <2>2 DEF WriteLate, RefusePart, WritePart, WriteNewCommand, Writing, ends
    <3>4. ~(ReportLifecycle(p) \/ MarkOutput(p))
      BY <2>2 DEF ReportLifecycle, MarkOutput, MarkKeys, ends
    <3> QED BY <2>4, <2>5, <3>1, <3>2, <3>3, <3>4
  <2>7. CASE ConcludeTerminal
    BY <2>3, <2>7 DEF ConcludeTerminal
  <2>8. CASE ObserveDone
    BY <2>0, <2>3, <2>8 DEF ObserveDone
  <2>9. ASSUME NEW ending \in Ending, ObserveMisshapen(ending)
        PROVE  /\ end = "failed" /\ o.group.source # "responses" => o.failed
               /\ closed' /\ ~terminalObserved' => ~o.complete
               /\ decodeFailed /\ o.complete => o.limited
    <3>1. ending # "open"
      BY <2>2, <2>9 DEF ObserveMisshapen, ends
    <3>2. Close(ending, TRUE) /\ terminalObserved' /\ end = "idle"
      BY <2>0, <2>9, <3>1 DEF ObserveMisshapen
    <3> QED BY <2>3, <3>2
  <2>10. CASE Finish
    <3>1. Close("in_progress", FALSE) /\ Idle
      BY <2>10 DEF Finish
    <3>2. ~VerdictOf("in_progress").complete
      BY DEF VerdictOf
    <3> QED BY <2>0, <2>3, <3>1, <3>2
  <2>11. ~(ConcludeOpen \/ ObserveInvalid \/ MarkLimited \/ \E e \in Events : Receive(e))
    BY <2>2 DEF ConcludeOpen, ObserveInvalid, MarkLimited, Receive, ends
  <2> QED BY <2>6, <2>7, <2>8, <2>9, <2>10, <2>11 DEF Next
<1> QED BY <1>1, Invariance, KeptInvariance, EndingInvariance, PTL DEF Spec, EndingsAreHonest
=============================================================================
