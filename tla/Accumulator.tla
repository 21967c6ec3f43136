---------------------------- MODULE Accumulator ----------------------------
(***************************************************************************)
(* StreamAccumulator (internal/genai/genai.go): it puts the outputs of a   *)
(* streamed response together from the events of three protocols (chat,    *)
(* native, Responses) and reports each output once, with what is known of  *)
(* its end.  Outputs consist of parts; the parts of an output are a group. *)
(*                                                                         *)
(* An event is a sequence of pieces, each a write to one part or a remark  *)
(* about an output, followed by what the event ends.  Observe handles it   *)
(* in one call: one action per piece, then Conclude.  A text is its length *)
(* in bytes, a character one byte; of names and identifiers only that they *)
(* are there is kept, of an error only that it is one.                     *)
(***************************************************************************)
EXTENDS Integers, Sequences, FiniteSets

CONSTANTS Limit,       \* bytes kept of a text
          MaxParts,    \* maxStreamOutputParts
          MaxGroups,   \* maxStreamOutputStates
          Commands,    \* the commands a shell call may have, named by their index
          Quoting,     \* bytes the JSON form of a list of commands adds to them
          Events,      \* the events that may arrive
          MaxEvents    \* bound on how many do

Absent == -1
Fields == {"main", "refusal"} \cup Commands
Status == {"none", "in_progress", "completed", "incomplete", "failed"}
Ending == {"open", "completed", "incomplete", "failed"}
Kind == {"reasoning", "response", "tool"}

Key == [source : {"chat", "responses", "native"}, kind : Kind,
        choice : Int, output : Int, content : Int, tool : Int]
Group(k) == [source |-> k.source, kind |-> k.kind, choice |-> k.choice,
             output |-> k.output, tool |-> k.tool]

\* What one piece of an event does: op at the part `key`.  A write adds n bytes to a
\* field or, if it is the whole text, replaces it; it may label the part (name, type,
\* identifier), give it a status, and say whether its arguments take precedence over
\* the commands.  A verdict is a status that finishes something.
Piece == [op : {"write", "lifecycle", "mark", "finishChoice", "finishOutput"}, key : Key,
          field : Fields, n : Nat, whole : BOOLEAN, labels : BOOLEAN, decides : BOOLEAN, status : Status]
Event == [pieces : Seq(Piece), end : Ending]

ASSUME ConstantsAssumption ==
    /\ Limit \in Nat \ {0} /\ MaxParts \in Nat /\ MaxGroups \in Nat
    /\ Quoting \in Nat /\ MaxEvents \in Nat
    /\ Commands \cap {"main", "refusal"} = {} /\ IsFiniteSet(Commands)

ASSUME EventsAssumption == Events \subseteq Event

\* A tool call is one part, and only tool calls have commands (responseToolKey).
ASSUME ToolsAssumption ==
    \A e \in Events : \A i \in DOMAIN e.pieces :
        LET p == e.pieces[i]
        IN /\ p.field \in Commands => p.key.kind = "tool"
           /\ p.key.kind = "tool" => p.key.content = Absent

VARIABLES states, finished, groups, finishedGroups, finishedChoices, createdParts,
          limited, decodeFailed, terminalIncomplete, terminalObserved, closed,
          todo,        \* the pieces of the event in hand that are still to do
          end,         \* what the event in hand ends, "idle" without an event
          reports,     \* the outputs returned, in batches
          received,    \* how many events have been observed
          streamed,    \* for the properties: bytes sent per part and field
          troubled     \* for the properties: the parts declared failed or incomplete,
                       \* without those dropped because there was nothing in them

limits == <<groups, createdParts>>
ends == <<finished, finishedGroups, reports>>
flags == <<decodeFailed, terminalIncomplete, terminalObserved, closed>>
history == <<streamed, troubled>>
vars == <<states, limits, ends, finishedChoices, limited, flags, todo, end, received, history>>

Init == /\ states = <<>> /\ streamed = <<>>
        /\ finished = {} /\ groups = {} /\ finishedGroups = {} /\ finishedChoices = {}
        /\ createdParts = 0
        /\ limited = FALSE /\ decodeFailed = FALSE
        /\ terminalIncomplete = FALSE /\ terminalObserved = FALSE /\ closed = FALSE
        /\ todo = <<>> /\ end = "idle" /\ received = 0
        /\ reports = <<>> /\ troubled = {}

-----------------------------------------------------------------------------
(* The parts of an output, as the protocols name them *)

ChatKey(kind, choice, tool) ==
    [source |-> "chat", kind |-> kind, choice |-> choice,
     output |-> Absent, content |-> Absent, tool |-> tool]
NativeKey(kind) == [ChatKey(kind, 0, Absent) EXCEPT !.source = "native"]
TextKey(kind, output, content) ==
    [source |-> "responses", kind |-> kind, choice |-> Absent,
     output |-> output, content |-> content, tool |-> Absent]
ToolKey(output) == TextKey("tool", output, Absent)
SummaryKey(output, summary) == TextKey("reasoning", output, -2 - summary)

(* The pieces of the events.  Operators whose comment starts with "Slip" are *)
(* not part of the model: each is a mistake this code could have made, kept  *)
(* to show that a property below would notice it.                            *)

Plain(op, key) ==
    [op |-> op, key |-> key, field |-> "main", n |-> 0, whole |-> FALSE,
     labels |-> FALSE, decides |-> FALSE, status |-> "none"]
Write(key, field, n) == [Plain("write", key) EXCEPT !.field = field, !.n = n]

\* Text of a chat or native delta, and appendResponseText, -Reasoning, -Summary.
Delta(key, field, n) == IF n = 0 THEN <<>> ELSE <<Write(key, field, n)>>

\* A tool call of a chat delta; one that says nothing still gets a part.
ChatTool(choice, tool, named, n) ==
    <<[Write(ChatKey("tool", choice, tool), "main", n) EXCEPT !.labels = named]>>

\* The events that end a text: response.output_text.done and the like.
Done(key, field, n) == <<[Write(key, field, n) EXCEPT !.whole = TRUE]>>

\* appendResponseTool, and the events that end the arguments of a tool.
ToolDelta(output, n) == <<[Write(ToolKey(output), "main", n) EXCEPT !.labels = TRUE]>>
ToolDone(output, n) ==
    <<[Write(ToolKey(output), "main", n) EXCEPT !.labels = TRUE, !.whole = TRUE]>>

\* observeResponseShellCommand
Command(output, command, n, authoritative) ==
    <<[Write(ToolKey(output), command, n) EXCEPT !.labels = TRUE, !.whole = authoritative]>>

\* observeResponsePart: the status of a part does not complete it.
Remark(status) == IF status = "completed" THEN "none" ELSE status
PartAdded(output, content, kind, field, n) == Delta(TextKey(kind, output, content), field, n)
PartDone(output, content, kind, field, n, status) ==
    <<[Write(TextKey(kind, output, content), field, n) EXCEPT
          !.whole = TRUE, !.status = Remark(status)]>>

\* observeResponseSummaryPart: an empty one gets a part and leaves its text alone.
SummaryPart(output, summary, n, authoritative, status) ==
    <<[Write(SummaryKey(output, summary), "main", n) EXCEPT
          !.whole = authoritative /\ n > 0,
          !.status = IF authoritative THEN Remark(status) ELSE "none"]>>

\* observeResponseItem, for a tool; a message or a reasoning is its parts.  A
\* program is completed without saying so.
ToolItem(output, n, authoritative, status) ==
    <<[Write(ToolKey(output), "main", n) EXCEPT
          !.labels = TRUE, !.whole = authoritative, !.decides = authoritative,
          !.status = IF authoritative THEN status ELSE "none"]>>

\* response.<tool>_call.completed, .failed and .incomplete
Lifecycle(output, status) ==
    <<[Plain("lifecycle", ToolKey(output)) EXCEPT !.status = Remark(status)]>>

\* markResponseOutputStatus, finishResponseOutput and finishChoice.
Mark(output, status) == <<[Plain("mark", ToolKey(output)) EXCEPT !.status = status]>>
FinishOutput(output, status) ==
    <<[Plain("finishOutput", ToolKey(output)) EXCEPT !.status = status]>>
FinishChoice(key) == <<Plain("finishChoice", key)>>

\* A finish reason in an event with that ending: an error is stronger.
FinishReason(key, ending) == IF ending = "failed" THEN <<>> ELSE FinishChoice(key)

\* response.output_item.done
ItemDone(output, pieces, status) ==
    pieces \o Mark(output, status) \o FinishOutput(output, status)

-----------------------------------------------------------------------------
(* Texts and parts *)

\* The function f with y for x, which need not have been in its domain.
Put(f, x, y) == [z \in DOMAIN f \cup {x} |-> IF z = x THEN y ELSE f[z]]

\* The sum of the values of f, numbers: how many there are if each is counted out.
SumOf(f) == Cardinality(UNION {{x} \X (1..f[x]) : x \in DOMAIN f})

NoText == [len |-> 0, cut |-> FALSE]
\* limitedStreamText.append
Appended(t, n) == IF t.len + n <= Limit THEN [t EXCEPT !.len = @ + n]
                  ELSE [len |-> Limit, cut |-> TRUE]

\* A part without anything in it, streamOutputState.
Blank == [text |-> [f \in {"main", "refusal"} |-> NoText], labelled |-> FALSE, authoritative |-> FALSE,
          completed |-> FALSE, incomplete |-> FALSE, failed |-> FALSE]

CommandsOf(s) == DOMAIN s.text \cap Commands

HasData(s) == \/ s.labelled
              \/ \E f \in DOMAIN s.text : s.text[f].len > 0 \/ f \in Commands

\* applyStreamStatus, applyStreamOutputStatus
WithStatus(s, status) == [s EXCEPT !.failed = @ \/ status = "failed",
                                   !.incomplete = @ \/ status = "incomplete",
                                   !.completed = @ \/ status = "completed"]

\* The part after a write of piece p: what is left if a command finds no room, and all of it.
Labelled(s, p) == [s EXCEPT !.labelled = @ \/ p.labels]
Written(s, p) ==
    LET old == IF p.whole \/ p.field \notin DOMAIN s.text THEN NoText ELSE s.text[p.field]
    IN WithStatus([Labelled(s, p) EXCEPT
                      !.text = Put(@, p.field, Appended(old, p.n)),
                      !.authoritative = IF p.decides THEN p.n > 0 ELSE @],
                  p.status)

-----------------------------------------------------------------------------
(* Reports: finishKey and the functions above it *)

\* Slip: an item that is done is done, whatever its parts said.
EndedByItem(s, verdict) == IF s.completed THEN [complete |-> TRUE, failed |-> FALSE]
                           ELSE IF s.failed THEN [complete |-> FALSE, failed |-> TRUE]
                           ELSE verdict
\* streamOutputState.finish: the verdict on a part may have been given before.
Ended(s, verdict) ==
    IF s.failed THEN [complete |-> FALSE, failed |-> TRUE]
    ELSE IF s.incomplete THEN [verdict EXCEPT !.complete = FALSE]
    ELSE IF s.completed THEN [complete |-> TRUE, failed |-> FALSE]
    ELSE verdict
\* assembledShellCommands: the commands of a shell call are its arguments.
Assembled(s) == CommandsOf(s) # {} /\ ~s.authoritative
MainSize(s) == IF Assembled(s)
               THEN Quoting + SumOf([c \in CommandsOf(s) |-> s.text[c].len])
               ELSE s.text["main"].len
Cut(s) == \/ s.text["main"].cut \/ s.text["refusal"].cut
          \/ Assembled(s) /\ \E c \in CommandsOf(s) : s.text[c].cut

\* What a text of n bytes leaves within the limit.
Kept(n) == IF n > Limit THEN Limit ELSE n

Mains(K) == SumOf([k \in K |-> Kept(MainSize(states[k]))])
Refusals(K) == SumOf([k \in K |-> states[k].text["refusal"].len])

\* Slip: only the parts are looked at, not what they add up to.
TruncatedParts(K) == \E k \in K : Cut(states[k])
Truncated(K) == \/ \E k \in K : Cut(states[k]) \/ MainSize(states[k]) > Limit
                \/ Mains(K) > Limit \/ Refusals(K) > Limit

\* mergeResponseOutputs: the report on the parts K of one output, which the call
\* found to have ended with `verdict`.  A chat output is one part.
Report(K, verdict, limit, cutShort) ==
    LET ended(k) == Ended(states[k], verdict)
        complete == \A k \in K : ended(k).complete
    IN [group      |-> Group(CHOOSE k \in K : TRUE),
        complete   |-> complete,
        failed     |-> \E k \in K : ended(k).failed,
        limited    |-> limit \/ (decodeFailed /\ verdict.complete),
        incomplete |-> \E k \in K : \/ states[k].incomplete
                                    \/ cutShort /\ ~ended(k).complete,
        truncated  |-> Truncated(K),
        main       |-> Kept(Mains(K)),
        refusal    |-> Kept(Refusals(K))]

\* Slip: whatever has not failed and was not cut short is complete.
VerdictUnlessBad(status) == [complete |-> status \notin {"failed", "incomplete"},
                             failed   |-> status = "failed"]
\* streamStatus: what the status of an item says of its end.
VerdictOf(status) == [complete |-> status \in {"none", "completed"},
                      failed   |-> status = "failed"]

\* finishMatching and finishResponseOutputKind: the parts K are done; those with
\* something in them are reported, once for each output.
FinishKeys(K, verdict, limit, cutShort) ==
    LET ready == {k \in K : HasData(states[k])}
        gs == {Group(k) : k \in ready}
    IN /\ states' = [k \in DOMAIN states \ K |-> states[k]]
       /\ finished' = finished \cup ready
       /\ finishedGroups' = finishedGroups \cup gs
       /\ troubled' = troubled \ (K \ ready)
       /\ reports' = IF ready = {} THEN reports
                     ELSE Append(reports, {Report({k \in ready : Group(k) = g}, verdict,
                                                  limit, cutShort) : g \in gs})

\* finishAll
All == DOMAIN states
ChoiceKeys(k) == {l \in DOMAIN states : l.source = k.source /\ l.choice = k.choice}
OutputKeys(k) == {l \in DOMAIN states : l.source = "responses" /\ l.output = k.output}

-----------------------------------------------------------------------------
(* StreamAccumulator.state: whether a part may be written to *)

ChoiceDone(k) == k.source = "chat" /\ <<k.source, k.choice>> \in finishedChoices
\* Slip: only the parts that were reported are closed, not their output.
OverForKeys(k) == ChoiceDone(k) \/ k \in finished
Over(k) == ChoiceDone(k) \/ k \in finished \/ Group(k) \in finishedGroups

\* Slip: parts are counted, outputs are not.
HasRoomForParts(k) == k \in DOMAIN states \/ createdParts < MaxParts
HasRoom(k) == \/ k \in DOMAIN states
              \/ /\ createdParts < MaxParts
                 /\ Group(k) \in groups \/ Cardinality(groups) < MaxGroups

Opened(k) == IF k \in DOMAIN states THEN states[k] ELSE Blank
Opens(k) == /\ groups' = groups \cup {Group(k)}
            /\ createdParts' = createdParts + (IF k \in DOMAIN states THEN 0 ELSE 1)

\* What the response said, whatever became of it; an output that has been
\* reported, or a choice that is finished, has said what it had to say.
Reported(g) == \E i \in DOMAIN reports : \E o \in reports[i] : o.group = g
Heard(k) == ChoiceDone(k) \/ Reported(Group(k))
Slot(p) == <<p.key, p.field>>
Sent(p) == LET old == IF p.whole \/ Slot(p) \notin DOMAIN streamed THEN 0 ELSE streamed[Slot(p)]
           IN IF Heard(p.key) THEN streamed ELSE Put(streamed, Slot(p), old + p.n)
Bad(status) == status \in {"failed", "incomplete"}

-----------------------------------------------------------------------------
(* What the pieces of one event have to do with each other *)

Completes(p) == p.op \in {"write", "lifecycle", "mark"} /\ p.status = "completed"
EndsOutput(p, output) == p.op = "finishOutput" /\ p.key.output = output
MarksBad(p, output) == p.op = "mark" /\ p.key.output = output /\ Bad(p.status)

\* What follows a part that was completed: while the stream is open, the end of its output.
IsEnded(pieces, ending, output) ==
    ending = "open" => \E i \in DOMAIN pieces : EndsOutput(pieces[i], output)

\* An output that ends as anything but complete has said so to all its parts.
IsAnnounced(pieces, output) ==
    \A i \in DOMAIN pieces : EndsOutput(pieces[i], output) /\ ~VerdictOf(pieces[i].status).complete
        => \E j \in 1..(i - 1) : MarksBad(pieces[j], output)

\* A finish reason finishes nothing in an event with an error (Observe), and only the items
\* of the Responses protocol complete a part: when they are done, which ends the output
\* (genai.go:1312), or in the snapshot of an event that ends the stream (genai.go:1358).
ASSUME ShapesAssumption ==
    \A e \in Events : \A i \in DOMAIN e.pieces :
        /\ e.end = "failed" => e.pieces[i].op # "finishChoice"
        /\ Completes(e.pieces[i]) =>
              /\ e.pieces[i].key.source = "responses"
              /\ IsEnded(SubSeq(e.pieces, i + 1, Len(e.pieces)), e.end, e.pieces[i].key.output)

\* Of the servers: an item that is done and completes a part has not the status of one that
\* goes on.  Only a program (genai.go:1582) could, whose status the code does not look at.
ASSUME ItemsAssumption ==
    \A e \in Events : \A i \in DOMAIN e.pieces :
        Completes(e.pieces[i]) =>
            IsAnnounced(SubSeq(e.pieces, i + 1, Len(e.pieces)), e.pieces[i].key.output)

-----------------------------------------------------------------------------
(* Observe: one action per piece of the event in hand *)

Idle == end = "idle"

Receive(e) ==
    /\ Idle /\ ~closed /\ received < MaxEvents
    /\ todo' = e.pieces /\ end' = e.end /\ received' = received + 1
    /\ UNCHANGED <<states, limits, ends, finishedChoices, limited, flags, history>>

Does(op) == /\ todo # <<>> /\ Head(todo).op = op
            /\ todo' = Tail(todo)
            /\ UNCHANGED <<flags, end, received>>

Writing(p) == /\ Does("write")
              /\ streamed' = Sent(p)
              /\ troubled' = IF Bad(p.status) /\ ~Heard(p.key) THEN troubled \cup {p.key}
                             ELSE troubled
              /\ UNCHANGED <<ends, finishedChoices>>

\* The output is over: what comes late is no part of it.
WriteLate(p) == /\ Over(p.key)
                /\ Writing(p)
                /\ UNCHANGED <<states, limits, limited>>

RefusePart(p) == /\ ~Over(p.key) /\ ~HasRoom(p.key)
                 /\ limited' = TRUE
                 /\ Writing(p)
                 /\ UNCHANGED <<states, limits>>

\* A command that has not been seen counts as one more part.
NewCommand(p) == p.field \in Commands /\ p.field \notin DOMAIN Opened(p.key).text

WritePart(p) ==
    /\ ~Over(p.key) /\ HasRoom(p.key) /\ ~NewCommand(p)
    /\ Opens(p.key)
    /\ states' = Put(states, p.key, Written(Opened(p.key), p))
    /\ Writing(p)
    /\ UNCHANGED limited

WriteNewCommand(p) ==
    /\ ~Over(p.key) /\ HasRoom(p.key) /\ NewCommand(p)
    /\ LET parts == createdParts + (IF p.key \in DOMAIN states THEN 0 ELSE 1)
           room == parts < MaxParts
           s == Opened(p.key)
       IN /\ createdParts' = parts + (IF room THEN 1 ELSE 0)
          /\ groups' = groups \cup {Group(p.key)}
          /\ states' = Put(states, p.key, IF room THEN Written(s, p) ELSE Labelled(s, p))
          /\ limited' = (limited \/ ~room)
    /\ Writing(p)

\* The status of one tool call, or of every part of an output: of those that exist.
MarkKeys(p, op, K) ==
    /\ Does(op)
    /\ states' = [k \in DOMAIN states |-> IF k \in K THEN WithStatus(states[k], p.status)
                                          ELSE states[k]]
    /\ troubled' = IF Bad(p.status) THEN troubled \cup (K \cap DOMAIN states) ELSE troubled
    /\ UNCHANGED <<limits, ends, finishedChoices, limited, streamed>>
ReportLifecycle(p) == MarkKeys(p, "lifecycle", {p.key})
MarkOutput(p) == MarkKeys(p, "mark", OutputKeys(p.key))

FinishOutputItem(p) ==
    /\ Does("finishOutput")
    /\ FinishKeys(OutputKeys(p.key), VerdictOf(p.status), limited, terminalIncomplete)
    /\ UNCHANGED <<limits, finishedChoices, limited, streamed>>

\* finishChoice: again, one too many, or the end of its outputs.
EndOfChoice(p) ==
    LET c == <<p.key.source, p.key.choice>>
    IN /\ Does("finishChoice")
       /\ IF c \in finishedChoices \/ Cardinality(finishedChoices) >= MaxGroups
          THEN /\ limited' = (limited \/ c \notin finishedChoices)
               /\ UNCHANGED <<states, ends, finishedChoices, troubled>>
          ELSE /\ finishedChoices' = finishedChoices \cup {c}
               /\ FinishKeys(ChoiceKeys(p.key), VerdictOf("completed"), limited, terminalIncomplete)
               /\ UNCHANGED limited
       /\ UNCHANGED <<limits, streamed>>

ObservePiece == /\ todo # <<>>
                /\ LET p == Head(todo)
                   IN \/ WriteLate(p) \/ RefusePart(p) \/ WritePart(p) \/ WriteNewCommand(p)
                      \/ ReportLifecycle(p) \/ MarkOutput(p)
                      \/ FinishOutputItem(p) \/ EndOfChoice(p)

\* The stream is over: everything is reported with the verdict of its end.
Close(ending, mark) ==
    /\ closed' = TRUE
    /\ limited' = (limited \/ mark)
    /\ terminalIncomplete' = (terminalIncomplete \/ ending = "incomplete")
    /\ FinishKeys(All, VerdictOf(ending), limited', terminalIncomplete')
    /\ end' = "idle"
    /\ UNCHANGED <<limits, finishedChoices, todo, streamed>>

ConcludeOpen == /\ end = "open" /\ todo = <<>>
                /\ end' = "idle"
                /\ UNCHANGED <<states, limits, ends, finishedChoices, limited, flags,
                               todo, received, history>>
ConcludeTerminal == /\ ~Idle /\ end # "open" /\ todo = <<>>
                    /\ terminalObserved' = TRUE
                    /\ Close(end, decodeFailed)
                    /\ UNCHANGED <<decodeFailed, received>>

\* [DONE]
ObserveDone == /\ Idle /\ ~closed /\ received < MaxEvents
               /\ received' = received + 1
               /\ terminalObserved' = TRUE
               /\ Close("completed", decodeFailed)
               /\ UNCHANGED decodeFailed

\* An event that is no JSON, or not of a shape the accumulator understands: then
\* it knows that it misses something, and may still see that the stream ends.
ObserveInvalid == /\ Idle /\ ~closed /\ received < MaxEvents
                  /\ received' = received + 1
                  /\ decodeFailed' = TRUE
                  /\ UNCHANGED <<states, limits, ends, finishedChoices, limited, terminalIncomplete,
                                 terminalObserved, closed, todo, end, history>>
ObserveMisshapen(ending) ==
    /\ Idle /\ ~closed /\ received < MaxEvents
    /\ received' = received + 1
    /\ decodeFailed' = TRUE
    /\ IF ending = "open"
       THEN /\ limited' = TRUE
            /\ UNCHANGED <<states, limits, ends, finishedChoices, terminalIncomplete,
                           terminalObserved, closed, todo, end, history>>
       ELSE terminalObserved' = TRUE /\ Close(ending, TRUE)

\* Events were lost before they reached the accumulator.
MarkLimited == /\ Idle /\ ~limited
               /\ limited' = TRUE
               /\ UNCHANGED <<states, limits, ends, finishedChoices, flags, todo, end,
                              received, history>>

\* Finish: the stream is over without having said so.
Finish == /\ Idle /\ ~closed
          /\ Close("in_progress", FALSE)
          /\ UNCHANGED <<decodeFailed, terminalObserved, received>>

Next == \/ \E e \in Events : Receive(e)
        \/ ObservePiece \/ ConcludeOpen \/ ConcludeTerminal
        \/ ObserveDone \/ ObserveInvalid
        \/ \E ending \in Ending : ObserveMisshapen(ending)
        \/ MarkLimited \/ Finish

Spec == Init /\ [][Next]_vars

-----------------------------------------------------------------------------
(* Properties *)

Text == [len : 0..Limit, cut : BOOLEAN]
Texts == UNION {[{"main", "refusal"} \cup C -> Text] : C \in SUBSET Commands}
Part == [text : Texts, labelled : BOOLEAN, authoritative : BOOLEAN,
         completed : BOOLEAN, incomplete : BOOLEAN, failed : BOOLEAN]
Groups == [source : {"chat", "responses", "native"}, kind : Kind,
           choice : Int, output : Int, tool : Int]
Output == [group : Groups, complete : BOOLEAN, failed : BOOLEAN, limited : BOOLEAN,
           incomplete : BOOLEAN, truncated : BOOLEAN,
           main : 0..Limit, refusal : 0..Limit]

\* The type of the accumulator's state.
TypeOK ==
    /\ DOMAIN states \subseteq Key /\ \A k \in DOMAIN states : states[k] \in Part
    /\ finished \subseteq Key
    /\ groups \subseteq Groups /\ finishedGroups \subseteq Groups
    /\ finishedChoices \subseteq {"chat", "native"} \X Int
    /\ createdParts \in Nat /\ received \in 0..MaxEvents
    /\ {limited, decodeFailed, terminalIncomplete, terminalObserved, closed} \subseteq BOOLEAN
    /\ todo \in Seq(Piece) /\ end \in Ending \cup {"idle"}
    /\ reports \in Seq(SUBSET Output)
    /\ DOMAIN streamed \subseteq Key \X Fields /\ \A s \in DOMAIN streamed : streamed[s] \in Nat
    /\ troubled \subseteq Key

\* The memory of a request is bounded whatever the upstream sends: what is held (parts,
\* parts remembered as finished, commands of shell calls) is no more than what was
\* made, of which there are never more than MaxParts; outputs and choices are never
\* more than MaxGroups, and every output with a part or a report is one of them.
Held == {<<k, "part">> : k \in DOMAIN states \cup finished}
        \cup {s \in (DOMAIN states) \X Commands : s[2] \in DOMAIN states[s[1]].text}
WithinLimits ==
    /\ Cardinality(Held) <= createdParts /\ createdParts <= MaxParts
    /\ {Group(k) : k \in DOMAIN states} \cup finishedGroups \subseteq groups
    /\ Cardinality(groups) <= MaxGroups
    /\ Cardinality(finishedChoices) <= MaxGroups

\* Each output becomes one span: its parts are reported together, and what arrives
\* after its end (a late part, the snapshot of response.completed) opens it no more.
ReportedOnce ==
    \A i, j \in DOMAIN reports : \A o \in reports[i], q \in reports[j] :
        o.group = q.group => i = j /\ o = q

\* What was streamed to field f of the parts of output g.
Speakers(g, f) == {s[1] : s \in {t \in DOMAIN streamed : Group(t[1]) = g /\ t[2] = f}}
Total(g, f) == SumOf([k \in Speakers(g, f) |-> streamed[<<k, f>>]])
CommandTotal(g) == Quoting + SumOf([c \in Commands |-> Total(g, c)])
HasCommands(g) == \E s \in DOMAIN streamed : Group(s[1]) = g /\ s[2] \in Commands

\* A report without a mark holds all of what the output said, added up over its parts.
ReportsAreWhole ==
    \A i \in DOMAIN reports : \A o \in reports[i] :
        \/ o.truncated \/ o.limited
        \/ /\ o.refusal = Total(o.group, "refusal")
           /\ \/ o.main = Total(o.group, "main")
              \/ HasCommands(o.group) /\ o.main = CommandTotal(o.group)

\* When the stream is over without a mark, whatever carried text has been reported.
NothingLost ==
    closed /\ ~limited =>
        \A s \in DOMAIN streamed : streamed[s] > 0 => Reported(Group(s[1]))

\* Text is lost to a limit (on bytes, parts, outputs or choices) only if the span, or
\* the accumulator for an output that gets none, says so.
WholeOrMarked == ReportsAreWhole /\ NothingLost

\* An output is complete only if none of the parts it is made of was declared failed
\* or incomplete, in whatever order the statuses of parts, tool calls and items came.
CompleteIsEarned ==
    \A i \in DOMAIN reports : \A o \in reports[i] :
        o.complete /\ ~o.limited =>
            /\ ~o.failed
            /\ o.group \notin {Group(k) : k \in troubled}

\* How the stream ends decides: an event that reports an error completes no output
\* of a chat or native stream, finish reason or not; a stream that just stops
\* completes no output at all; and after an event that could not be understood no
\* output is complete without being marked.
EndingsAreHonest ==
    [][\A i \in DOMAIN reports' \ DOMAIN reports : \A o \in reports'[i] :
           /\ end = "failed" /\ o.group.source # "responses" => o.failed
           /\ closed' /\ ~terminalObserved' => ~o.complete
           /\ decodeFailed /\ o.complete => o.limited]_vars
=============================================================================
