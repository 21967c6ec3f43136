--------------------------- MODULE MCAccumulator ---------------------------
(* Accumulator on streams made of the events below: MCAccumulator.cfg. *)
EXTENDS Accumulator

Open(pieces) == [pieces |-> pieces, end |-> "open"]
Ends(pieces, ending) == [pieces |-> pieces, end |-> ending]
Reason(choice, ending) == FinishReason(ChatKey("response", choice, Absent), ending)
Content(choice, n) == Delta(ChatKey("response", choice, Absent), "main", n)

ChatEvents ==
    {Open(Content(c, n)) : c \in {0, 1}, n \in {1, 2}}
    \cup {Open(Delta(ChatKey("reasoning", 0, Absent), "main", 1) \o Content(0, 1)),
          Open(Content(0, 1) \o Reason(0, "open") \o ChatTool(1, 0, TRUE, 0)),
          Open(ChatTool(0, 0, FALSE, 0)), Open(ChatTool(0, 0, FALSE, 2)),
          Open(Reason(0, "open")), Open(Reason(1, "open")),
          Ends(Content(0, 1) \o Reason(0, "failed"), "failed")}

NativeEvents ==
    {Open(Delta(NativeKey("response"), "main", 2)),
     Ends(Delta(NativeKey("response"), "main", 1)
              \o FinishReason(NativeKey("response"), "completed"), "completed")}

ResponseEvents ==
    {Open(Delta(TextKey("response", 0, c), f, 1)) : c \in {0, 1}, f \in {"main", "refusal"}}
    \cup {Open(Delta(TextKey("response", 0, 0), "main", 2)),
          Open(Done(TextKey("response", 0, 0), "main", 1)),
          Open(Done(TextKey("response", 0, 1), "main", 0)),
          Open(PartAdded(0, 0, "reasoning", "main", 1)),
          Open(SummaryPart(0, 0, 1, FALSE, "none")),
          Open(SummaryPart(0, 0, 0, TRUE, "failed"))}
    \cup {Open(PartDone(0, 1, "response", "main", n, s)) :
              n \in {0, 1}, s \in {"completed", "failed"}}
    \cup {Open(ItemDone(0, <<>>, s)) : s \in {"none", "completed", "incomplete", "failed"}}
    \cup {Ends(Mark(0, "completed"), ending) : ending \in {"completed", "incomplete", "failed"}}

ToolEvents ==
    {Open(ToolDelta(1, 1)), Open(ToolDone(1, 2)), Open(ToolItem(1, 0, FALSE, "none"))}
    \cup {Open(Command(1, c, n, FALSE)) : c \in Commands, n \in {1, 2}}
    \cup {Open(Command(1, "ls", 0, TRUE))}
    \cup {Open(Lifecycle(1, s)) : s \in {"completed", "incomplete", "failed"}}
    \cup {Open(ItemDone(1, ToolItem(1, n, TRUE, s), s)) :
              n \in {0, 2}, s \in {"in_progress", "completed"}}
    \cup {Open(ItemDone(1, ToolItem(1, 2, TRUE, "completed"), "none"))} \* a program
    \cup {Ends(ToolItem(1, 1, TRUE, "completed") \o Mark(1, "none"), "failed")}

MCEvents == ChatEvents \cup NativeEvents \cup ResponseEvents \cup ToolEvents
=============================================================================
