-------------------------- MODULE StreamProcessor --------------------------
(***************************************************************************)
(* The processor of stream events (pkg/stream/processor.go): it builds the *)
(* parts of a message from text, reasoning, tool and step events, which    *)
(* come in any order.  Text is a sequence of words and spaces; tool input, *)
(* metadata, times and usage are left out.  An event that ProcessEvent     *)
(* refuses, with an error or with no part, changes nothing: it is a        *)
(* stuttering step.  A builder that is nil and an empty one are the same,  *)
(* but for reasoning: a part without a builder ignores what it is told.    *)
(***************************************************************************)
EXTENDS Naturals, Sequences, SequencesExt

CONSTANTS
    ReasoningIds, CallIds,  \* ids of reasoning parts and of tool calls in the events
    MaxParts, MaxText       \* bounds on the parts, and on the deltas in the stream

ASSUME ProcessorAssumption == {MaxParts, MaxText} \subseteq Nat

VARIABLES
    parts,         \* Parts
    currentText,   \* CurrentText, as an index of parts; 0 for nil
    textBuilder,   \* what it was told so far
    reasoningMap,  \* ReasoningMap: id -> index of parts
    reasoningBuf,  \* what each was told so far
    toolCalls,     \* ToolCalls: id -> index of parts
    told,          \* history: the deltas that came for each part while it was open
    cut            \* history: parts whose builder was taken away while they were open

partsVars == <<parts, currentText, textBuilder, reasoningMap, reasoningBuf, toolCalls, told, cut>>
tracking == <<currentText, textBuilder, reasoningMap, reasoningBuf, toolCalls>>

Delta == {"word", "space"}
Started(kind, key, status) == [kind |-> kind, key |-> key, status |-> status, text |-> <<>>]

\* trimEnd
TrimEnd(text) == SubSeq(text, 1, Max({0} \cup {i \in DOMAIN text : text[i] = "word"}))

Without(f, x) == [y \in DOMAIN f \ {x} |-> f[y]]
With(f, x, v) == [y \in DOMAIN f \cup {x} |-> IF y = x THEN v ELSE f[y]]

\* NewProcessor
ProcessorInit ==
    /\ parts = <<>>
    /\ currentText = 0 /\ textBuilder = <<>>
    /\ reasoningMap = <<>> /\ reasoningBuf = <<>> /\ toolCalls = <<>>
    /\ told = <<>> /\ cut = {}

Next0 == Len(parts) + 1

\* p.Parts = append(p.Parts, part)
AddPart(part) ==
    /\ Len(parts) < MaxParts
    /\ parts' = Append(parts, part)
    /\ told' = Append(told, <<>>)

-----------------------------------------------------------------------------
\* Text

\* Mutant of TextStart: the builder goes on with what it holds.
TextStartKeepingBuilder ==
    /\ AddPart(Started("text", "", "open"))
    /\ currentText' = Next0
    /\ cut' = IF currentText = 0 THEN cut ELSE cut \cup {currentText}
    /\ UNCHANGED <<textBuilder, reasoningMap, reasoningBuf, toolCalls>>

TextStart ==
    /\ AddPart(Started("text", "", "open"))
    /\ currentText' = Next0
    /\ textBuilder' = <<>>
    /\ cut' = IF currentText = 0 THEN cut ELSE cut \cup {currentText}
    /\ UNCHANGED <<reasoningMap, reasoningBuf, toolCalls>>

TextDelta(d) ==
    /\ currentText # 0
    /\ Len(FlattenSeq(told)) < MaxText
    /\ textBuilder' = Append(textBuilder, d)
    /\ told' = [told EXCEPT ![currentText] = Append(@, d)]
    /\ UNCHANGED <<parts, currentText, reasoningMap, reasoningBuf, toolCalls, cut>>

TextEnd ==
    /\ currentText # 0
    /\ parts' = [parts EXCEPT ![currentText].text = TrimEnd(textBuilder),
                              ![currentText].status = "done"]
    /\ currentText' = 0
    /\ textBuilder' = <<>>
    /\ UNCHANGED <<reasoningMap, reasoningBuf, toolCalls, told, cut>>

-----------------------------------------------------------------------------
\* Reasoning

ReasoningStart(id) ==
    /\ id \notin DOMAIN reasoningMap
    /\ AddPart(Started("reasoning", id, "open"))
    /\ reasoningMap' = With(reasoningMap, id, Next0)
    /\ reasoningBuf' = With(reasoningBuf, id, <<>>)
    /\ UNCHANGED <<currentText, textBuilder, toolCalls, cut>>

ReasoningDelta(id, d) ==
    /\ id \in DOMAIN reasoningMap
    /\ Len(FlattenSeq(told)) < MaxText
    /\ reasoningBuf' = IF id \in DOMAIN reasoningBuf
                       THEN [reasoningBuf EXCEPT ![id] = Append(@, d)] ELSE reasoningBuf
    /\ told' = [told EXCEPT ![reasoningMap[id]] = Append(@, d)]
    /\ UNCHANGED <<parts, currentText, textBuilder, reasoningMap, toolCalls, cut>>

\* Mutant of ReasoningEnd: the builder stays.
ReasoningEndLeak(id) ==
    /\ id \in DOMAIN reasoningMap
    /\ parts' = [parts EXCEPT ![reasoningMap[id]].status = "done"]
    /\ reasoningMap' = Without(reasoningMap, id)
    /\ UNCHANGED <<currentText, textBuilder, reasoningBuf, toolCalls, told, cut>>

ReasoningEnd(id) ==
    /\ id \in DOMAIN reasoningMap
    /\ parts' = [parts EXCEPT ![reasoningMap[id]].text = IF id \in DOMAIN reasoningBuf
                                                         THEN TrimEnd(reasoningBuf[id]) ELSE @,
                              ![reasoningMap[id]].status = "done"]
    /\ reasoningMap' = Without(reasoningMap, id)
    /\ reasoningBuf' = Without(reasoningBuf, id)
    /\ UNCHANGED <<currentText, textBuilder, toolCalls, told, cut>>

-----------------------------------------------------------------------------
\* Tools

\* Mutant of ToolInputStart: a call that has begun begins again.
ToolInputRestart(c) ==
    /\ AddPart(Started("tool", c, "pending"))
    /\ toolCalls' = With(toolCalls, c, Next0)
    /\ UNCHANGED <<currentText, textBuilder, reasoningMap, reasoningBuf, cut>>

ToolInputStart(c) ==
    /\ c \notin DOMAIN toolCalls
    /\ AddPart(Started("tool", c, "pending"))
    /\ toolCalls' = With(toolCalls, c, Next0)
    /\ UNCHANGED <<currentText, textBuilder, reasoningMap, reasoningBuf, cut>>

ToolCall(c) ==
    /\ c \in DOMAIN toolCalls
    /\ parts' = [parts EXCEPT ![toolCalls[c]].status = "running"]
    /\ UNCHANGED <<tracking, told, cut>>

Over(c, status) ==
    /\ parts' = [parts EXCEPT ![toolCalls[c]].status = status]
    /\ toolCalls' = Without(toolCalls, c)
    /\ UNCHANGED <<currentText, textBuilder, reasoningMap, reasoningBuf, told, cut>>

\* Mutant of ToolResult: the call stays in ToolCalls.
ToolResultKept(c) ==
    /\ c \in DOMAIN toolCalls /\ parts[toolCalls[c]].status = "running"
    /\ parts' = [parts EXCEPT ![toolCalls[c]].status = "completed"]
    /\ UNCHANGED <<tracking, told, cut>>

ToolResult(c) ==
    /\ c \in DOMAIN toolCalls /\ parts[toolCalls[c]].status = "running"
    /\ Over(c, "completed")

ToolError(c) ==
    /\ c \in DOMAIN toolCalls /\ parts[toolCalls[c]].status \in {"running", "pending"}
    /\ Over(c, "error")

-----------------------------------------------------------------------------
\* Steps, and the end of the stream

Step == AddPart(Started("step", "", "done")) /\ UNCHANGED <<tracking, cut>>

\* finish and error: cleanupBuilders.  The open parts stay where they are.
Finish ==
    /\ textBuilder' = <<>>
    /\ reasoningBuf' = <<>>
    /\ cut' = cut \cup {reasoningMap[id] : id \in DOMAIN reasoningMap}
                  \cup (IF currentText = 0 THEN {} ELSE {currentText})
    /\ UNCHANGED <<parts, currentText, reasoningMap, toolCalls, told>>

ProcessorNext ==
    \/ TextStart \/ TextEnd \/ Step \/ Finish
    \/ \E d \in Delta : TextDelta(d) \/ \E id \in ReasoningIds : ReasoningDelta(id, d)
    \/ \E id \in ReasoningIds : ReasoningStart(id) \/ ReasoningEnd(id)
    \/ \E c \in CallIds : ToolInputStart(c) \/ ToolCall(c) \/ ToolResult(c) \/ ToolError(c)

ProcessorSpec == ProcessorInit /\ [][ProcessorNext]_partsVars

-----------------------------------------------------------------------------
Status == {"open", "pending", "running", "completed", "error", "done"}
Index == 0 .. Len(parts)

ProcessorTypeOK ==
    /\ Len(parts) <= MaxParts
    /\ parts \in Seq([kind : {"text", "reasoning", "tool", "step"},
                      key : ReasoningIds \cup CallIds \cup {""},
                      status : Status, text : Seq(Delta)])
    /\ currentText \in Index
    /\ textBuilder \in Seq(Delta)
    /\ DOMAIN reasoningMap \subseteq ReasoningIds
    /\ \A id \in DOMAIN reasoningMap : reasoningMap[id] \in DOMAIN parts
    /\ DOMAIN reasoningBuf \subseteq DOMAIN reasoningMap
    /\ \A id \in DOMAIN reasoningBuf : reasoningBuf[id] \in Seq(Delta)
    /\ DOMAIN toolCalls \subseteq CallIds
    /\ \A c \in DOMAIN toolCalls : toolCalls[c] \in DOMAIN parts
    /\ told \in Seq(Seq(Delta)) /\ Len(told) = Len(parts)
    /\ cut \subseteq DOMAIN parts

\* The maps hold exactly the parts that can still change: a tool part is in ToolCalls under
\* its id as long as it is pending or running and no longer, a reasoning part in ReasoningMap
\* as long as it is open.  So a result or an error that comes late, twice or for an id that
\* is used again never changes a call that is over (processor.go:332, processor.go:372).
MapsHoldTheOpenParts ==
    \A i \in DOMAIN parts :
      /\ parts[i].kind = "tool" =>
           (parts[i].status \in {"pending", "running"}
              <=> \E c \in DOMAIN toolCalls : toolCalls[c] = i /\ c = parts[i].key)
      /\ parts[i].kind = "reasoning" =>
           (parts[i].status = "open"
              <=> \E id \in DOMAIN reasoningMap : reasoningMap[id] = i /\ id = parts[i].key)

\* A text or a reasoning that was closed holds all it was told and nothing else, without the
\* white space at its end, unless the stream ended while it was open (processor.go:434): then
\* a text holds what came after, and a reasoning nothing.
TextIsWhole ==
    \A i \in DOMAIN parts :
      parts[i].kind \in {"text", "reasoning"} /\ parts[i].status = "done" =>
        IF i \notin cut THEN parts[i].text = TrimEnd(told[i])
        ELSE /\ parts[i].kind = "reasoning" => parts[i].text = <<>>
             /\ IsSuffix(parts[i].text, TrimEnd(told[i]))

\* The parts as a reader sees them who knows what the builders hold
Shown ==
    [i \in DOMAIN parts |->
       IF i = currentText THEN [parts[i] EXCEPT !.text = textBuilder]
       ELSE IF \E id \in DOMAIN reasoningBuf : reasoningMap[id] = i
       THEN [parts[i] EXCEPT !.text =
               reasoningBuf[CHOOSE id \in DOMAIN reasoningBuf : reasoningMap[id] = i]]
       ELSE parts[i]]

Abstract == INSTANCE MessageParts WITH parts <- Shown

\* The processor implements the promise about parts: whatever events come, in whatever order,
\* every step adds a part, tells an open one something, moves one along its life, or loses
\* what was not closed at the end of the stream.
ImplementsParts == Abstract!Spec
=============================================================================
