--------------------------- MODULE SessionHistory ---------------------------
(***************************************************************************)
(* One conversation in the SessionManager of pkg/session/manager.go, the   *)
(* agent turns of pkg/agent/loop.go that read and extend it, the           *)
(* background summarizer that shortens it, and its file.                   *)
(*                                                                         *)
(* A session key is served by one goroutine at a time (AgentLoop.Run, or   *)
(* the cron loop for cron sessions), so turns of a session follow one      *)
(* another; summarizeSession runs beside them.  Every manager operation is *)
(* one step, as each takes the lock; Save snapshots under the lock and     *)
(* writes after it.                                                        *)
(*                                                                         *)
(* A message is its position in the conversation, its role and the number  *)
(* of tool calls it makes.  A summary is the set of messages it tells of.  *)
(* Token estimates and oversized messages are left out: history is long    *)
(* when it has more than Limit messages.                                   *)
(***************************************************************************)
EXTENDS Integers, Sequences, FiniteSets

CONSTANTS
    Keep,        \* messages TruncateHistory leaves (4)
    Limit,       \* length above which maybeSummarize starts (20)
    PartLimit,   \* number of messages above which they are summarized in two parts (10)
    MaxCalls,    \* tool calls in one LLM response
    MaxIterations, \* al.maxIterations
    MaxMessages, \* bound on the conversation
    MaxCrashes,  \* bound on crashes of the process
    LlmMayFail   \* whether the summarizer's provider calls may fail

ASSUME ConstantsAssumption ==
    /\ Keep \in Nat \ {0} /\ Limit \in Nat /\ PartLimit \in Nat
    /\ MaxCalls \in Nat /\ MaxIterations \in Nat \ {0}
    /\ MaxMessages \in Nat /\ MaxCrashes \in Nat
    /\ LlmMayFail \in BOOLEAN

VARIABLES
    messages,   \* session.Messages
    summary,    \* session.Summary, as the messages it covers
    file,       \* the session file: what it holds of both
    turn,       \* the turn: pc, iteration, tool calls left, the prompt, its snapshot for Save
    summarizer, \* the goroutine of maybeSummarize: pc, its history, its summary and snapshot
    count,      \* messages ever added
    dialogue,   \* history: user and assistant messages a prompt should know of
    forgotten,  \* history: those TruncateHistory dropped although no summary told of them
    crashes

vars == <<messages, summary, file, turn, summarizer, count, dialogue, forgotten, crashes>>

Role == {"user", "assistant", "tool"}
Message == [id : Nat, role : Role, calls : Nat]
Snapshot == [messages : Seq(Message), summary : SUBSET Nat]

Empty == [messages |-> <<>>, summary |-> {}]
Ids(h) == {h[i].id : i \in DOMAIN h}
Last(h, k) == IF Len(h) <= k THEN h ELSE SubSeq(h, Len(h) - k + 1, Len(h))

\* The user and assistant messages of h, which are what summarizeSession looks at
Spoken(h) == {h[i].id : i \in {k \in DOMAIN h : h[k].role # "tool"}}

-----------------------------------------------------------------------------
\* Mutant of the loop of BuildMessages: nothing is removed.
StripNothing(h) == h

\* BuildMessages drops the tool results at the head of the history
StripOrphans(h) ==
    LET kept == {i \in DOMAIN h : h[i].role # "tool"} IN
    IF kept = {} THEN <<>>
    ELSE SubSeq(h, CHOOSE i \in kept : \A k \in kept : i <= k, Len(h))

IdleTurn == [pc |-> "idle", iteration |-> 0, left |-> 0, prompt |-> Empty, snap |-> Empty]
NoSummarizer == [pc |-> "off", history |-> <<>>, text |-> {}, snap |-> Empty]

Init ==
    /\ messages = <<>> /\ summary = {}
    /\ file = Empty
    /\ turn = IdleTurn
    /\ summarizer = NoSummarizer
    /\ count = 0 /\ dialogue = {} /\ forgotten = {} /\ crashes = 0

\* AddMessage and AddFullMessage
Add(role, calls) ==
    /\ count < MaxMessages
    /\ count' = count + 1
    /\ messages' = Append(messages, [id |-> count + 1, role |-> role, calls |-> calls])
    /\ dialogue' = IF role = "tool" THEN dialogue ELSE dialogue \cup {count + 1}

-----------------------------------------------------------------------------
\* runAgentLoop

\* GetHistory, passed through BuildMessages
ReadHistory ==
    /\ turn.pc = "idle"
    /\ turn' = [turn EXCEPT !.pc = "history", !.prompt.messages = StripOrphans(messages)]
    /\ UNCHANGED <<messages, summary, file, summarizer, count, dialogue, forgotten, crashes>>

\* GetSummary
ReadSummary ==
    /\ turn.pc = "history"
    /\ turn' = [turn EXCEPT !.pc = "prompted", !.prompt.summary = summary]
    /\ UNCHANGED <<messages, summary, file, summarizer, count, dialogue, forgotten, crashes>>

AddUserMessage ==
    /\ turn.pc = "prompted"
    /\ Add("user", 0)
    /\ turn' = [turn EXCEPT !.pc = "llm", !.prompt = Empty]
    /\ UNCHANGED <<summary, file, summarizer, forgotten, crashes>>

\* The provider fails: runAgentLoop returns without saving
LlmFails ==
    /\ turn.pc = "llm"
    /\ turn.iteration < MaxIterations
    /\ turn' = IdleTurn
    /\ UNCHANGED <<messages, summary, file, summarizer, count, dialogue, forgotten, crashes>>

\* The response has tool calls: the assistant message is added before the tools run
CallTools(k) ==
    /\ turn.pc = "llm"
    /\ turn.iteration < MaxIterations
    /\ Add("assistant", k)
    /\ turn' = [turn EXCEPT !.pc = "tools", !.iteration = @ + 1, !.left = k]
    /\ UNCHANGED <<summary, file, summarizer, forgotten, crashes>>

\* Mutant of the loop over the tool calls: it makes one round too many.
ToolResultOnceMore ==
    /\ turn.pc = "tools"
    /\ Add("tool", 0)
    /\ turn' = [turn EXCEPT !.left = @ - 1, !.pc = IF turn.left = 0 THEN "llm" ELSE "tools"]
    /\ UNCHANGED <<summary, file, summarizer, forgotten, crashes>>

ToolResult ==
    /\ turn.pc = "tools"
    /\ Add("tool", 0)
    /\ turn' = [turn EXCEPT !.left = @ - 1, !.pc = IF turn.left = 1 THEN "llm" ELSE "tools"]
    /\ UNCHANGED <<summary, file, summarizer, forgotten, crashes>>

\* A response without tool calls, or the default response after the last iteration
Answer ==
    /\ turn.pc = "llm"
    /\ Add("assistant", 0)
    /\ turn' = [turn EXCEPT !.pc = "save"]
    /\ UNCHANGED <<summary, file, summarizer, forgotten, crashes>>

\* Save: the snapshot under the read lock ...
TurnSnapshot ==
    /\ turn.pc = "save"
    /\ turn' = [turn EXCEPT !.pc = "write",
                            !.snap = [messages |-> messages, summary |-> summary]]
    /\ UNCHANGED <<messages, summary, file, summarizer, count, dialogue, forgotten, crashes>>

\* ... and the temporary file renamed over the session file, or an error nobody looks at
TurnWrite ==
    /\ turn.pc = "write"
    /\ file' \in {turn.snap, file}
    /\ turn' = [turn EXCEPT !.pc = "finish", !.snap = Empty]
    /\ UNCHANGED <<messages, summary, summarizer, count, dialogue, forgotten, crashes>>

\* maybeSummarize: one summarizer per session, by LoadOrStore on al.summarizing
FinishTurn ==
    /\ turn.pc = "finish"
    /\ turn' = IdleTurn
    /\ IF Len(messages) > Limit /\ summarizer.pc = "off"
       THEN summarizer' = [NoSummarizer EXCEPT !.pc = "start"]
       ELSE UNCHANGED summarizer
    /\ UNCHANGED <<messages, summary, file, count, dialogue, forgotten, crashes>>

-----------------------------------------------------------------------------
\* summarizeSession

\* GetHistory and GetSummary (only the summarizer itself changes the summary); the
\* goroutine ends when there is nothing to summarize
SummarizerReads ==
    /\ summarizer.pc = "start"
    /\ LET old == SubSeq(messages, 1, Len(messages) - Keep) IN
       summarizer' = IF Len(messages) <= Keep \/ Spoken(old) = {}
                     THEN NoSummarizer
                     ELSE [summarizer EXCEPT !.pc = "llm", !.history = old]
    /\ UNCHANGED <<messages, summary, file, turn, count, dialogue, forgotten, crashes>>

\* What the new summary may tell of.  Few messages: one call that is given the existing
\* summary; when it fails there is no summary.  Many: two calls that are not given it, whose
\* errors are ignored, and a merge, which falls back to joining them.
NewSummaries(h) ==
    LET valid == Spoken(h)
        half  == Cardinality(valid) \div 2
        first == {m \in valid : Cardinality({k \in valid : k <= m}) <= half}
    IN
    IF Cardinality(valid) <= PartLimit
    THEN {summary \cup valid}
    ELSE IF LlmMayFail THEN {{}, first, valid \ first, valid} ELSE {valid}

SummarizerAsks ==
    /\ summarizer.pc = "llm"
    /\ \/ \E text \in NewSummaries(summarizer.history) :
            summarizer' = [summarizer EXCEPT !.pc = "summary", !.text = text, !.history = <<>>]
       \/ LlmMayFail /\ summarizer' = NoSummarizer
    /\ UNCHANGED <<messages, summary, file, turn, count, dialogue, forgotten, crashes>>

\* SetSummary
SetSummary ==
    /\ summarizer.pc = "summary"
    /\ summary' = summarizer.text
    /\ forgotten' = forgotten \cup (summary \ (summarizer.text \cup Ids(messages)))
    /\ summarizer' = [summarizer EXCEPT !.pc = "cut"]
    /\ UNCHANGED <<messages, file, turn, count, dialogue, crashes>>

\* Mutant of the order of the two calls: the history is cut before the summary is set.
TruncateFirst ==
    /\ IF summarizer.pc = "summary"
       THEN /\ messages' = Last(messages, Keep)
            /\ forgotten' = forgotten \cup
                    ((dialogue \cap Ids(messages)) \ (Ids(messages') \cup summarizer.text))
            /\ UNCHANGED summarizer
       ELSE /\ summarizer.pc = "cut"
            /\ summarizer' = [summarizer EXCEPT !.pc = "save"]
            /\ UNCHANGED <<messages, forgotten>>
    /\ UNCHANGED <<summary, file, turn, count, dialogue, crashes>>

\* TruncateHistory cuts what the history has become, not what was summarized
TruncateHistory ==
    /\ summarizer.pc = "cut"
    /\ messages' = Last(messages, Keep)
    /\ forgotten' = forgotten \cup
                    ((dialogue \cap Ids(messages)) \ (Ids(messages') \cup summary))
    /\ summarizer' = [summarizer EXCEPT !.pc = "save"]
    /\ UNCHANGED <<summary, file, turn, count, dialogue, crashes>>

SummarizerSnapshot ==
    /\ summarizer.pc = "save"
    /\ summarizer' = [summarizer EXCEPT !.pc = "write",
                        !.snap = [messages |-> messages, summary |-> summary]]
    /\ UNCHANGED <<messages, summary, file, turn, count, dialogue, forgotten, crashes>>

SummarizerWrite ==
    /\ summarizer.pc = "write"
    /\ file' \in {summarizer.snap, file}
    /\ summarizer' = NoSummarizer
    /\ UNCHANGED <<messages, summary, turn, count, dialogue, forgotten, crashes>>

-----------------------------------------------------------------------------
\* The process ends in the middle of anything and loadSessions reads the file
CrashAndLoad ==
    /\ crashes < MaxCrashes
    /\ crashes' = crashes + 1
    /\ messages' = file.messages
    /\ summary' = file.summary
    /\ dialogue' = Spoken(file.messages) \cup file.summary
    /\ turn' = IdleTurn
    /\ summarizer' = NoSummarizer
    /\ UNCHANGED <<file, count, forgotten>>

Turn ==
    \/ ReadHistory \/ ReadSummary \/ AddUserMessage
    \/ LlmFails \/ ToolResult \/ Answer
    \/ \E k \in 1 .. MaxCalls : CallTools(k)
    \/ TurnSnapshot \/ TurnWrite \/ FinishTurn

Summarizer ==
    \/ SummarizerReads \/ SummarizerAsks \/ SetSummary \/ TruncateHistory
    \/ SummarizerSnapshot \/ SummarizerWrite

Next == Turn \/ Summarizer \/ CrashAndLoad

Spec == Init /\ [][Next]_vars

-----------------------------------------------------------------------------
TypeOK ==
    /\ messages \in Seq(Message)
    /\ summary \subseteq Nat
    /\ file \in Snapshot
    /\ turn \in [pc : {"idle", "history", "prompted", "llm", "tools", "save", "write", "finish"},
                 iteration : 0 .. MaxIterations, left : 0 .. MaxCalls,
                 prompt : Snapshot, snap : Snapshot]
    /\ summarizer \in [pc : {"off", "start", "llm", "summary", "cut", "save", "write"},
                       history : Seq(Message), text : SUBSET Nat, snap : Snapshot]
    /\ count \in 0 .. MaxMessages
    /\ dialogue \subseteq 1 .. count
    /\ forgotten \subseteq 1 .. count
    /\ crashes \in 0 .. MaxCrashes

\* Whatever the summarizer does while a turn builds its prompt, a message of the
\* conversation is in the prompt's history or its summary, unless a truncation had dropped
\* it unsummarized before: GetHistory comes before GetSummary and SetSummary before
\* TruncateHistory, so a message on its way from one to the other is seen in at least one.
PromptHasNoGap ==
    turn.pc = "prompted" =>
      dialogue \ forgotten
        \subseteq Ids(turn.prompt.messages) \cup turn.prompt.summary

\* The tool calls of h[i] are answered by the messages that follow it
Answered(h, i) ==
    \A k \in 1 .. h[i].calls : i + k \in DOMAIN h /\ h[i + k].role = "tool"

\* Every tool result of a prompt belongs to a call of the prompt: the provider would refuse
\* the request otherwise, which is what the loop in BuildMessages (context.go:249) is for.
NoOrphanResults ==
    turn.pc \in {"history", "prompted"} =>
      LET h == turn.prompt.messages IN
      \A i \in DOMAIN h : h[i].role = "tool" =>
        \E c \in 1 .. i - 1 : h[c].calls >= i - c /\ \A k \in c + 1 .. i : h[k].role = "tool"

\* Every tool call of a prompt is answered.  A crash after the summarizer saved the
\* history in the middle of a turn breaks this: the file keeps the call without results.
NoUnansweredCalls ==
    turn.pc \in {"history", "prompted"} =>
      \A i \in DOMAIN turn.prompt.messages : Answered(turn.prompt.messages, i)

\* summarizeSession keeps "last 4 messages for continuity" and has the others summarized, so
\* nothing said is lost.  Messages added while it waits for the provider push the kept ones
\* out unsummarized, and the two-part path drops the summary there was.
NothingForgotten == forgotten = {}

=============================================================================
