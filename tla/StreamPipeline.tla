--------------------------- MODULE StreamPipeline ---------------------------
(***************************************************************************)
(* From an inbound message to what the user sees: the channels of          *)
(* pkg/bus/bus.go, agent turns and the stream events they publish          *)
(* (pkg/agent/loop.go), and the Telegram channel, whose stream goroutine   *)
(* turns the events of a chat into messages (pkg/channels/telegram.go).    *)
(*                                                                         *)
(* Two goroutines run turns: AgentLoop.Run ("loop"), one inbound message   *)
(* after the other, and the caller of ProcessDirectWithChannel ("direct"): *)
(* the cron loop of the gateway, or the terminal of `mortis-agent agent'.  *)
(*                                                                         *)
(* Text is the sequence of the chunks streamed, a chunk being named by the *)
(* turn and the part it belongs to; its length in chunks is its length,    *)
(* after the conversion to HTML too.  White space is told from other       *)
(* chunks where it ends a text.  Of a tool call the model keeps that it    *)
(* happened.  Turns do not use the message tool here.  Calls to Telegram   *)
(* succeed, except for edits.  The execution logs behind the View Details  *)
(* button are left out.                                                    *)
(***************************************************************************)
EXTENDS Naturals, Sequences, FiniteSets

CONSTANTS
    Chat,          \* Telegram chats
    Terminal,      \* the chat of an internal channel: ("cli", "direct")
    None,
    Cap,           \* capacity of each channel of the bus (100)
    MaxIterations, \* al.maxIterations
    Responses,     \* [chunks, blanks, calls] a provider may answer: chunks of text, of which
                   \* the last so many are white space, and tool calls
    Limit,         \* chunks of text a message has room for (4000 characters)
    LlmMayFail,    \* whether its calls may fail
    StreamMode,    \* cfg.Channels.Telegram.StreamMode
    Gateway,       \* whether this is a gateway with the Telegram channel enabled
    UserChats,     \* where users write
    DirectChats,   \* where jobs and the terminal report
    MaxTurns,      \* bound on messages and jobs
    MaxFaults      \* bound on edits Telegram refuses

ASSUME ConstantsAssumption ==
    /\ Terminal \notin Chat
    /\ None \notin Chat \cup {Terminal}
    /\ Cap \in Nat \ {0} /\ MaxIterations \in Nat \ {0}
    /\ Responses \subseteq [chunks : Nat, blanks : Nat, calls : Nat]
    /\ \A r \in Responses : r.blanks <= r.chunks
    /\ Limit \in Nat \ {0}
    /\ {LlmMayFail, StreamMode, Gateway} \subseteq BOOLEAN
    /\ UserChats \subseteq Chat
    /\ DirectChats \subseteq Chat \cup {Terminal}
    /\ {MaxTurns, MaxFaults} \subseteq Nat

VARIABLES
    arriving,   \* the message whose handler has not yet published it
    inbound, outbound, stream,  \* the channels of the bus
    turn,       \* the turn each goroutine is in
    states,     \* c.streamStates
    shown,      \* the messages the bot ever sent, in order
    turns,      \* messages received and jobs started so far
    answer,     \* history: finalContent of each turn that reached its end, without white
                \* space at its end
    finished,   \* history: turns whose finish or error event the channel has handled
    faults

vars == <<arriving, inbound, outbound, stream, turn, states, shown, turns, answer, finished, faults>>
chatVars == <<states, shown, finished, faults>>

Agent == {"loop", "direct"}
TurnId == 1 .. MaxTurns

Default == <<<<0, 0>>>>   \* DefaultResponse
Failure == <<<<0, 1>>>>   \* "Error processing message"
Chunks(t, part, n) == [i \in 1 .. n |-> <<t, part>>]
Least(m, n) == IF m <= n THEN m ELSE n
Cut(text, n) == SubSeq(text, 1, Least(n, Len(text)))

Idle == [stage |-> "idle", id |-> 0, chat |-> None, iteration |-> 0, part |-> 0,
         queue |-> <<>>]

\* A StreamMessage.  The turn is not in it: it names the chunk a text-delta carries and tells
\* whose steps a log holds.  Nor are the blanks of a text-end: so many of the chunks of its
\* text are white space at the end.
Event(type, t, part) ==
    [type |-> type, chat |-> t.chat, turn |-> t.id, part |-> part, blanks |-> 0]
TextEnd(t, part, b) == [Event("text-end", t, part) EXCEPT !.blanks = b]

\* NewStreamState.  A part is [id, turn, kind, text]; currentText points to one, which need
\* not be in the map any more.
NewState == [parts |-> {}, current |-> None, step |-> FALSE, tools |-> FALSE, message |-> 0]

Init ==
    /\ arriving = {}
    /\ inbound = <<>> /\ outbound = <<>> /\ stream = <<>>
    /\ turn = [a \in Agent |-> Idle]
    /\ states = [c \in Chat |-> None]
    /\ shown = <<>>
    /\ turns = 0
    /\ answer = [t \in TurnId |-> None]
    /\ finished = {}
    /\ faults = 0

-----------------------------------------------------------------------------
\* Turns.  A turn holds the events it has still to publish in `queue'; PublishStream blocks
\* while the channel is full.

Begin(a, t, c) ==
    LET new == [Idle EXCEPT !.stage = "iterate", !.id = t, !.chat = c] IN
    turn' = [turn EXCEPT ![a] =
               [new EXCEPT !.queue = <<Event("start", new, 0), Event("start-step", new, 0)>>]]

\* handleMessage up to PublishInbound: LoadOrStore of the stream state.  One goroutine handles
\* the updates, one after the other, and a full channel holds it up.
HandleMessage(c) ==
    /\ Gateway
    /\ arriving = {}
    /\ turns < MaxTurns
    /\ turns' = turns + 1
    /\ states' = [states EXCEPT ![c] = IF @ = None THEN NewState ELSE @]
    /\ arriving' = {[chat |-> c, id |-> turns + 1]}
    /\ UNCHANGED <<inbound, outbound, stream, turn, shown, answer, finished, faults>>

\* Mutant of PublishInbound: the channel has no bound.
PublishInboundUnbounded(m) ==
    /\ m \in arriving
    /\ arriving' = arriving \ {m}
    /\ inbound' = Append(inbound, m)
    /\ UNCHANGED <<outbound, stream, turn, turns, answer, chatVars>>

\* The end of handleMessage
PublishInbound(m) ==
    /\ m \in arriving
    /\ Len(inbound) < Cap
    /\ arriving' = arriving \ {m}
    /\ inbound' = Append(inbound, m)
    /\ UNCHANGED <<outbound, stream, turn, turns, answer, chatVars>>

\* AgentLoop.Run takes the next message
ConsumeInbound ==
    /\ Gateway
    /\ turn["loop"].stage = "idle"
    /\ inbound # <<>>
    /\ Begin("loop", Head(inbound).id, Head(inbound).chat)
    /\ inbound' = Tail(inbound)
    /\ UNCHANGED <<arriving, outbound, stream, turns, answer, chatVars>>

\* ExecuteJob of a job the agent has to process, or a line typed at the terminal
ProcessDirect(c) ==
    /\ turns < MaxTurns
    /\ turn["direct"].stage = "idle"
    /\ turns' = turns + 1
    /\ Begin("direct", turns + 1, c)
    /\ UNCHANGED <<arriving, inbound, outbound, stream, answer, chatVars>>

\* ExecuteJob of a job that is delivered as it is
Deliver(c) ==
    /\ Gateway
    /\ turns < MaxTurns
    /\ turn["direct"].stage = "idle"
    /\ Len(outbound) < Cap
    /\ turns' = turns + 1
    /\ outbound' = Append(outbound, [chat |-> c, id |-> turns + 1, text |-> Chunks(turns + 1, 0, 1)])
    /\ UNCHANGED <<arriving, inbound, stream, turn, answer, chatVars>>

\* Mutant of PublishStream: an event is dropped when the channel is full.
PublishOrDrop(a) ==
    /\ turn[a].queue # <<>>
    /\ stream' = IF Len(stream) < Cap THEN Append(stream, Head(turn[a].queue)) ELSE stream
    /\ turn' = [turn EXCEPT ![a].queue = Tail(@)]
    /\ UNCHANGED <<arriving, inbound, outbound, turns, answer, chatVars>>

PublishStream(a) ==
    /\ turn[a].queue # <<>>
    /\ Len(stream) < Cap
    /\ stream' = Append(stream, Head(turn[a].queue))
    /\ turn' = [turn EXCEPT ![a].queue = Tail(@)]
    /\ UNCHANGED <<arriving, inbound, outbound, turns, answer, chatVars>>

TextEvents(t, part, n, b) ==
    IF n = 0 THEN <<>>
    ELSE <<Event("text-start", t, part)>>
         \o [i \in 1 .. n |-> Event("text-delta", t, part)]
         \o <<TextEnd(t, part, b)>>

\* n tool calls, one after the other, with the same outcome: three events for each
ToolEvents(t, part, n, outcome) ==
    [i \in 1 .. 3 * n |-> Event(<<"tool-input-start", "tool-call", outcome>>[((i - 1) % 3) + 1],
                                t, part + ((i - 1) \div 3) + 1)]

\* One iteration of runLLMIteration: ChatWithStreamBase replays the response in chunks, then
\* the tools run.  Part numbers are drawn from the turn's StreamIDGenerator.
Iterate(a) ==
    LET t == turn[a] IN
    /\ t.stage = "iterate" /\ t.queue = <<>>
    /\ t.iteration < MaxIterations
    /\ \E r \in Responses, outcome \in {"tool-result", "tool-error"} :
         LET textPart == IF r.chunks = 0 THEN t.part ELSE t.part + 1 IN
         /\ turn' = [turn EXCEPT ![a].iteration = @ + 1,
                       ![a].part = textPart + r.calls,
                       ![a].stage = IF r.calls = 0 THEN "finish" ELSE "iterate",
                       ![a].queue = <<Event("start-step", t, 0)>>
                                    \o TextEvents(t, textPart, r.chunks, r.blanks)
                                    \o ToolEvents(t, textPart, r.calls, outcome)
                                    \o <<Event("finish-step", t, 0)>>]
         /\ answer' = IF r.calls = 0
                      THEN [answer EXCEPT ![t.id] = IF r.chunks = 0 THEN Default
                                                    ELSE Chunks(t.id, textPart, r.chunks - r.blanks)]
                      ELSE answer
    /\ UNCHANGED <<arriving, inbound, outbound, stream, turns, chatVars>>

\* The provider's error: reported by runLLMIteration, and by runAgentLoop again
LlmFails(a) ==
    LET t == turn[a] IN
    /\ LlmMayFail
    /\ t.stage = "iterate" /\ t.queue = <<>>
    /\ t.iteration < MaxIterations
    /\ turn' = [turn EXCEPT ![a].stage = "reply",
                  ![a].queue = <<Event("start-step", t, 0), Event("error", t, 0),
                                 Event("error", t, 0)>>]
    /\ answer' = [answer EXCEPT ![t.id] = Failure]
    /\ UNCHANGED <<arriving, inbound, outbound, stream, turns, chatVars>>

\* The loop of runLLMIteration is used up while the model still calls tools
IterationsExhausted(a) ==
    LET t == turn[a] IN
    /\ t.stage = "iterate" /\ t.queue = <<>>
    /\ t.iteration = MaxIterations
    /\ turn' = [turn EXCEPT ![a].stage = "finish"]
    /\ answer' = [answer EXCEPT ![t.id] = Default]
    /\ UNCHANGED <<arriving, inbound, outbound, stream, turns, chatVars>>

\* runAgentLoop has saved the session and sends finish
Finish(a) ==
    LET t == turn[a] IN
    /\ t.stage = "finish" /\ t.queue = <<>>
    /\ turn' = [turn EXCEPT ![a].stage = "reply", ![a].queue = <<Event("finish", t, 0)>>]
    /\ UNCHANGED <<arriving, inbound, outbound, stream, turns, answer, chatVars>>

\* runAgentLoop returns.  Run publishes the response of a message whose StreamMode is off;
\* ExecuteJob leaves it to the loop, and the terminal prints it.
Return(a) ==
    LET t == turn[a] IN
    /\ t.stage = "reply" /\ t.queue = <<>>
    /\ turn' = [turn EXCEPT ![a] = Idle]
    /\ IF a = "loop" /\ ~StreamMode
       THEN /\ Len(outbound) < Cap
            /\ outbound' = Append(outbound, [chat |-> t.chat, id |-> t.id, text |-> answer[t.id]])
       ELSE UNCHANGED outbound
    /\ UNCHANGED <<arriving, inbound, stream, turns, answer, chatVars>>

-----------------------------------------------------------------------------
\* The stream goroutine of the Telegram channel.

Message(c, t, text, form) == [chat |-> c, turn |-> t, text |-> text, form |-> form]

Texts(s) == {p.text : p \in {q \in s.parts : q.kind = "text" /\ q.text # <<>>}}

\* GetDisplayContent lists the last tool calls before the text: they leave it any room, so that
\* a message in this form shows the text kept of it or less.
Form(s) == IF s.tools THEN "calls" ELSE "progress"

\* Mutant of GetFinalText: the shortest text instead of the longest.
ShortestTexts(s) ==
    IF Texts(s) = {} THEN {<<>>}
    ELSE {x \in Texts(s) : \A y \in Texts(s) : Len(x) <= Len(y)}

\* GetFinalText: the current text, or the longest of the parts, of which the first that the
\* iteration over the map meets
FinalTexts(s) ==
    IF s.current # None /\ s.current.text # <<>> THEN {s.current.text}
    ELSE IF Texts(s) = {} THEN {<<>>}
    ELSE {x \in Texts(s) : \A y \in Texts(s) : Len(x) >= Len(y)}

AddPart(s, p) == [s EXCEPT !.parts = {q \in @ : q.id # p.id} \cup {p}]

\* UpdatePartDelta, when there is such a part
AddDelta(s, e) ==
    LET old == CHOOSE p \in s.parts : p.id = e.part
        new == [old EXCEPT !.text = Append(@, <<e.turn, e.part>>)]
    IN
    [s EXCEPT !.parts = (@ \ {old}) \cup {new},
              !.current = IF @ = old THEN new ELSE @]

\* updateStreamMessage with the state s: the message is edited; when there is none, or Telegram
\* refuses the edit, a new one is sent and the old one deleted
Update(e, s) ==
    LET fresh(text) == Append(shown, Message(e.chat, e.turn, text, Form(s)))
        save(m) == states' = [states EXCEPT ![e.chat] = [s EXCEPT !.message = m]]
    IN
    \E final \in FinalTexts(s) :
      LET text == Cut(final, Limit) IN
      IF ~s.step /\ ~s.tools /\ final = <<>>
      THEN save(s.message) /\ UNCHANGED <<shown, faults>>
      ELSE IF s.message = 0
      THEN shown' = fresh(text) /\ save(Len(shown) + 1) /\ UNCHANGED faults
      ELSE \/ /\ shown' = [shown EXCEPT ![s.message].text = text,
                                        ![s.message].form = Form(s)]
              /\ save(s.message)
              /\ UNCHANGED faults
           \/ /\ faults < MaxFaults
              /\ faults' = faults + 1
              /\ shown' = [fresh(text) EXCEPT ![s.message].text = <<>>,
                                              ![s.message].form = "deleted"]
              /\ save(Len(shown) + 1)

Keep(e, s) == states' = [states EXCEPT ![e.chat] = s] /\ UNCHANGED <<shown, faults>>

OnTextStart(e, s) ==
    LET p == [id |-> e.part, turn |-> e.turn, kind |-> "text", text |-> <<>>] IN
    Keep(e, [AddPart(s, p) EXCEPT !.current = p])

\* The message is edited when the last update is 500 ms old, but UpdatePartDelta has just
\* updated the time: that leaves the deltas of a part the state does not know.
OnTextDelta(e, s) ==
    IF \E p \in s.parts : p.id = e.part
    THEN Keep(e, AddDelta(s, e))
    ELSE Keep(e, s) \/ Update(e, s)

\* TrimRight of the text, when there is such a part
Trim(p, e) ==
    IF p.id = e.part
    THEN [p EXCEPT !.text = Cut(@, Len(@) - Least(e.blanks, Len(@)))]
    ELSE p

OnTextEnd(e, s) ==
    Update(e, [s EXCEPT !.parts = {Trim(p, e) : p \in @}, !.current = None])

OnToolInputStart(e, s) ==
    LET p == [id |-> e.part, turn |-> e.turn, kind |-> "tool", text |-> <<>>] IN
    Update(e, [AddPart(s, p) EXCEPT !.tools = TRUE])

\* tool-call and tool-result add a step to the execution log, tool-error does not; the part
\* they change is found only if this state has seen its tool-input-start
OnTool(e, s) ==
    Update(e, [s EXCEPT !.tools = @ \/ e.type # "tool-error"])

OnStartStep(e, s) == Keep(e, [s EXCEPT !.step = TRUE])

\* Mutant of the handling of finish and error: the state is left for the next turn.
DoneKeepingState(e) ==
    /\ states' = [states EXCEPT ![e.chat] = IF @ = None THEN NewState ELSE @]
    /\ finished' = finished \cup {e.turn}

Done(e) ==
    /\ states' = [states EXCEPT ![e.chat] = None]
    /\ finished' = finished \cup {e.turn}

\* finalizeStreamMessage: a turn that used tools has its message reduced to the final text and
\* given the View Details button, if Telegram accepts the edit
OnFinish(e, s) ==
    /\ Done(e)
    /\ IF s.tools /\ s.message # 0
       THEN \/ /\ \E text \in FinalTexts(s) :
                    shown' = [shown EXCEPT ![s.message].text = Cut(text, Limit),
                                           ![s.message].form = "final"]
               /\ UNCHANGED faults
            \/ /\ faults < MaxFaults
               /\ faults' = faults + 1
               /\ UNCHANGED shown
       ELSE UNCHANGED <<shown, faults>>

\* sendErrorMessage
OnError(e, s) ==
    /\ Done(e)
    /\ shown' = Append(shown, Message(e.chat, e.turn, <<>>, "error"))
    /\ UNCHANGED faults

\* handleStreamEvent
Handle(e, s) ==
    \/ /\ UNCHANGED finished
       /\ \/ e.type \in {"start", "finish-step"} /\ Keep(e, s)
          \/ e.type = "start-step" /\ OnStartStep(e, s)
          \/ e.type = "text-start" /\ OnTextStart(e, s)
          \/ e.type = "text-delta" /\ OnTextDelta(e, s)
          \/ e.type = "text-end" /\ OnTextEnd(e, s)
          \/ e.type = "tool-input-start" /\ OnToolInputStart(e, s)
          \/ e.type \in {"tool-call", "tool-result", "tool-error"} /\ OnTool(e, s)
    \/ e.type = "finish" /\ OnFinish(e, s)
    \/ e.type = "error" /\ OnError(e, s)

\* handleStreamMessages drops the events of other channels; the others are given the state of
\* their chat (LoadOrStore)
HandleStream ==
    /\ Gateway
    /\ stream # <<>>
    /\ stream' = Tail(stream)
    /\ LET e == Head(stream) IN
       IF e.chat \notin Chat
       THEN UNCHANGED chatVars
       ELSE Handle(e, IF states[e.chat] = None THEN NewState ELSE states[e.chat])
    /\ UNCHANGED <<arriving, inbound, outbound, turn, turns, answer>>

\* dispatchOutbound: internal channels are skipped, others get their message through Send
Dispatch ==
    /\ Gateway
    /\ outbound # <<>>
    /\ outbound' = Tail(outbound)
    /\ LET m == Head(outbound) IN
       shown' = IF m.chat \in Chat
                THEN Append(shown, Message(m.chat, m.id, Cut(m.text, Limit), "plain"))
                ELSE shown
    /\ UNCHANGED <<arriving, inbound, stream, turn, states, turns, answer, finished, faults>>

-----------------------------------------------------------------------------
Run(a) ==
    \/ PublishStream(a) \/ Iterate(a) \/ LlmFails(a) \/ IterationsExhausted(a)
    \/ Finish(a) \/ Return(a)

Next ==
    \/ \E c \in UserChats : HandleMessage(c)
    \/ \E m \in arriving : PublishInbound(m)
    \/ \E c \in DirectChats : ProcessDirect(c) \/ Deliver(c)
    \/ ConsumeInbound
    \/ \E a \in Agent : Run(a)
    \/ HandleStream \/ Dispatch

Spec == Init /\ [][Next]_vars

\* Every goroutine goes on, the provider answers or times out.  The two senders of the stream
\* channel are served in turn, as Go's channels queue their senders: hence strong fairness.
Fairness ==
    /\ WF_vars(\E m \in arriving : PublishInbound(m))
    /\ SF_vars(ConsumeInbound \/ Run("loop")) /\ SF_vars(Run("direct"))
    /\ WF_vars(HandleStream) /\ WF_vars(Dispatch)

FairSpec == Spec /\ Fairness

-----------------------------------------------------------------------------
Text == Seq((0 .. MaxTurns) \X Nat)
EventType == {"start", "start-step", "text-start", "text-delta", "text-end",
              "tool-input-start", "tool-call", "tool-result", "tool-error",
              "finish-step", "finish", "error"}
Events == [type : EventType, chat : Chat \cup {Terminal}, turn : TurnId, part : Nat, blanks : Nat]
Parts == [id : Nat, turn : TurnId, kind : {"text", "tool"}, text : Text]
StreamStates == [parts : SUBSET Parts, current : Parts \cup {None}, step : BOOLEAN,
                 tools : BOOLEAN, message : Nat]

\* A chat without a stream state is told from one that has a state
ASSUME NoneAssumption == None \notin StreamStates

StateOK(s) ==
    /\ s.parts \subseteq Parts
    /\ \A p, q \in s.parts : p.id = q.id => p = q
    /\ s.current \in Parts \cup {None}
    /\ s.step \in BOOLEAN /\ s.tools \in BOOLEAN
    /\ s.message \in 0 .. Len(shown)

TypeOK ==
    /\ arriving \subseteq [chat : Chat, id : TurnId]
    /\ inbound \in Seq([chat : Chat, id : TurnId])
    /\ outbound \in Seq([chat : Chat \cup {Terminal}, id : TurnId, text : Text])
    /\ stream \in Seq(Events)
    /\ Len(inbound) <= Cap /\ Len(outbound) <= Cap /\ Len(stream) <= Cap
    /\ turn \in [Agent -> [stage : {"idle", "iterate", "finish", "reply"},
                           id : 0 .. MaxTurns, chat : Chat \cup {Terminal, None},
                           iteration : 0 .. MaxIterations, part : Nat, queue : Seq(Events)]]
    /\ DOMAIN states = Chat
    /\ \A c \in Chat : states[c] = None \/ StateOK(states[c])
    /\ shown \in Seq([chat : Chat, turn : TurnId, text : Text,
                      form : {"progress", "calls", "final", "error", "plain", "deleted"}])
    /\ turns \in 0 .. MaxTurns
    /\ answer \in [TurnId -> Text \cup {None}]
    /\ finished \subseteq 1 .. turns
    /\ faults \in 0 .. MaxFaults

\* A message of a chat shows the text of one turn, the one whose events created it: no stream
\* state is carried over from a turn to the next, be it after finish, after the two error
\* events of a failed turn, or when a message arrives while a turn is under way.  It does not
\* hold when a job reports to a chat that is being served, because the events of both turns
\* reach one state (telegram.go:434).
NoMixedText ==
    \A m \in DOMAIN shown :
      shown[m].form \in {"progress", "calls", "final"} =>
        \A i \in DOMAIN shown[m].text : shown[m].text[i][1] = shown[m].turn

\* When the channel has handled a turn's finish, the chat shows a text of that turn that is as
\* long as its answer, or fills the message: neither the tool calls listed before it nor a
\* state thrown away too early leave less of it, unless Telegram refused to reduce a message
\* that lists tool calls to its text.  Which of two texts of a turn that are long enough is
\* not said: GetFinalText takes the longest, be it the answer or an earlier remark.  An answer
\* of white space and the default response are not streamed text.
AnswerIsShown ==
    \A t \in finished :
      answer[t] \notin {Default, Failure, <<>>}
        => \E m \in DOMAIN shown :
             /\ shown[m].turn = t
             /\ \/ /\ shown[m].form \in {"progress", "final"}
                   /\ Len(shown[m].text) >= Least(Len(answer[t]), Limit)
                \/ shown[m].form = "calls" /\ faults > 0

\* A chat nobody is answering has no stream state: handleMessage's LoadOrStore, a late event
\* or the second error event of a turn leave none behind.
QuietChatHasNoState ==
    \A c \in Chat :
      states[c] # None =>
        \/ \E m \in arriving : m.chat = c
        \/ \E i \in DOMAIN inbound : inbound[i].chat = c
        \/ \E i \in DOMAIN stream : stream[i].chat = c
        \/ \E a \in Agent : turn[a].chat = c

\* Every message a user sent is answered, by a finish or an error event the channel handles,
\* although turns block on full channels and a job's turn shares them.
EveryMessageIsAnswered ==
    \A t \in TurnId : (\E m \in arriving : m.id = t) ~> t \in finished

\* Every turn returns to its caller.  Outside a gateway with Telegram nobody receives from the
\* stream channel, so that `mortis-agent agent' blocks in an answer of some hundred chunks.
TurnsReturn == \A a \in Agent : (turn[a].stage # "idle") ~> (turn[a].stage = "idle")

=============================================================================
