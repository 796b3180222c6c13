------------------------ MODULE StreamPipelineProofs ------------------------
(***************************************************************************)
(* Theorems about StreamPipeline: for any chats, capacity of the bus and   *)
(* number of turns, every variable keeps its type, a chat that nobody      *)
(* answers has no stream state, and where jobs do not report to the chats  *)
(* users write in, a message shows the text of one turn and a chat that    *)
(* has been given the finish of a turn shows a text of it as long as its   *)
(* answer, or as long as a message may be.                                 *)
(***************************************************************************)
EXTENDS StreamPipeline, SequenceTheorems, TLAPS

AnyChat == Chat \cup {Terminal}
Forms == {"progress", "calls", "final", "error", "plain", "deleted"}
Terminals == {"finish", "error"}
Replies == {r \in [chunks : Nat, blanks : Nat, calls : Nat] : r.blanks <= r.chunks}

\* What is on its way when n turns have begun
Arrived(n) == [chat : UserChats, id : 1 .. n]
EventOf(n) ==
    [type : EventType, chat : AnyChat, turn : 1 .. n, part : Nat, blanks : Nat]
Outgoing == [chat : AnyChat, id : TurnId, text : Text]
Message0 == [chat : Chat, turn : TurnId, text : Text, form : Forms]
TurnOf(n) == [stage : {"idle", "iterate", "finish", "reply"}, id : 0 .. n,
              chat : AnyChat \cup {None}, iteration : 0 .. MaxIterations, part : Nat,
              queue : Seq(EventOf(n))]

\* A stream state when m messages were sent
StateOf(m) == {s \in [parts : SUBSET Parts, current : Parts \cup {None},
                      step : BOOLEAN, tools : BOOLEAN, message : 0 .. m] :
                 \A p, q \in s.parts : p.id = q.id => p = q}

\* The events of a turn
Own(t) == [type : EventType, chat : {t.chat}, turn : {t.id}, part : Nat, blanks : Nat]

\* A turn that runs has a number and a chat, and its events have them too; the last event is
\* the one that ends it, and the answer is there before
TurnOk(t, given) ==
    /\ t.stage = "idle" => t.queue = <<>> /\ t.chat = None
    /\ t.stage # "idle" => t.id > 0 /\ t.chat \in AnyChat
    /\ t.stage \in {"finish", "reply"} => given[t.id] \in Text
    /\ t.queue \in Seq(Own(t))
    /\ t.stage = "reply" /\ t.queue # <<>> => t.queue[Len(t.queue)].type \in Terminals

\* The loop serves users, the other goroutine jobs and the terminal
Served(a) == (IF a = "loop" THEN UserChats ELSE DirectChats) \cup {None}

Waiting ==
    /\ arriving \subseteq Arrived(turns)
    /\ inbound \in Seq(Arrived(turns)) /\ Len(inbound) <= Cap
Leaving == outbound \in Seq(Outgoing) /\ Len(outbound) <= Cap
Streaming == stream \in Seq(EventOf(turns)) /\ Len(stream) <= Cap
Running ==
    /\ turn \in [Agent -> TurnOf(turns)]
    /\ \A a \in Agent : TurnOk(turn[a], answer) /\ turn[a].chat \in Served(a)
Counted == turns \in 0 .. MaxTurns /\ answer \in [TurnId -> Text \cup {None}]
Display ==
    /\ DOMAIN states = Chat
    /\ \A c \in Chat : states[c] = None \/ states[c] \in StateOf(Len(shown))
    /\ shown \in Seq(Message0)
    /\ finished \subseteq 1 .. turns /\ faults \in 0 .. MaxFaults

Types == Waiting /\ Leaving /\ Streaming /\ Running /\ Counted /\ Display

-----------------------------------------------------------------------------
\* Constants and sequences

LEMMA Constants ==
    ASSUME ConstantsAssumption
    PROVE  /\ MaxTurns \in Nat /\ MaxFaults \in Nat /\ MaxIterations \in Nat /\ Cap \in Nat
           /\ Cap > 0 /\ UserChats \subseteq Chat /\ DirectChats \subseteq AnyChat
           /\ None \notin AnyChat /\ Limit \in Nat \ {0}
           /\ Responses \subseteq Replies
BY DEF ConstantsAssumption, AnyChat, Replies

LEMMA LargerSeq ==
    ASSUME NEW S, NEW T, S \subseteq T, NEW s \in Seq(S)
    PROVE  s \in Seq(T)
OBVIOUS

\* What is added at the end, and what is left without the first
LEMMA Appended ==
    ASSUME NEW S, NEW q \in Seq(S), NEW e \in S
    PROVE  /\ Append(q, e) \in Seq(S) /\ Len(Append(q, e)) = Len(q) + 1
           /\ Len(q) \in Nat /\ DOMAIN q = 1 .. Len(q)
           /\ DOMAIN Append(q, e) = 1 .. Len(q) + 1
           /\ Append(q, e)[Len(q) + 1] = e
           /\ \A i \in 1 .. Len(q) : Append(q, e)[i] = q[i]
BY AppendProperties, LenProperties

LEMMA WithoutHead ==
    ASSUME NEW S, NEW q \in Seq(S), q # <<>>
    PROVE  /\ Head(q) = q[1] /\ Head(q) \in S /\ Tail(q) \in Seq(S)
           /\ Len(q) \in Nat /\ Len(q) > 0 /\ Len(Tail(q)) = Len(q) - 1
           /\ DOMAIN q = 1 .. Len(q) /\ DOMAIN Tail(q) = 1 .. Len(q) - 1
           /\ \A i \in 1 .. Len(q) - 1 : Tail(q)[i] = q[i + 1]
BY HeadTailProperties, LenProperties, ElementOfSeq, EmptySeq

\* More turns
LEMMA Grows ==
    ASSUME NEW n \in Nat, NEW m \in Nat, n <= m
    PROVE  /\ Arrived(n) \subseteq Arrived(m) /\ EventOf(n) \subseteq EventOf(m)
           /\ TurnOf(n) \subseteq TurnOf(m)
<1>1. 1 .. n \subseteq 1 .. m /\ 0 .. n \subseteq 0 .. m
  OBVIOUS
<1>2. Arrived(n) \subseteq Arrived(m) /\ EventOf(n) \subseteq EventOf(m)
  BY <1>1 DEF Arrived, EventOf
<1>3. Seq(EventOf(n)) \subseteq Seq(EventOf(m))
  BY <1>2, LargerSeq
<1>4. QED
  BY <1>1, <1>2, <1>3 DEF TurnOf

-----------------------------------------------------------------------------
\* Events of a turn

LEMMA OwnEvent ==
    ASSUME NEW t, NEW type \in EventType, NEW part \in Nat
    PROVE  Event(type, t, part) \in Own(t)
BY DEF Event, Own

LEMMA OwnIsEvent ==
    ASSUME NEW n \in Nat, NEW t, t.id \in 1 .. n, t.chat \in AnyChat
    PROVE  Own(t) \subseteq EventOf(n) /\ Seq(Own(t)) \subseteq Seq(EventOf(n))
<1>1. Own(t) \subseteq EventOf(n)
  BY DEF Own, EventOf
<1>2. QED
  BY <1>1, LargerSeq

LEMMA OneEvent ==
    ASSUME NEW t, NEW type \in EventType, NEW part \in Nat
    PROVE  /\ <<Event(type, t, part)>> \in Seq(Own(t))
           /\ Len(<<Event(type, t, part)>>) = 1
BY OwnEvent

\* The events of a turn that do not end it
Going(t) ==
    [type : EventType \ Terminals, chat : {t.chat}, turn : {t.id}, part : Nat, blanks : Nat]

LEMMA GoingIsOwn ==
    ASSUME NEW t
    PROVE  Going(t) \subseteq Own(t) /\ Seq(Going(t)) \subseteq Seq(Own(t))
<1>1. Going(t) \subseteq Own(t)
  BY DEF Going, Own
<1>2. QED
  BY <1>1, LargerSeq

LEMMA GoingEvent ==
    ASSUME NEW t, NEW type \in EventType \ Terminals, NEW part \in Nat
    PROVE  /\ Event(type, t, part) \in Going(t)
           /\ <<Event(type, t, part)>> \in Seq(Going(t))
<1>1. Event(type, t, part) \in Going(t)
  BY DEF Event, Going
<1> HIDE DEF Going
<1>2. QED
  BY <1>1

LEMMA TextQueue ==
    ASSUME NEW t, NEW part \in Nat, NEW n \in Nat, NEW b \in Nat
    PROVE  TextEvents(t, part, n, b) \in Seq(Going(t))
<1> DEFINE deltas == [i \in 1 .. n |-> Event("text-delta", t, part)]
<1>1. deltas \in Seq(Going(t))
  <2>1. Event("text-delta", t, part) \in Going(t)
    BY GoingEvent DEF EventType, Terminals
  <2> HIDE DEF Going
  <2>2. QED
    BY <2>1
<1>2. /\ <<Event("text-start", t, part)>> \in Seq(Going(t))
      /\ <<TextEnd(t, part, b)>> \in Seq(Going(t))
  <2>1. TextEnd(t, part, b) \in Going(t)
    BY DEF TextEnd, Event, Going, EventType, Terminals
  <2>2. <<Event("text-start", t, part)>> \in Seq(Going(t))
    BY GoingEvent DEF EventType, Terminals
  <2> HIDE DEF Going
  <2>3. QED
    BY <2>1, <2>2
<1>3. <<Event("text-start", t, part)>> \o deltas \o <<TextEnd(t, part, b)>>
        \in Seq(Going(t))
  BY <1>1, <1>2, ConcatProperties
<1>4. QED
  BY <1>3, EmptySeq DEF TextEvents

LEMMA ToolQueue ==
    ASSUME NEW t, NEW part \in Nat, NEW n \in Nat, NEW outcome \in {"tool-result", "tool-error"}
    PROVE  ToolEvents(t, part, n, outcome) \in Seq(Going(t))
<1> DEFINE types == <<"tool-input-start", "tool-call", outcome>>
           Kind(i) == types[((i - 1) % 3) + 1]
           Part(i) == part + ((i - 1) \div 3) + 1
<1>1. ASSUME NEW i \in 1 .. 3 * n PROVE Event(Kind(i), t, Part(i)) \in Going(t)
  <2>1. (i - 1) % 3 \in {0, 1, 2} /\ (i - 1) \div 3 \in Nat
    OBVIOUS
  <2>2. ((i - 1) % 3) + 1 \in {1, 2, 3} /\ Part(i) \in Nat
    BY <2>1
  <2>3. \A k \in {1, 2, 3} : types[k] \in EventType \ Terminals
    BY DEF EventType, Terminals
  <2> HIDE DEF types
  <2>4. Kind(i) \in EventType \ Terminals
    BY <2>2, <2>3
  <2>5. QED
    BY <2>2, <2>4, GoingEvent
<1>2. 3 * n \in Nat
  OBVIOUS
<1> HIDE DEF Kind, Part, Going
<1>3. [i \in 1 .. 3 * n |-> Event(Kind(i), t, Part(i))] \in Seq(Going(t))
  BY <1>1, <1>2
<1>4. QED
  BY <1>3 DEF ToolEvents, Kind, Part

\* The events of an iteration
LEMMA IterationQueue ==
    ASSUME NEW t, NEW part \in Nat, NEW r \in Replies,
           NEW outcome \in {"tool-result", "tool-error"}
    PROVE  LET q == <<Event("start-step", t, 0)>> \o TextEvents(t, part, r.chunks, r.blanks)
                    \o ToolEvents(t, part, r.calls, outcome) \o <<Event("finish-step", t, 0)>>
           IN  q \in Seq(Going(t)) /\ q \in Seq(Own(t))
<1> DEFINE q == <<Event("start-step", t, 0)>> \o TextEvents(t, part, r.chunks, r.blanks)
                \o ToolEvents(t, part, r.calls, outcome) \o <<Event("finish-step", t, 0)>>
<1>1. /\ TextEvents(t, part, r.chunks, r.blanks) \in Seq(Going(t))
      /\ ToolEvents(t, part, r.calls, outcome) \in Seq(Going(t))
  BY TextQueue, ToolQueue DEF Replies
<1>2. /\ <<Event("start-step", t, 0)>> \in Seq(Going(t))
      /\ <<Event("finish-step", t, 0)>> \in Seq(Going(t))
  BY GoingEvent DEF EventType, Terminals
<1>3. q \in Seq(Going(t))
  BY <1>1, <1>2, ConcatProperties
<1> HIDE DEF q
<1>4. q \in Seq(Own(t))
  BY <1>3, GoingIsOwn
<1>5. QED
  BY <1>3, <1>4 DEF q

-----------------------------------------------------------------------------
\* Stream states

LEMMA Fields ==
    ASSUME NEW m \in Nat, NEW s \in StateOf(m)
    PROVE  /\ s.parts \subseteq Parts /\ s.current \in Parts \cup {None}
           /\ s.step \in BOOLEAN /\ s.tools \in BOOLEAN /\ s.message \in 0 .. m
           /\ \A p, q \in s.parts : p.id = q.id => p = q
BY DEF StateOf

LEMMA FreshState ==
    ASSUME NEW m \in Nat
    PROVE  NewState \in StateOf(m)
<1>1. NewState \in [parts : SUBSET Parts, current : Parts \cup {None},
                    step : BOOLEAN, tools : BOOLEAN, message : 0 .. m]
  BY DEF NewState
<1>2. NewState.parts = {}
  BY DEF NewState
<1>3. QED
  BY <1>1, <1>2 DEF StateOf

LEMMA MoreMessages ==
    ASSUME NEW n \in Nat, NEW m \in Nat, n <= m, NEW s \in StateOf(n)
    PROVE  s \in StateOf(m)
<1>1. 0 .. n \subseteq 0 .. m
  OBVIOUS
<1>2. QED
  BY <1>1 DEF StateOf

\* The changes of a state that leave its parts alone
LEMMA MessageSet ==
    ASSUME NEW n \in Nat, NEW m \in Nat, n <= m, NEW s \in StateOf(n), NEW k \in 0 .. m
    PROVE  [s EXCEPT !.message = k] \in StateOf(m)
BY DEF StateOf

LEMMA FlagsSet ==
    ASSUME NEW n \in Nat, NEW s \in StateOf(n), NEW tools \in BOOLEAN
    PROVE  /\ [s EXCEPT !.current = None] \in StateOf(n)
           /\ [s EXCEPT !.step = TRUE] \in StateOf(n)
           /\ [s EXCEPT !.tools = tools] \in StateOf(n)
BY DEF StateOf

LEMMA PartAdded ==
    ASSUME NEW m \in Nat, NEW s \in StateOf(m), NEW p \in Parts
    PROVE  AddPart(s, p) \in StateOf(m)
BY DEF StateOf, AddPart

LEMMA CurrentSet ==
    ASSUME NEW m \in Nat, NEW s \in StateOf(m), NEW p \in Parts
    PROVE  [s EXCEPT !.current = p] \in StateOf(m)
BY DEF StateOf

\* The part a delta adds to, and what it becomes
Addressed(s, e) == CHOOSE p \in s.parts : p.id = e.part
Longer(s, e) == [Addressed(s, e) EXCEPT !.text = Append(@, <<e.turn, e.part>>)]

LEMMA DeltaAdded ==
    ASSUME NEW m \in Nat, NEW s \in StateOf(m), NEW e,
           e.turn \in TurnId, e.part \in Nat, MaxTurns \in Nat,
           \E p \in s.parts : p.id = e.part
    PROVE  /\ AddDelta(s, e) \in StateOf(m)
           /\ Addressed(s, e) \in s.parts
           /\ Longer(s, e).text = Append(Addressed(s, e).text, <<e.turn, e.part>>)
           /\ AddDelta(s, e) =
                [s EXCEPT !.parts = (s.parts \ {Addressed(s, e)}) \cup {Longer(s, e)},
                          !.current = IF s.current = Addressed(s, e) THEN Longer(s, e)
                                      ELSE s.current]
<1> DEFINE old == Addressed(s, e)
           new == Longer(s, e)
           later == [s EXCEPT !.parts = (s.parts \ {old}) \cup {new},
                              !.current = IF s.current = old THEN new ELSE s.current]
<1>1. old \in s.parts /\ old.id = e.part
  BY DEF Addressed
<1>2. old \in Parts
  BY <1>1, Fields
<1>3. <<e.turn, e.part>> \in (0 .. MaxTurns) \X Nat
  BY DEF TurnId
<1>4. Append(old.text, <<e.turn, e.part>>) \in Text
  <2>1. old.text \in Text
    BY <1>2 DEF Parts
  <2> HIDE DEF old
  <2>2. QED
    BY <2>1, <1>3 DEF Text
<1>5. new \in Parts /\ new.id = old.id
      /\ new.text = Append(old.text, <<e.turn, e.part>>)
  BY <1>2, <1>4 DEF Longer, Parts
<1>6. AddDelta(s, e) = later
  BY DEF AddDelta, Addressed, Longer, StateOf
<1> HIDE DEF old, new
<1>7. later \in StateOf(m)
  <2>1. later \in [parts : SUBSET Parts, current : Parts \cup {None},
                   step : BOOLEAN, tools : BOOLEAN, message : 0 .. m]
    BY <1>5 DEF StateOf
  <2>2. later.parts = (s.parts \ {old}) \cup {new}
    BY DEF StateOf
  <2>3. \A p, q \in s.parts : p.id = q.id => p = q
    BY Fields
  <2>4. \A p, q \in later.parts : p.id = q.id => p = q
    BY <1>1, <1>5, <2>2, <2>3
  <2>5. QED
    BY <2>1, <2>4 DEF StateOf
<1>8. QED
  BY <1>1, <1>5, <1>6, <1>7 DEF old, new

\* What is left of a text that is cut
LEMMA CutText ==
    ASSUME NEW text \in Text, NEW n \in Nat
    PROVE  /\ Cut(text, n) \in Text /\ Len(Cut(text, n)) = Least(n, Len(text))
           /\ DOMAIN Cut(text, n) \subseteq DOMAIN text
           /\ \A i \in DOMAIN Cut(text, n) : Cut(text, n)[i] = text[i]
<1> DEFINE S == (0 .. MaxTurns) \X Nat
           k == Least(n, Len(text))
<1>1. text \in Seq(S) /\ Len(text) \in Nat /\ DOMAIN text = 1 .. Len(text)
  BY LenProperties DEF Text
<1>2. k \in 0 .. Len(text) /\ 1 \in 1 .. Len(text) + 1 /\ k \in 1 - 1 .. Len(text)
  BY <1>1 DEF Least
<1>3. Cut(text, n) = SubSeq(text, 1, k)
  BY DEF Cut
<1> HIDE DEF S, k
<1>4. /\ SubSeq(text, 1, k) \in Seq(S) /\ Len(SubSeq(text, 1, k)) = (k - 1) + 1
      /\ \A i \in 1 .. (k - 1) + 1 : SubSeq(text, 1, k)[i] = text[(1 + i) - 1]
  BY <1>1, <1>2, SubSeqProperties
<1>5. (k - 1) + 1 = k /\ \A i \in 1 .. k : (1 + i) - 1 = i /\ i \in DOMAIN text
  BY <1>1, <1>2
<1>6. DOMAIN SubSeq(text, 1, k) = 1 .. k
  BY <1>4, <1>5, LenProperties
<1>7. QED
  BY <1>3, <1>4, <1>5, <1>6 DEF k, S, Text

\* A part whose text is trimmed
LEMMA Trimmed ==
    ASSUME NEW p \in Parts, NEW e, e.blanks \in Nat
    PROVE  /\ Trim(p, e) \in Parts /\ Trim(p, e).id = p.id /\ Trim(p, e).kind = p.kind
           /\ \E k \in Nat : Trim(p, e).text = Cut(p.text, k)
           /\ Len(Trim(p, e).text) \in Nat /\ Len(p.text) \in Nat
           /\ Len(Trim(p, e).text) >= Len(p.text) - e.blanks
<1>1. p.text \in Text /\ Len(p.text) \in Nat
  BY LenProperties DEF Parts, Text
<1> DEFINE n == Len(p.text) - Least(e.blanks, Len(p.text))
<1>2. n \in Nat /\ n <= Len(p.text) /\ n >= Len(p.text) - e.blanks
  BY <1>1 DEF Least
<1>3. CASE p.id = e.part
  <2>1. Trim(p, e) = [p EXCEPT !.text = Cut(p.text, n)]
    BY <1>3 DEF Trim
  <2> HIDE DEF n
  <2>2. Cut(p.text, n) \in Text /\ Len(Cut(p.text, n)) = n
    BY <1>1, <1>2, CutText DEF Least
  <2>3. QED
    BY <1>1, <1>2, <2>1, <2>2 DEF Parts
<1>4. CASE p.id # e.part
  <2>1. Trim(p, e) = p
    BY <1>4 DEF Trim
  <2>2. Cut(p.text, Len(p.text)) = p.text
    <3>1. /\ Cut(p.text, Len(p.text)) \in Text
          /\ Len(Cut(p.text, Len(p.text))) = Len(p.text)
          /\ \A i \in DOMAIN Cut(p.text, Len(p.text)) : Cut(p.text, Len(p.text))[i] = p.text[i]
      BY <1>1, CutText DEF Least
    <3> HIDE DEF n
    <3>2. QED
      BY <1>1, <3>1, SeqEqual, LenProperties DEF Text
  <2>3. QED
    BY <1>1, <2>1, <2>2
<1>5. QED
  BY <1>3, <1>4

\* The state that a text-end leaves
TextEnded(e, s) == [s EXCEPT !.parts = {Trim(p, e) : p \in @}, !.current = None]

LEMMA PartsTrimmed ==
    ASSUME NEW m \in Nat, NEW s \in StateOf(m), NEW e, e.blanks \in Nat
    PROVE  LET x == TextEnded(e, s) IN
           /\ x \in StateOf(m) /\ x.parts = {Trim(p, e) : p \in s.parts} /\ x.current = None
           /\ x.message = s.message /\ x.tools = s.tools /\ x.step = s.step
<1> DEFINE parts == {Trim(p, e) : p \in s.parts}
           x == TextEnded(e, s)
<1>1. s.parts \subseteq Parts /\ \A p, q \in s.parts : p.id = q.id => p = q
  BY Fields
<1>2. parts \subseteq Parts
  BY <1>1, Trimmed
<1>3. \A p, q \in parts : p.id = q.id => p = q
  BY <1>1, Trimmed
<1>4. x = [s EXCEPT !.parts = parts, !.current = None]
  BY DEF TextEnded
<1> HIDE DEF parts, x
<1>5. x \in StateOf(m) /\ x.parts = parts /\ x.current = None
      /\ x.message = s.message /\ x.tools = s.tools /\ x.step = s.step
  BY <1>2, <1>3, <1>4 DEF StateOf
<1>6. QED
  BY <1>5 DEF x, parts

LEMMA FinalTextsTyped ==
    ASSUME NEW m \in Nat, NEW s \in StateOf(m), NEW text \in FinalTexts(s)
    PROVE  text \in Text
<1>1. s.parts \subseteq Parts /\ s.current \in Parts \cup {None}
  BY Fields
<1>2. Texts(s) \subseteq Text
  BY <1>1 DEF Texts, Parts
<1>3. <<>> \in Text
  BY DEF Text
<1>4. QED
  BY <1>1, <1>2, <1>3 DEF FinalTexts, Parts

\* The texts that may be shown for a state
Showable(s) == {Cut(text, Limit) : text \in FinalTexts(s)}

LEMMA ShowableTyped ==
    ASSUME ConstantsAssumption, NEW m \in Nat, NEW s \in StateOf(m), NEW text \in Showable(s)
    PROVE  text \in Text
BY Constants, FinalTextsTyped, CutText DEF Showable

-----------------------------------------------------------------------------
\* Turns

LEMMA Turn ==
    ASSUME ConstantsAssumption, Running, Counted, NEW a \in Agent
    PROVE  LET t == turn[a] IN
           /\ t \in TurnOf(turns) /\ TurnOk(t, answer) /\ t.chat \in Served(a)
           /\ t.queue \in Seq(Own(t)) /\ t.queue \in Seq(EventOf(turns))
           /\ t.part \in Nat /\ t.iteration \in 0 .. MaxIterations /\ t.id \in 0 .. turns
           /\ t.stage # "idle" => t.id \in 1 .. turns /\ t.id \in TurnId /\ t.chat \in AnyChat
BY Constants DEF Running, Counted, TurnOf, TurnOk, TurnId

\* A step changes one turn; answers may be added
LEMMA OneTurn ==
    ASSUME ConstantsAssumption, Running, Counted, NEW a \in Agent, NEW u,
           turn' = [turn EXCEPT ![a] = u], turns' \in Nat, turns <= turns',
           u \in TurnOf(turns'), TurnOk(u, answer'), u.chat \in Served(a),
           \A t \in TurnId : answer[t] \in Text => answer'[t] \in Text
    PROVE  Running'
<1>1. turns \in Nat /\ TurnOf(turns) \subseteq TurnOf(turns')
  BY Constants, Grows DEF Counted
<1>2. turn' \in [Agent -> TurnOf(turns')]
  BY <1>1 DEF Running
<1>3. ASSUME NEW b \in Agent PROVE TurnOk(turn[b], answer')
  <2>1. TurnOk(turn[b], answer) /\ (turn[b].stage # "idle" => turn[b].id \in TurnId)
    BY Turn
  <2>2. QED
    BY <2>1 DEF TurnOk
<1>4. \A b \in Agent : turn'[b] = IF b = a THEN u ELSE turn[b]
  BY DEF Running
<1>5. \A b \in Agent : TurnOk(turn'[b], answer') /\ turn'[b].chat \in Served(b)
  BY <1>3, <1>4 DEF Running
<1>6. QED
  BY <1>2, <1>5 DEF Running

\* A goroutine begins a turn
LEMMA Begun ==
    ASSUME ConstantsAssumption, Types, NEW a \in Agent, NEW t \in 1 .. turns', NEW c \in AnyChat,
           c \in Served(a), turns' \in Nat, turns <= turns', answer' = answer, Begin(a, t, c)
    PROVE  Running'
<1> DEFINE new == [Idle EXCEPT !.stage = "iterate", !.id = t, !.chat = c]
           queue == <<Event("start", new, 0), Event("start-step", new, 0)>>
           u == [new EXCEPT !.queue = queue]
<1>1. turn' = [turn EXCEPT ![a] = u]
  BY DEF Begin
<1>2. new.id = t /\ new.chat = c
  BY DEF Idle
<1>3. Event("start", new, 0) \in Own(new) /\ Event("start-step", new, 0) \in Own(new)
  BY OwnEvent DEF EventType
<1>4. queue \in Seq(Own(new))
  <2> HIDE DEF new
  <2>1. QED
    BY <1>3
<1>5. Own(u) = Own(new)
  BY DEF Own, Idle
<1>6. queue \in Seq(EventOf(turns'))
  <2>1. Seq(Own(new)) \subseteq Seq(EventOf(turns'))
    BY <1>2, OwnIsEvent
  <2> HIDE DEF queue, new
  <2>2. QED
    BY <1>4, <2>1
<1>7. u.stage = "iterate" /\ u.id = t /\ u.chat = c /\ u.queue = queue
  BY DEF Idle
<1>8. u \in TurnOf(turns') /\ TurnOk(u, answer') /\ u.chat \in Served(a)
  <2>1. 0 \in 0 .. MaxIterations /\ t \in 0 .. turns' /\ t > 0
    BY Constants
  <2>2. queue \in Seq(Own(u))
    BY <1>4, <1>5
  <2>3. new \in TurnOf(turns')
    <3>1. <<>> \in Seq(EventOf(turns'))
      OBVIOUS
    <3> HIDE DEF queue
    <3>2. Idle \in TurnOf(turns')
      BY <2>1, <3>1 DEF Idle, TurnOf
    <3> QED
      BY <2>1, <3>2 DEF TurnOf
  <2> HIDE DEF queue, new
  <2>4. u \in TurnOf(turns')
    BY <1>6, <2>3 DEF TurnOf
  <2> HIDE DEF u
  <2>5. QED
    BY <1>7, <2>1, <2>2, <2>4 DEF TurnOk
<1> HIDE DEF u
<1>9. QED
  BY <1>1, <1>8, OneTurn DEF Types

\* A turn publishes the next of its events
LEMMA Published ==
    ASSUME ConstantsAssumption, Types, NEW a \in Agent, PublishStream(a)
    PROVE  Running' /\ Streaming'
<1> DEFINE t == turn[a]
           u == [t EXCEPT !.queue = Tail(@)]
<1>1. /\ t \in TurnOf(turns) /\ TurnOk(t, answer) /\ t.chat \in Served(a)
      /\ t.queue \in Seq(Own(t)) /\ t.queue \in Seq(EventOf(turns)) /\ t.queue # <<>>
  BY Turn DEF Types, PublishStream
<1>2. turn' = [turn EXCEPT ![a] = u] /\ UNCHANGED <<turns, answer>>
  BY DEF PublishStream
<1>3. /\ u.stage = t.stage /\ u.id = t.id /\ u.chat = t.chat /\ u.queue = Tail(t.queue)
      /\ Own(u) = Own(t)
  BY <1>1 DEF TurnOf, Own
<1> HIDE DEF t
<1>4. /\ Tail(t.queue) \in Seq(Own(t)) /\ Tail(t.queue) \in Seq(EventOf(turns))
      /\ Head(t.queue) \in EventOf(turns)
      /\ Len(t.queue) \in Nat /\ Len(t.queue) > 0 /\ Len(Tail(t.queue)) = Len(t.queue) - 1
      /\ \A i \in 1 .. Len(t.queue) - 1 : Tail(t.queue)[i] = t.queue[i + 1]
  BY <1>1, WithoutHead
<1>5. Tail(t.queue) # <<>> => Tail(t.queue)[Len(Tail(t.queue))] = t.queue[Len(t.queue)]
  BY <1>4, EmptySeq
<1>6. u \in TurnOf(turns)
  BY <1>1, <1>4 DEF TurnOf
<1> HIDE DEF u
<1>7. TurnOk(u, answer)
  BY <1>1, <1>3, <1>4, <1>5 DEF TurnOk
<1>8. Running'
  <2>1. turns \in Nat
    BY Constants DEF Types, Counted
  <2>2. turns' = turns /\ answer' = answer /\ u.chat \in Served(a)
    BY <1>1, <1>2, <1>3
  <2>3. /\ u \in TurnOf(turns') /\ TurnOk(u, answer') /\ turns' \in Nat /\ turns <= turns'
        /\ \A n \in TurnId : answer[n] \in Text => answer'[n] \in Text
    BY <1>6, <1>7, <2>1, <2>2
  <2>4. QED
    BY <1>2, <2>2, <2>3, OneTurn DEF Types
<1>9. Streaming'
  <2>1. /\ stream' = Append(stream, Head(t.queue)) /\ stream \in Seq(EventOf(turns))
        /\ Len(stream) < Cap /\ Cap \in Nat /\ turns' = turns
    BY Constants DEF PublishStream, Types, Streaming, t
  <2>2. /\ stream' \in Seq(EventOf(turns)) /\ Len(stream') = Len(stream) + 1
        /\ Len(stream) \in Nat
    BY <1>4, <2>1, Appended
  <2>3. QED
    BY <2>1, <2>2 DEF Streaming
<1>10. QED
  BY <1>8, <1>9

\* A turn moves on with the events it has to publish next
LEMMA Moved ==
    ASSUME ConstantsAssumption, Types, NEW a \in Agent, turn[a].stage # "idle",
           NEW u \in TurnOf(turns), turn' = [turn EXCEPT ![a] = u], turns' = turns,
           u.stage # "idle", u.id = turn[a].id, u.chat = turn[a].chat,
           u.queue \in Seq(Own(turn[a])),
           u.stage \in {"finish", "reply"} => answer'[u.id] \in Text,
           u.stage = "reply" /\ u.queue # <<>> => u.queue[Len(u.queue)].type \in Terminals,
           \A t \in TurnId : answer[t] \in Text => answer'[t] \in Text
    PROVE  Running'
<1>1. /\ turn[a].id > 0 /\ turn[a].chat \in AnyChat /\ turn[a].chat \in Served(a)
  BY Turn DEF Types, TurnOk
<1>2. u.queue \in Seq(Own(u))
  BY DEF Own
<1>3. TurnOk(u, answer')
  BY <1>1, <1>2 DEF TurnOk
<1>4. turns \in Nat
  BY Constants DEF Types, Counted
<1>5. /\ u \in TurnOf(turns') /\ u.chat \in Served(a) /\ turns' \in Nat /\ turns <= turns'
  BY <1>1, <1>4
<1>6. QED
  BY <1>3, <1>5, OneTurn DEF Types

\* Answers are texts
LEMMA Answered ==
    ASSUME Counted, NEW n \in TurnId, NEW text \in Text, turns' = turns,
           answer' = [answer EXCEPT ![n] = text]
    PROVE  /\ Counted' /\ answer'[n] \in Text
           /\ \A t \in TurnId : answer[t] \in Text => answer'[t] \in Text
BY DEF Counted

LEMMA Answers ==
    ASSUME ConstantsAssumption
    PROVE  /\ Default \in Text /\ Failure \in Text
           /\ \A n \in TurnId \cup {0} : \A part, k \in Nat : Chunks(n, part, k) \in Text
<1>1. MaxTurns \in Nat
  BY Constants
<1>2. <<0, 0>> \in (0 .. MaxTurns) \X Nat /\ <<0, 1>> \in (0 .. MaxTurns) \X Nat
  BY <1>1
<1>3. Default \in Text /\ Failure \in Text
  BY <1>2 DEF Default, Failure, Text
<1>4. ASSUME NEW n \in TurnId \cup {0}, NEW part \in Nat, NEW k \in Nat
      PROVE  Chunks(n, part, k) \in Text
  <2>1. <<n, part>> \in (0 .. MaxTurns) \X Nat
    BY <1>1 DEF TurnId
  <2>2. QED
    BY <2>1 DEF Chunks, Text
<1>5. QED
  BY <1>3, <1>4

LEMMA Iterated ==
    ASSUME ConstantsAssumption, Types, NEW a \in Agent, Iterate(a)
    PROVE  Running' /\ Counted'
<1> DEFINE t == turn[a]
<1>1. /\ t \in TurnOf(turns) /\ TurnOk(t, answer) /\ t.part \in Nat /\ t.stage = "iterate"
      /\ t.iteration \in 0 .. MaxIterations /\ t.iteration < MaxIterations
      /\ t.id \in 1 .. turns /\ t.id \in TurnId /\ t.chat \in AnyChat
  BY Turn DEF Types, Iterate
<1>2. turns' = turns
  BY DEF Iterate
<1>3. PICK r \in Responses, outcome \in {"tool-result", "tool-error"} :
         LET textPart == IF r.chunks = 0 THEN t.part ELSE t.part + 1 IN
         /\ turn' = [turn EXCEPT ![a].iteration = @ + 1,
                       ![a].part = textPart + r.calls,
                       ![a].stage = IF r.calls = 0 THEN "finish" ELSE "iterate",
                       ![a].queue = <<Event("start-step", t, 0)>>
                                    \o TextEvents(t, textPart, r.chunks, r.blanks)
                                    \o ToolEvents(t, textPart, r.calls, outcome)
                                    \o <<Event("finish-step", t, 0)>>]
         /\ answer' = IF r.calls = 0
                      THEN [answer EXCEPT ![t.id] = IF r.chunks = 0 THEN Default
                                                    ELSE Chunks(t.id, textPart, r.chunks - r.blanks)]
                      ELSE answer
  BY DEF Iterate
<1>4. r \in Replies
  BY Constants
<1> DEFINE textPart == IF r.chunks = 0 THEN t.part ELSE t.part + 1
           q == <<Event("start-step", t, 0)>> \o TextEvents(t, textPart, r.chunks, r.blanks)
                \o ToolEvents(t, textPart, r.calls, outcome) \o <<Event("finish-step", t, 0)>>
           stage == IF r.calls = 0 THEN "finish" ELSE "iterate"
           u == [t EXCEPT !.iteration = @ + 1, !.part = textPart + r.calls, !.stage = stage,
                          !.queue = q]
           text == IF r.chunks = 0 THEN Default ELSE Chunks(t.id, textPart, r.chunks - r.blanks)
<1>5. textPart \in Nat
  BY <1>1, <1>4
<1>6. q \in Seq(Own(t))
  BY <1>4, <1>5, IterationQueue
<1>7. turn' = [turn EXCEPT ![a] = u]
  <2> HIDE DEF q, textPart, stage
  <2>1. turn' = [turn EXCEPT ![a].iteration = @ + 1, ![a].part = textPart + r.calls,
                             ![a].stage = stage, ![a].queue = q]
    BY <1>3 DEF q, textPart, stage
  <2>2. QED
    BY <2>1 DEF Types, Running
<1>8. answer' = IF r.calls = 0 THEN [answer EXCEPT ![t.id] = text] ELSE answer
  BY <1>3
<1>9. text \in Text
  BY <1>1, <1>4, <1>5, Answers
<1>10. q \in Seq(EventOf(turns))
  <2>1. Seq(Own(t)) \subseteq Seq(EventOf(turns))
    <3> HIDE DEF t
    <3>1. QED
      BY <1>1, OwnIsEvent, Constants DEF Types, Counted
  <2> HIDE DEF q
  <2>2. QED
    BY <1>6, <2>1
<1> HIDE DEF q, textPart, stage, text
<1>11. u \in TurnOf(turns)
  <2>1. t.iteration + 1 \in 0 .. MaxIterations /\ textPart + r.calls \in Nat
    BY <1>1, <1>4, <1>5, Constants
  <2>2. stage \in {"idle", "iterate", "finish", "reply"}
    BY DEF stage
  <2>3. QED
    BY <1>1, <1>10, <2>1, <2>2 DEF TurnOf
<1>12. u.stage = stage /\ u.id = t.id /\ u.chat = t.chat /\ u.queue = q
  BY <1>1 DEF TurnOf
<1> HIDE DEF u
<1>13. /\ Counted' /\ (r.calls = 0 => answer'[t.id] \in Text)
       /\ \A n \in TurnId : answer[n] \in Text => answer'[n] \in Text
  BY <1>1, <1>2, <1>8, <1>9, Answered DEF Types, Counted
<1>14. Running'
  <2>1. u.stage \in {"finish", "iterate"} /\ (u.stage = "finish" => r.calls = 0)
    BY <1>12 DEF stage
  <2>2. QED
    BY <1>1, <1>2, <1>6, <1>7, <1>11, <1>12, <1>13, <2>1, Moved
<1>15. QED
  BY <1>13, <1>14

\* The same, with the turn's stage and queue
LEMMA MovedTo ==
    ASSUME ConstantsAssumption, Types, NEW a \in Agent, turn[a].stage # "idle",
           NEW q \in Seq(Own(turn[a])), NEW stage \in {"finish", "reply"},
           turn' = [turn EXCEPT ![a].stage = stage, ![a].queue = q], turns' = turns,
           stage = "reply" /\ q # <<>> => q[Len(q)].type \in Terminals,
           answer'[turn[a].id] \in Text,
           \A t \in TurnId : answer[t] \in Text => answer'[t] \in Text
    PROVE  Running'
<1> DEFINE t == turn[a]
           u == [t EXCEPT !.stage = stage, !.queue = q]
<1>1. /\ t \in TurnOf(turns) /\ t.id \in 1 .. turns /\ t.id \in TurnId /\ t.chat \in AnyChat
      /\ turns \in Nat
  BY Turn, Constants DEF Types, Counted
<1>2. turn' = [turn EXCEPT ![a] = u]
  BY DEF Types, Running
<1> HIDE DEF t
<1>3. Seq(Own(t)) \subseteq Seq(EventOf(turns))
  BY <1>1, OwnIsEvent
<1>4. q \in Seq(EventOf(turns))
  BY <1>3 DEF t
<1>5. u \in TurnOf(turns) /\ u.stage = stage /\ u.queue = q /\ u.id = t.id /\ u.chat = t.chat
  BY <1>1, <1>4 DEF TurnOf
<1> USE DEF t
<1> HIDE DEF u
<1>6. QED
  BY <1>2, <1>5, Moved

LEMMA Failing ==
    ASSUME ConstantsAssumption, Types, NEW a \in Agent, LlmFails(a)
    PROVE  Running' /\ Counted'
<1> DEFINE t == turn[a]
           q == <<Event("start-step", t, 0), Event("error", t, 0), Event("error", t, 0)>>
<1>1. /\ t.stage = "iterate" /\ turns' = turns /\ t.id \in TurnId
      /\ turn' = [turn EXCEPT ![a].stage = "reply", ![a].queue = q]
      /\ answer' = [answer EXCEPT ![t.id] = Failure]
  BY Turn DEF LlmFails, Types
<1>2. q \in Seq(Own(t)) /\ Len(q) = 3 /\ q[3].type = "error"
  <2>1. Event("start-step", t, 0) \in Own(t) /\ Event("error", t, 0) \in Own(t)
    BY OwnEvent DEF EventType
  <2>2. Event("error", t, 0).type = "error"
    BY DEF Event
  <2> HIDE DEF t
  <2>3. QED
    BY <2>1, <2>2
<1> HIDE DEF q
<1>3. /\ Counted' /\ answer'[t.id] \in Text
      /\ \A n \in TurnId : answer[n] \in Text => answer'[n] \in Text
  BY <1>1, Answers, Answered DEF Types
<1>4. q[Len(q)].type \in Terminals
  BY <1>2 DEF Terminals
<1>5. QED
  BY <1>1, <1>2, <1>3, <1>4, MovedTo

LEMMA Exhausted ==
    ASSUME ConstantsAssumption, Types, NEW a \in Agent, IterationsExhausted(a)
    PROVE  Running' /\ Counted'
<1> DEFINE t == turn[a]
<1>1. /\ t.stage = "iterate" /\ turns' = turns /\ t.queue \in Seq(Own(t))
      /\ t \in TurnOf(turns) /\ t.id \in TurnId
      /\ turn' = [turn EXCEPT ![a].stage = "finish"]
      /\ answer' = [answer EXCEPT ![t.id] = Default]
  BY Turn DEF IterationsExhausted, Types
<1>2. turn' = [turn EXCEPT ![a].stage = "finish", ![a].queue = t.queue]
  BY <1>1 DEF TurnOf, Types, Running
<1>3. /\ Counted' /\ answer'[t.id] \in Text
      /\ \A n \in TurnId : answer[n] \in Text => answer'[n] \in Text
  BY <1>1, Answers, Answered DEF Types
<1>4. QED
  BY <1>1, <1>2, <1>3, MovedTo

LEMMA Finishing ==
    ASSUME ConstantsAssumption, Types, NEW a \in Agent, Finish(a)
    PROVE  Running'
<1> DEFINE t == turn[a]
           q == <<Event("finish", t, 0)>>
<1>1. /\ t.stage = "finish" /\ turns' = turns /\ answer' = answer /\ t.id \in TurnId
      /\ turn' = [turn EXCEPT ![a].stage = "reply", ![a].queue = q]
  BY Turn DEF Finish, Types
<1>2. q \in Seq(Own(t)) /\ Len(q) = 1 /\ q[1].type = "finish"
  <2>1. q \in Seq(Own(t)) /\ Len(q) = 1
    BY OneEvent DEF EventType
  <2>2. QED
    BY <2>1 DEF Event
<1> HIDE DEF q
<1>3. answer'[t.id] \in Text
  BY <1>1, Turn DEF Types, TurnOk
<1>4. q[Len(q)].type \in Terminals
  BY <1>2 DEF Terminals
<1>5. QED
  BY <1>1, <1>2, <1>3, <1>4, MovedTo

LEMMA Returning ==
    ASSUME ConstantsAssumption, Types, NEW a \in Agent, Return(a)
    PROVE  Running' /\ Leaving'
<1> DEFINE t == turn[a]
<1>1. /\ turn' = [turn EXCEPT ![a] = Idle] /\ turns' = turns /\ answer' = answer
      /\ t.stage = "reply"
  BY DEF Return
<1>2. t.id \in TurnId /\ t.chat \in AnyChat /\ answer[t.id] \in Text /\ turns \in Nat
  BY <1>1, Turn, Constants DEF Types, TurnOk, Counted
<1>3. Idle \in TurnOf(turns) /\ TurnOk(Idle, answer) /\ Idle.chat \in Served(a)
  <2>1. 0 \in 0 .. turns /\ 0 \in 0 .. MaxIterations
    BY <1>2, Constants
  <2>2. <<>> \in Seq(EventOf(turns)) /\ <<>> \in Seq(Own(Idle))
    OBVIOUS
  <2>3. Idle \in TurnOf(turns)
    BY <2>1, <2>2 DEF Idle, TurnOf
  <2>4. Idle.stage = "idle" /\ Idle.queue = <<>> /\ Idle.chat = None
    BY DEF Idle
  <2>5. QED
    BY <2>2, <2>3, <2>4 DEF TurnOk, Served
<1>4. Running'
  <2>1. /\ Idle \in TurnOf(turns') /\ TurnOk(Idle, answer') /\ turns' \in Nat /\ turns <= turns'
        /\ \A n \in TurnId : answer[n] \in Text => answer'[n] \in Text
    BY <1>1, <1>2, <1>3
  <2>2. QED
    BY <1>1, <1>3, <2>1, OneTurn DEF Types
<1>5. Leaving'
  <2>1. CASE outbound' = outbound
    BY <2>1 DEF Types, Leaving
  <2>2. CASE /\ Len(outbound) < Cap
             /\ outbound' = Append(outbound, [chat |-> t.chat, id |-> t.id, text |-> answer[t.id]])
    <3>1. [chat |-> t.chat, id |-> t.id, text |-> answer[t.id]] \in Outgoing
      BY <1>2 DEF Outgoing
    <3>2. outbound \in Seq(Outgoing) /\ Cap \in Nat
      BY Constants DEF Types, Leaving
    <3>3. QED
      BY <2>2, <3>1, <3>2, Appended DEF Leaving
  <2>3. QED
    BY <2>1, <2>2 DEF Return
<1>6. QED
  BY <1>4, <1>5

-----------------------------------------------------------------------------
\* The stream goroutine

\* What it is given: an event of a chat and the state of the chat
Given(e, s) ==
    /\ e \in EventOf(turns) /\ e.chat \in Chat
    /\ s \in StateOf(Len(shown))

LEMMA GivenFields ==
    ASSUME ConstantsAssumption, Counted, Display, NEW e, NEW s, Given(e, s)
    PROVE  /\ e.type \in EventType /\ e.chat \in Chat /\ e.turn \in 1 .. turns /\ e.turn \in TurnId
           /\ e.part \in Nat /\ e.blanks \in Nat
           /\ Len(shown) \in Nat /\ shown \in Seq(Message0)
           /\ turns \in Nat /\ MaxTurns \in Nat /\ MaxFaults \in Nat
BY Constants, LenProperties DEF Given, EventOf, Counted, Display, TurnId

\* One chat's state changes; messages are added
LEMMA OneState ==
    ASSUME ConstantsAssumption, Display, NEW c \in Chat, NEW s,
           states' = [states EXCEPT ![c] = s], s = None \/ s \in StateOf(Len(shown')),
           shown' \in Seq(Message0), Len(shown) <= Len(shown'),
           finished' \subseteq 1 .. turns', faults' \in 0 .. MaxFaults
    PROVE  Display'
<1>1. Len(shown) \in Nat /\ Len(shown') \in Nat
  BY LenProperties DEF Display
<1>2. \A d \in Chat : states[d] = None \/ states[d] \in StateOf(Len(shown'))
  BY <1>1, MoreMessages DEF Display
<1>3. DOMAIN states' = Chat /\ \A d \in Chat : states'[d] = IF d = c THEN s ELSE states[d]
  BY DEF Display
<1>4. QED
  BY <1>2, <1>3 DEF Display

\* What handling an event may do to the messages: one of them is edited, another is sent
Rewritten(x, y, i, t, text) ==
    /\ y \in Seq(Message0) /\ Len(x) <= Len(y) /\ Len(y) <= Len(x) + 1
    /\ \A m \in 1 .. Len(x) :
         /\ y[m].turn = x[m].turn
         /\ y[m] = x[m] \/ (m = i /\ y[m].text \in {text, <<>>})
    /\ Len(y) > Len(x) => y[Len(y)].turn = t /\ y[Len(y)].text = text

LEMMA Unwritten ==
    ASSUME NEW x \in Seq(Message0), NEW i, NEW t, NEW text
    PROVE  Rewritten(x, x, i, t, text)
BY LenProperties DEF Rewritten

LEMMA Sent ==
    ASSUME NEW x \in Seq(Message0), NEW i, NEW m \in Message0
    PROVE  Rewritten(x, Append(x, m), i, m.turn, m.text)
BY Appended DEF Rewritten

\* The text of a message is edited, and perhaps its form
Like(x, y, i, text) ==
    /\ y \in Seq(Message0) /\ Len(y) = Len(x)
    /\ \A m \in 1 .. Len(x) : y[m].turn = x[m].turn /\ (m # i => y[m] = x[m])
    /\ y[i].text = text

Edit(x, i, text, form) == [x EXCEPT ![i].text = text, ![i].form = form]

LEMMA Edited ==
    ASSUME NEW x \in Seq(Message0), NEW i \in 1 .. Len(x), NEW text \in Text, NEW form \in Forms
    PROVE  /\ Like(x, Edit(x, i, text, form), i, text)
           /\ Edit(x, i, text, form)[i].form = form
<1>1. x[i] \in Message0
  BY ElementOfSeq
<1> DEFINE c == [x[i] EXCEPT !.text = text, !.form = form]
           y == Edit(x, i, text, form)
<1>2. c \in Message0 /\ c.turn = x[i].turn /\ c.text = text /\ c.form = form
  BY <1>1 DEF Message0
<1>3. y = [x EXCEPT ![i] = c]
  BY DEF Edit
<1> HIDE DEF c, y
<1>4. Like(x, y, i, text) /\ y[i].form = form
  <2>1. y \in Seq(Message0) /\ Len(y) = Len(x)
    BY <1>2, <1>3
  <2>2. \A m \in 1 .. Len(x) : y[m] = IF m = i THEN c ELSE x[m]
    BY <1>3, LenProperties
  <2>3. QED
    BY <1>2, <2>1, <2>2 DEF Like
<1>5. QED
  BY <1>4 DEF y

LEMMA LikeRewritten ==
    ASSUME NEW x \in Seq(Message0), NEW i, NEW text, NEW t, NEW y, Like(x, y, i, text)
    PROVE  Rewritten(x, y, i, t, text)
<1>1. Len(x) \in Nat
  BY LenProperties
<1>2. QED
  BY <1>1 DEF Like, Rewritten

\* A new message is sent and the one it replaces deleted
LEMMA Replaced ==
    ASSUME NEW x \in Seq(Message0), NEW i \in 1 .. Len(x), NEW m \in Message0, NEW y,
           y = [Append(x, m) EXCEPT ![i].text = <<>>, ![i].form = "deleted"]
    PROVE  Rewritten(x, y, i, m.turn, m.text) /\ Len(y) = Len(x) + 1
<1> DEFINE z == Append(x, m)
<1>1. /\ z \in Seq(Message0) /\ Len(z) = Len(x) + 1 /\ Len(x) \in Nat /\ z[Len(x) + 1] = m
      /\ \A k \in 1 .. Len(x) : z[k] = x[k]
  BY Appended
<1>2. <<>> \in Text /\ "deleted" \in Forms /\ i \in 1 .. Len(z)
  BY <1>1 DEF Text, Forms
<1>3. y = [z EXCEPT ![i].text = <<>>, ![i].form = "deleted"]
  OBVIOUS
<1> HIDE DEF z
<1>4. /\ Like(z, y, i, <<>>) /\ Len(y) = Len(z) /\ y[i].text = <<>> /\ y \in Seq(Message0)
      /\ \A k \in 1 .. Len(z) : y[k].turn = z[k].turn /\ (k # i => y[k] = z[k])
  <2>1. \A form \in Forms : Like(z, [z EXCEPT ![i].text = <<>>, ![i].form = form], i, <<>>)
    BY <1>1, <1>2, Edited DEF Edit
  <2>2. Like(z, y, i, <<>>)
    BY <1>2, <1>3, <2>1
  <2>3. QED
    BY <2>2 DEF Like
<1>5. y[Len(y)] = m
  <2>1. Len(x) + 1 \in 1 .. Len(z) /\ Len(x) + 1 # i
    BY <1>1
  <2>2. y[Len(x) + 1] = m
    BY <1>1, <1>4, <2>1
  <2>3. QED
    BY <1>1, <1>4, <2>2
<1>6. \A k \in 1 .. Len(x) : y[k].turn = x[k].turn /\ (y[k] = x[k] \/ (k = i /\ y[k].text = <<>>))
  BY <1>1, <1>4
<1>7. QED
  BY <1>1, <1>4, <1>5, <1>6 DEF Rewritten

\* updateStreamMessage: the messages, and the state's message
LEMMA Updated ==
    ASSUME ConstantsAssumption, Counted, Display, NEW e, NEW s, Given(e, s), Update(e, s)
    PROVE  \E text \in Showable(s), m \in 0 .. Len(shown') :
             /\ Rewritten(shown, shown', s.message, e.turn, text)
             /\ m = s.message \/ (m = Len(shown') /\ Len(shown') = Len(shown) + 1)
             /\ states' = [states EXCEPT ![e.chat] = [s EXCEPT !.message = m]]
             /\ faults' \in 0 .. MaxFaults
<1> DEFINE new(text) == Message(e.chat, e.turn, text, Form(s))
           Save(m) == states' = [states EXCEPT ![e.chat] = [s EXCEPT !.message = m]]
<1> HIDE DEF new, Save
<1>0. PICK final \in FinalTexts(s) :
        LET text == Cut(final, Limit) IN
        IF ~s.step /\ ~s.tools /\ final = <<>>
        THEN Save(s.message) /\ UNCHANGED <<shown, faults>>
        ELSE IF s.message = 0
        THEN shown' = Append(shown, new(text)) /\ Save(Len(shown) + 1) /\ UNCHANGED faults
        ELSE \/ /\ shown' = [shown EXCEPT ![s.message].text = text,
                                          ![s.message].form = Form(s)]
                /\ Save(s.message)
                /\ UNCHANGED faults
             \/ /\ faults < MaxFaults
                /\ faults' = faults + 1
                /\ shown' = [Append(shown, new(text)) EXCEPT ![s.message].text = <<>>,
                                                             ![s.message].form = "deleted"]
                /\ Save(Len(shown) + 1)
  BY DEF Update, new, Save
<1> DEFINE text == Cut(final, Limit)
<1>1. \/ Save(s.message) /\ UNCHANGED <<shown, faults>>
      \/ shown' = Append(shown, new(text)) /\ Save(Len(shown) + 1) /\ UNCHANGED faults
      \/ /\ s.message # 0
         /\ shown' = [shown EXCEPT ![s.message].text = text, ![s.message].form = Form(s)]
         /\ Save(s.message)
         /\ UNCHANGED faults
      \/ /\ s.message # 0
         /\ faults < MaxFaults
         /\ faults' = faults + 1
         /\ shown' = [Append(shown, new(text)) EXCEPT ![s.message].text = <<>>,
                                                      ![s.message].form = "deleted"]
         /\ Save(Len(shown) + 1)
  BY <1>0
<1>2. /\ text \in Text /\ s.message \in 0 .. Len(shown) /\ s \in StateOf(Len(shown))
      /\ Len(shown) \in Nat /\ e.chat \in Chat /\ e.turn \in TurnId
      /\ shown \in Seq(Message0) /\ MaxFaults \in Nat /\ Form(s) \in Forms
      /\ text \in Showable(s)
  <2>1. /\ s.message \in 0 .. Len(shown) /\ s \in StateOf(Len(shown))
        /\ Len(shown) \in Nat /\ e.chat \in Chat /\ e.turn \in TurnId
        /\ shown \in Seq(Message0) /\ MaxFaults \in Nat
    BY GivenFields, Fields DEF Given
  <2>2. text \in Showable(s) /\ Form(s) \in Forms
    BY DEF Showable, Form, Forms
  <2>3. QED
    BY <2>1, <2>2, ShowableTyped
<1> HIDE DEF text
<1>3. new(text) \in Message0 /\ new(text).turn = e.turn /\ new(text).text = text
  BY <1>2 DEF Message, Message0, new
<1>4. faults' \in 0 .. MaxFaults /\ text \in Showable(s)
  BY <1>1, <1>2 DEF Display
<1> DEFINE Result(m) ==
             /\ Rewritten(shown, shown', s.message, e.turn, text)
             /\ m = s.message \/ (m = Len(shown') /\ Len(shown') = Len(shown) + 1)
             /\ Save(m)
<1> SUFFICES \E m \in 0 .. Len(shown') : Result(m)
  <2>1. PICK m \in 0 .. Len(shown') : Result(m)
    OBVIOUS
  <2>2. text \in Showable(s)
    BY <1>4
  <2> USE <2>2
  <2>3. WITNESS text \in Showable(s), m \in 0 .. Len(shown')
  <2>4. QED
    BY <1>4, <2>1 DEF Save
<1>5. CASE Save(s.message) /\ shown' = shown
  <2>1. Result(s.message) /\ s.message \in 0 .. Len(shown')
    BY <1>2, <1>5, Unwritten
  <2>2. QED
    BY <2>1
<1>6. CASE shown' = Append(shown, new(text)) /\ Save(Len(shown) + 1)
  <2>1. Rewritten(shown, shown', s.message, e.turn, text)
    <3>1. Rewritten(shown, Append(shown, new(text)), s.message, new(text).turn, new(text).text)
      BY <1>2, <1>3, Sent
    <3>2. QED
      BY <1>3, <1>6, <3>1
  <2>2. Len(shown') = Len(shown) + 1
    BY <1>2, <1>3, <1>6, Appended
  <2>3. Result(Len(shown) + 1) /\ Len(shown) + 1 \in 0 .. Len(shown')
    BY <1>2, <1>6, <2>1, <2>2
  <2>4. QED
    BY <2>3
<1>7. CASE /\ s.message # 0 /\ Save(s.message)
           /\ shown' = [shown EXCEPT ![s.message].text = text, ![s.message].form = Form(s)]
  <2>1. s.message \in 1 .. Len(shown)
    BY <1>2, <1>7
  <2>2. Rewritten(shown, shown', s.message, e.turn, text) /\ Len(shown') = Len(shown)
    <3>1. Like(shown, shown', s.message, text)
      BY <1>2, <1>7, <2>1, Edited DEF Edit
    <3>2. QED
      BY <1>2, <3>1, LikeRewritten DEF Like
  <2>3. Result(s.message) /\ s.message \in 0 .. Len(shown')
    BY <1>2, <1>7, <2>2
  <2>4. QED
    BY <2>3
<1>8. CASE /\ s.message # 0 /\ Save(Len(shown) + 1)
           /\ shown' = [Append(shown, new(text)) EXCEPT ![s.message].text = <<>>,
                                                        ![s.message].form = "deleted"]
  <2>1. s.message \in 1 .. Len(shown)
    BY <1>2, <1>8
  <2>2. /\ Rewritten(shown, shown', s.message, new(text).turn, new(text).text)
        /\ Len(shown') = Len(shown) + 1
    BY <1>2, <1>3, <1>8, <2>1, Replaced
  <2>3. Result(Len(shown) + 1) /\ Len(shown) + 1 \in 0 .. Len(shown')
    <3>1. Rewritten(shown, shown', s.message, e.turn, text) /\ Save(Len(shown) + 1)
      BY <1>3, <1>8, <2>2
    <3> HIDE DEF Save
    <3>2. QED
      BY <1>2, <2>2, <3>1
  <2>4. QED
    BY <2>3
<1>9. QED
  BY <1>1, <1>5, <1>6, <1>7, <1>8

\* What an event other than the last makes of the state, before its message is set; if it
\* lists other calls, it is shown
Evolves(e, s, n) ==
    /\ n \in StateOf(Len(shown)) /\ n.message = s.message /\ (s.tools => n.tools)
    /\ \A p \in n.parts :
         \/ p \in s.parts \/ p.text = <<>>
         \/ \E q \in s.parts : p.text = Append(q.text, <<e.turn, e.part>>)
         \/ \E q \in s.parts, k \in Nat : p.text = Cut(q.text, k)
    /\ n.current # None => n.current = s.current \/ n.current \in n.parts

LEMMA Same ==
    ASSUME NEW e, NEW s \in StateOf(Len(shown)), NEW n \in StateOf(Len(shown)),
           n.message = s.message, n.parts = s.parts, n.current \in {s.current, None},
           s.tools => n.tools
    PROVE  Evolves(e, s, n)
BY DEF Evolves

Kept(e, s, n) == Keep(e, n) /\ n.tools = s.tools

LEMMA TextStarted ==
    ASSUME ConstantsAssumption, Counted, Display, NEW e, NEW s, Given(e, s), OnTextStart(e, s)
    PROVE  \E n : Evolves(e, s, n) /\ Kept(e, s, n)
<1> DEFINE p == [id |-> e.part, turn |-> e.turn, kind |-> "text", text |-> <<>>]
           a == AddPart(s, p)
           n == [a EXCEPT !.current = p]
<1>1. e.part \in Nat /\ e.turn \in TurnId /\ Len(shown) \in Nat /\ s \in StateOf(Len(shown))
  BY GivenFields DEF Given
<1>2. p \in Parts /\ p.text = <<>>
  BY <1>1 DEF Parts, Text
<1>3. Keep(e, n)
  BY DEF OnTextStart
<1> HIDE DEF p
<1>4. a \in StateOf(Len(shown))
  BY <1>1, <1>2, PartAdded
<1>5. a.message = s.message /\ a.tools = s.tools /\ \A q \in a.parts : q \in s.parts \/ q = p
  BY <1>1 DEF AddPart, StateOf
<1>6. p \in a.parts
  BY <1>1 DEF AddPart, StateOf
<1> HIDE DEF a
<1>7. n \in StateOf(Len(shown))
  BY <1>1, <1>2, <1>4, CurrentSet
<1>8. n.message = a.message /\ n.tools = a.tools /\ n.parts = a.parts /\ n.current = p
  BY <1>4 DEF StateOf
<1> HIDE DEF n
<1>9. Evolves(e, s, n)
  BY <1>2, <1>5, <1>6, <1>7, <1>8 DEF Evolves
<1>10. QED
  BY <1>3, <1>5, <1>8, <1>9 DEF Kept

LEMMA ToolInputStarted ==
    ASSUME ConstantsAssumption, Counted, Display, NEW e, NEW s, Given(e, s),
           OnToolInputStart(e, s)
    PROVE  \E n : Evolves(e, s, n) /\ Update(e, n)
<1> DEFINE p == [id |-> e.part, turn |-> e.turn, kind |-> "tool", text |-> <<>>]
           a == AddPart(s, p)
           n == [a EXCEPT !.tools = TRUE]
<1>1. e.part \in Nat /\ e.turn \in TurnId /\ Len(shown) \in Nat /\ s \in StateOf(Len(shown))
  BY GivenFields DEF Given
<1>2. p \in Parts /\ p.text = <<>>
  BY <1>1 DEF Parts, Text
<1>3. Update(e, n)
  BY DEF OnToolInputStart
<1> HIDE DEF p
<1>4. a \in StateOf(Len(shown))
  BY <1>1, <1>2, PartAdded
<1>5. /\ a.message = s.message /\ a.current = s.current
      /\ \A q \in a.parts : q \in s.parts \/ q = p
  BY <1>1 DEF AddPart, StateOf
<1> HIDE DEF a
<1>6. n \in StateOf(Len(shown))
  BY <1>1, <1>4, FlagsSet
<1>7. n.message = a.message /\ n.parts = a.parts /\ n.current = a.current
      /\ n.tools = TRUE
  BY <1>4 DEF StateOf
<1> HIDE DEF n
<1>8. Evolves(e, s, n)
  BY <1>2, <1>5, <1>6, <1>7 DEF Evolves
<1>9. QED
  BY <1>3, <1>8

LEMMA DeltaReceived ==
    ASSUME ConstantsAssumption, Counted, Display, NEW e, NEW s, Given(e, s), OnTextDelta(e, s)
    PROVE  \E n : Evolves(e, s, n) /\ (Kept(e, s, n) \/ Update(e, n))
<1>1. /\ e.part \in Nat /\ e.turn \in TurnId /\ Len(shown) \in Nat /\ s \in StateOf(Len(shown))
      /\ MaxTurns \in Nat
  BY GivenFields DEF Given
<1>2. CASE \E p \in s.parts : p.id = e.part
  <2> DEFINE n == AddDelta(s, e)
             old == Addressed(s, e)
             new == Longer(s, e)
  <2>1. Keep(e, n)
    BY <1>2 DEF OnTextDelta
  <2>2. /\ n \in StateOf(Len(shown)) /\ old \in s.parts
        /\ new.text = Append(old.text, <<e.turn, e.part>>)
        /\ n = [s EXCEPT !.parts = (s.parts \ {old}) \cup {new},
                         !.current = IF s.current = old THEN new ELSE s.current]
    BY <1>1, <1>2, DeltaAdded
  <2> HIDE DEF n, old, new
  <2>3. /\ n.message = s.message /\ n.tools = s.tools
        /\ n.parts = (s.parts \ {old}) \cup {new}
        /\ n.current = IF s.current = old THEN new ELSE s.current
    BY <1>1, <2>2 DEF StateOf
  <2>4. Evolves(e, s, n)
    BY <2>2, <2>3 DEF Evolves
  <2>5. QED
    BY <2>1, <2>3, <2>4 DEF Kept
<1>3. CASE ~(\E p \in s.parts : p.id = e.part)
  <2>1. Keep(e, s) \/ Update(e, s)
    BY <1>3 DEF OnTextDelta
  <2>2. Evolves(e, s, s)
    BY <1>1, Same
  <2>3. QED
    BY <2>1, <2>2 DEF Kept
<1>4. QED
  BY <1>2, <1>3

LEMMA Evolution ==
    ASSUME ConstantsAssumption, Counted, Display, NEW e, NEW s, Given(e, s), Handle(e, s),
           e.type \notin Terminals
    PROVE  finished' = finished /\ \E n : Evolves(e, s, n) /\ (Kept(e, s, n) \/ Update(e, n))
<1>1. finished' = finished
  BY DEF Handle, Terminals
<1> SUFFICES \E n : Evolves(e, s, n) /\ (Kept(e, s, n) \/ Update(e, n))
  BY <1>1
<1>2. Len(shown) \in Nat /\ s \in StateOf(Len(shown))
  BY GivenFields DEF Given
<1>3. CASE Keep(e, s)
  BY <1>2, <1>3, Same DEF Kept
<1>4. CASE OnStartStep(e, s)
  <2> DEFINE n == [s EXCEPT !.step = TRUE]
  <2>1. n \in StateOf(Len(shown)) /\ n.message = s.message /\ n.parts = s.parts
        /\ n.current = s.current /\ n.tools = s.tools
    BY <1>2, FlagsSet DEF StateOf
  <2>2. Keep(e, n)
    BY <1>4 DEF OnStartStep
  <2> HIDE DEF n
  <2>3. QED
    BY <1>2, <2>1, <2>2, Same DEF Kept
<1>5. CASE OnTextEnd(e, s)
  <2> DEFINE n == TextEnded(e, s)
  <2>1. e.blanks \in Nat
    BY GivenFields
  <2>2. /\ n \in StateOf(Len(shown)) /\ n.parts = {Trim(p, e) : p \in s.parts}
        /\ n.current = None /\ n.message = s.message /\ n.tools = s.tools
    BY <1>2, <2>1, PartsTrimmed
  <2>3. Update(e, n)
    BY <1>5 DEF OnTextEnd, TextEnded
  <2> HIDE DEF n
  <2>4. \A p \in n.parts : \E q \in s.parts, k \in Nat : p.text = Cut(q.text, k)
    BY <1>2, <2>1, <2>2, Fields, Trimmed
  <2>5. Evolves(e, s, n)
    BY <2>2, <2>4 DEF Evolves
  <2>6. QED
    BY <2>3, <2>5
<1>6. CASE OnTool(e, s)
  <2> DEFINE tools == s.tools \/ e.type # "tool-error"
             n == [s EXCEPT !.tools = tools]
  <2>1. tools \in BOOLEAN
    OBVIOUS
  <2>2. Update(e, n)
    BY <1>2, <1>6 DEF OnTool
  <2> HIDE DEF tools
  <2>3. n \in StateOf(Len(shown)) /\ n.message = s.message /\ n.parts = s.parts
        /\ n.current = s.current /\ (s.tools => n.tools)
    BY <1>2, <2>1, FlagsSet DEF StateOf, tools
  <2> HIDE DEF n
  <2>4. QED
    BY <1>2, <2>2, <2>3, Same
<1>7. CASE OnTextStart(e, s) \/ OnTextDelta(e, s) \/ OnToolInputStart(e, s)
  BY <1>7, TextStarted, DeltaReceived, ToolInputStarted
<1>8. QED
  BY <1>3, <1>4, <1>5, <1>6, <1>7 DEF Handle, Terminals

\* The last event of a turn
LEMMA Ending ==
    ASSUME ConstantsAssumption, Counted, Display, NEW e, NEW s, Given(e, s), Handle(e, s),
           e.type \in Terminals
    PROVE  /\ states' = [states EXCEPT ![e.chat] = None]
           /\ finished' = finished \cup {e.turn}
           /\ faults' \in 0 .. MaxFaults
           /\ \E text \in Showable(s) \cup {<<>>} :
                Rewritten(shown, shown', s.message, e.turn, text)
<1>1. /\ s \in StateOf(Len(shown)) /\ Len(shown) \in Nat /\ shown \in Seq(Message0)
      /\ e.chat \in Chat /\ e.turn \in TurnId /\ s.message \in 0 .. Len(shown)
      /\ MaxFaults \in Nat
  BY GivenFields, Fields DEF Given
<1>2. Done(e)
  BY DEF Handle, Terminals, OnFinish, OnError
<1>3. faults' \in 0 .. MaxFaults
  BY <1>1 DEF Handle, Terminals, OnFinish, OnError, Display
<1>4. CASE shown' = shown
  <2>1. Rewritten(shown, shown', s.message, e.turn, <<>>)
    BY <1>1, <1>4, Unwritten
  <2>2. QED
    BY <1>2, <1>3, <2>1 DEF Done
<1>5. ASSUME s.message # 0, NEW text \in Showable(s),
             shown' = [shown EXCEPT ![s.message].text = text, ![s.message].form = "final"]
      PROVE  Rewritten(shown, shown', s.message, e.turn, text)
  <2>1. s.message \in 1 .. Len(shown) /\ text \in Text /\ "final" \in Forms
    BY <1>1, <1>5, ShowableTyped DEF Forms
  <2>2. \A form \in Forms :
          Like(shown, [shown EXCEPT ![s.message].text = text, ![s.message].form = form],
               s.message, text)
    BY <1>1, <2>1, Edited DEF Edit
  <2>3. Like(shown, shown', s.message, text)
    BY <1>5, <2>1, <2>2
  <2>4. QED
    BY <1>1, <2>3, LikeRewritten DEF Like
<1>6. CASE shown' = Append(shown, Message(e.chat, e.turn, <<>>, "error"))
  <2> DEFINE m == Message(e.chat, e.turn, <<>>, "error")
  <2>1. m \in Message0 /\ m.turn = e.turn /\ m.text = <<>>
    BY <1>1 DEF Message, Message0, Forms, Text
  <2>2. shown' = Append(shown, m)
    BY <1>6
  <2> HIDE DEF m
  <2>3. Rewritten(shown, Append(shown, m), s.message, m.turn, m.text)
    BY <1>1, <2>1, Sent
  <2>4. Rewritten(shown, shown', s.message, e.turn, <<>>)
    BY <2>1, <2>2, <2>3
  <2>5. QED
    BY <1>2, <1>3, <2>4 DEF Done
<1>7. CASE /\ s.message # 0
           /\ \E text \in Showable(s) :
                shown' = [shown EXCEPT ![s.message].text = text, ![s.message].form = "final"]
  BY <1>2, <1>3, <1>5, <1>7 DEF Done
<1>8. QED
  BY <1>4, <1>6, <1>7 DEF Handle, OnFinish, OnError, Terminals, Showable

\* A state and the messages keep their types
LEMMA HandledTyped ==
    ASSUME ConstantsAssumption, Counted, Display, NEW e, NEW s, Given(e, s), Handle(e, s),
           turns' = turns
    PROVE  Display'
<1>1. /\ s \in StateOf(Len(shown)) /\ Len(shown) \in Nat /\ shown \in Seq(Message0)
      /\ e.chat \in Chat /\ e.turn \in 1 .. turns /\ turns \in Nat
  BY GivenFields DEF Given
<1>2. CASE e.type \in Terminals
  <2>1. /\ states' = [states EXCEPT ![e.chat] = None] /\ faults' \in 0 .. MaxFaults
        /\ finished' \subseteq 1 .. turns'
    <3>1. finished' = finished \cup {e.turn} /\ finished \subseteq 1 .. turns
      BY <1>2, Ending DEF Display
    <3>2. QED
      BY <1>1, <1>2, <3>1, Ending
  <2>2. shown' \in Seq(Message0) /\ Len(shown) <= Len(shown')
    BY <1>2, Ending DEF Rewritten
  <2>3. QED
    BY <1>1, <2>1, <2>2, OneState
<1>3. CASE e.type \notin Terminals
  <2>1. PICK n : Evolves(e, s, n) /\ (Kept(e, s, n) \/ Update(e, n))
    BY <1>3, Evolution
  <2>2. finished' \subseteq 1 .. turns' /\ n \in StateOf(Len(shown)) /\ Given(e, n)
    BY <1>3, <2>1, Evolution DEF Display, Evolves, Given
  <2>3. CASE Kept(e, s, n)
    <3>1. /\ states' = [states EXCEPT ![e.chat] = n] /\ shown' = shown
          /\ faults' \in 0 .. MaxFaults
      BY <2>3 DEF Kept, Keep, Display
    <3>2. n \in StateOf(Len(shown')) /\ shown' \in Seq(Message0) /\ Len(shown) <= Len(shown')
      BY <1>1, <2>2, <3>1
    <3>3. QED
      BY <1>1, <2>2, <3>1, <3>2, OneState
  <2>4. CASE Update(e, n)
    <3>1. PICK text \in Showable(n), m \in 0 .. Len(shown') :
             /\ Rewritten(shown, shown', n.message, e.turn, text)
             /\ m = n.message \/ (m = Len(shown') /\ Len(shown') = Len(shown) + 1)
             /\ states' = [states EXCEPT ![e.chat] = [n EXCEPT !.message = m]]
             /\ faults' \in 0 .. MaxFaults
      BY <2>2, <2>4, Updated
    <3>2. /\ shown' \in Seq(Message0) /\ Len(shown) <= Len(shown') /\ Len(shown') \in Nat
      BY <3>1, LenProperties DEF Rewritten
    <3>3. [n EXCEPT !.message = m] \in StateOf(Len(shown'))
      BY <1>1, <2>2, <3>1, <3>2, MessageSet
    <3>4. QED
      BY <1>1, <2>2, <3>1, <3>2, <3>3, OneState
  <2>5. QED
    BY <2>1, <2>3, <2>4
<1>4. QED
  BY <1>2, <1>3

-----------------------------------------------------------------------------
\* Types

LEMMA TypesInit ==
    ASSUME ConstantsAssumption, Init
    PROVE  Types
<1>1. /\ MaxTurns \in Nat /\ Cap \in Nat /\ MaxFaults \in Nat /\ 0 \in 0 .. MaxIterations
  BY Constants
<1>2. Waiting /\ Leaving /\ Streaming
  BY <1>1 DEF Init, Waiting, Leaving, Streaming
<1>3. Idle \in TurnOf(0)
  <2>1. <<>> \in Seq(EventOf(0)) /\ 0 \in 0 .. 0
    OBVIOUS
  <2>2. QED
    BY <1>1, <2>1 DEF Idle, TurnOf
<1>4. /\ TurnOk(Idle, answer) /\ \A a \in Agent : Idle.chat \in Served(a)
  <2>1. Idle.stage = "idle" /\ Idle.queue = <<>> /\ Idle.chat = None
    BY DEF Idle
  <2>2. <<>> \in Seq(Own(Idle))
    OBVIOUS
  <2>3. QED
    BY <2>1, <2>2 DEF TurnOk, Served
<1>5. Running
  BY <1>3, <1>4 DEF Init, Running
<1>6. Counted
  BY <1>1 DEF Init, Counted
<1>7. Display
  BY <1>1 DEF Init, Display
<1>8. QED
  BY <1>2, <1>5, <1>6, <1>7 DEF Types

\* More turns leave everything else as it was
LEMMA TurnCounted ==
    ASSUME ConstantsAssumption, Types, turns < MaxTurns, turns' = turns + 1
    PROVE  /\ turns \in Nat /\ turns' \in 1 .. MaxTurns /\ turns' \in Nat /\ turns <= turns'
           /\ turns' \in TurnId /\ turns + 1 \in 1 .. turns'
           /\ arriving \subseteq Arrived(turns') /\ inbound \in Seq(Arrived(turns'))
           /\ stream \in Seq(EventOf(turns')) /\ finished \subseteq 1 .. turns'
<1>1. /\ turns \in Nat /\ turns' \in 1 .. MaxTurns /\ turns' \in Nat /\ turns <= turns'
      /\ turns' \in TurnId /\ turns + 1 \in 1 .. turns' /\ finished \subseteq 1 .. turns'
  BY Constants DEF Types, Counted, TurnId, Display
<1>2. Arrived(turns) \subseteq Arrived(turns') /\ EventOf(turns) \subseteq EventOf(turns')
  BY <1>1, Grows
<1>3. /\ arriving \subseteq Arrived(turns') /\ inbound \in Seq(Arrived(turns'))
      /\ stream \in Seq(EventOf(turns'))
  BY <1>2, LargerSeq DEF Types, Waiting, Streaming
<1>4. QED
  BY <1>1, <1>3

LEMMA HandleMessageTypes ==
    ASSUME ConstantsAssumption, Types, NEW c \in UserChats, HandleMessage(c)
    PROVE  Types'
<1>1. /\ turns' = turns + 1 /\ turns < MaxTurns
      /\ UNCHANGED <<inbound, outbound, stream, turn, shown, answer, finished, faults>>
      /\ arriving' = arriving \cup {[chat |-> c, id |-> turns + 1]}
      /\ c \in Chat
  BY Constants DEF HandleMessage
<1>2. /\ turns \in Nat /\ turns' \in 1 .. MaxTurns /\ turns' \in Nat /\ turns <= turns'
      /\ turns + 1 \in 1 .. turns'
      /\ arriving \subseteq Arrived(turns') /\ inbound \in Seq(Arrived(turns'))
      /\ stream \in Seq(EventOf(turns')) /\ finished \subseteq 1 .. turns'
  BY <1>1, TurnCounted
<1>3. Waiting'
  <2>1. [chat |-> c, id |-> turns + 1] \in Arrived(turns')
    BY <1>2 DEF Arrived
  <2>2. arriving' \subseteq Arrived(turns')
    BY <1>1, <1>2, <2>1
  <2>3. QED
    BY <1>1, <1>2, <2>2 DEF Types, Waiting
<1>4. Leaving' /\ Streaming' /\ Counted'
  BY <1>1, <1>2 DEF Types, Leaving, Streaming, Counted
<1>5. Running'
  <2>1. TurnOf(turns) \subseteq TurnOf(turns')
    BY <1>2, Grows
  <2>2. QED
    BY <1>1, <2>1 DEF Types, Running
<1>6. Display'
  <2> DEFINE s == IF states[c] = None THEN NewState ELSE states[c]
  <2>1. /\ states' = [states EXCEPT ![c] = s] /\ Len(shown) \in Nat /\ shown' = shown
    BY LenProperties DEF HandleMessage, Types, Display
  <2>2. s \in StateOf(Len(shown'))
    BY <1>1, <2>1, FreshState DEF Types, Display
  <2> HIDE DEF s
  <2>3. /\ shown' \in Seq(Message0) /\ Len(shown) <= Len(shown')
        /\ finished' \subseteq 1 .. turns' /\ faults' \in 0 .. MaxFaults
    BY <1>1, <1>2, <2>1 DEF Types, Display
  <2>4. QED
    BY <1>1, <2>1, <2>2, <2>3, OneState DEF Types
<1>7. QED
  BY <1>3, <1>4, <1>5, <1>6 DEF Types

LEMMA PublishInboundTypes ==
    ASSUME ConstantsAssumption, Types, NEW m \in arriving, PublishInbound(m)
    PROVE  Types'
<1>1. /\ arriving' = arriving \ {m} /\ inbound' = Append(inbound, m) /\ Len(inbound) < Cap
      /\ UNCHANGED <<outbound, stream, turn, turns, answer, chatVars>>
  BY DEF PublishInbound
<1>2. m \in Arrived(turns) /\ inbound \in Seq(Arrived(turns)) /\ Cap \in Nat
  BY Constants DEF Types, Waiting
<1>3. inbound' \in Seq(Arrived(turns)) /\ Len(inbound') <= Cap
  BY <1>1, <1>2, Appended
<1>4. Waiting'
  BY <1>1, <1>3 DEF Types, Waiting
<1>5. Leaving' /\ Streaming' /\ Running' /\ Counted' /\ Display'
  BY <1>1 DEF Types, Leaving, Streaming, Running, Counted, Display, chatVars
<1>6. QED
  BY <1>4, <1>5 DEF Types

LEMMA ConsumeInboundTypes ==
    ASSUME ConstantsAssumption, Types, ConsumeInbound
    PROVE  Types'
<1> DEFINE m == Head(inbound)
<1>1. /\ Begin("loop", m.id, m.chat) /\ inbound # <<>> /\ inbound' = Tail(inbound)
      /\ UNCHANGED <<arriving, outbound, stream, turns, answer, chatVars>>
  BY DEF ConsumeInbound
<1>2. inbound \in Seq(Arrived(turns)) /\ Len(inbound) <= Cap /\ Cap \in Nat
  BY Constants DEF Types, Waiting
<1>3. /\ m \in Arrived(turns) /\ Tail(inbound) \in Seq(Arrived(turns))
      /\ Len(Tail(inbound)) = Len(inbound) - 1 /\ Len(inbound) \in Nat
  BY <1>1, <1>2, WithoutHead
<1> HIDE DEF m
<1>4. Waiting'
  BY <1>1, <1>2, <1>3 DEF Types, Waiting
<1>5. Running'
  <2>1. /\ m.id \in 1 .. turns' /\ m.chat \in AnyChat /\ m.chat \in Served("loop")
        /\ turns' \in Nat /\ turns <= turns' /\ "loop" \in Agent
    BY <1>1, <1>3, Constants DEF Arrived, AnyChat, Served, Agent, Types, Counted
  <2>2. QED
    BY <1>1, <2>1, Begun
<1>6. Leaving' /\ Streaming' /\ Counted' /\ Display'
  BY <1>1 DEF Types, Leaving, Streaming, Counted, Display, chatVars
<1>7. QED
  BY <1>4, <1>5, <1>6 DEF Types

LEMMA ProcessDirectTypes ==
    ASSUME ConstantsAssumption, Types, NEW c \in DirectChats, ProcessDirect(c)
    PROVE  Types'
<1>1. /\ turns' = turns + 1 /\ turns < MaxTurns /\ Begin("direct", turns + 1, c)
      /\ UNCHANGED <<arriving, inbound, outbound, stream, answer, chatVars>>
  BY DEF ProcessDirect
<1>2. /\ turns \in Nat /\ turns' \in 1 .. MaxTurns /\ turns' \in Nat /\ turns <= turns'
      /\ turns + 1 \in 1 .. turns'
      /\ arriving \subseteq Arrived(turns') /\ inbound \in Seq(Arrived(turns'))
      /\ stream \in Seq(EventOf(turns')) /\ finished \subseteq 1 .. turns'
  BY <1>1, TurnCounted
<1>3. Waiting' /\ Leaving' /\ Streaming' /\ Counted' /\ Display'
  BY <1>1, <1>2 DEF Types, Waiting, Leaving, Streaming, Counted, Display, chatVars
<1>4. Running'
  <2>1. c \in AnyChat /\ c \in Served("direct") /\ "direct" \in Agent
    BY Constants DEF Served, Agent
  <2>2. QED
    BY <1>1, <1>2, <2>1, Begun
<1>5. QED
  BY <1>3, <1>4 DEF Types

LEMMA DeliverTypes ==
    ASSUME ConstantsAssumption, Types, NEW c \in DirectChats, Deliver(c)
    PROVE  Types'
<1> DEFINE m == [chat |-> c, id |-> turns + 1, text |-> Chunks(turns + 1, 0, 1)]
<1>1. /\ turns' = turns + 1 /\ turns < MaxTurns /\ outbound' = Append(outbound, m)
      /\ Len(outbound) < Cap
      /\ UNCHANGED <<arriving, inbound, stream, turn, answer, chatVars>>
  BY DEF Deliver
<1>2. /\ turns \in Nat /\ turns' \in 1 .. MaxTurns /\ turns' \in Nat /\ turns <= turns'
      /\ turns' \in TurnId
      /\ arriving \subseteq Arrived(turns') /\ inbound \in Seq(Arrived(turns'))
      /\ stream \in Seq(EventOf(turns')) /\ finished \subseteq 1 .. turns'
  BY <1>1, TurnCounted
<1>3. Waiting' /\ Streaming' /\ Counted' /\ Display'
  BY <1>1, <1>2 DEF Types, Waiting, Streaming, Counted, Display, chatVars
<1>4. Running'
  <2>1. TurnOf(turns) \subseteq TurnOf(turns')
    BY <1>2, Grows
  <2>2. QED
    BY <1>1, <2>1 DEF Types, Running
<1>5. Leaving'
  <2>1. m \in Outgoing
    <3>1. Chunks(turns + 1, 0, 1) \in Text
      BY <1>1, <1>2, Answers
    <3>2. QED
      BY <1>1, <1>2, <3>1, Constants DEF Outgoing
  <2>2. outbound \in Seq(Outgoing) /\ Cap \in Nat
    BY Constants DEF Types, Leaving
  <2> HIDE DEF m
  <2>3. QED
    BY <1>1, <2>1, <2>2, Appended DEF Leaving
<1>6. QED
  BY <1>3, <1>4, <1>5 DEF Types

LEMMA RunTypes ==
    ASSUME ConstantsAssumption, Types, NEW a \in Agent, Run(a)
    PROVE  Types'
<1>1. CASE PublishStream(a)
  <2>1. Running' /\ Streaming'
    BY <1>1, Published
  <2>2. UNCHANGED <<arriving, inbound, outbound, turns, answer, chatVars>>
    BY <1>1 DEF PublishStream
  <2>3. Waiting' /\ Leaving' /\ Counted' /\ Display'
    BY <2>2 DEF Types, Waiting, Leaving, Counted, Display, chatVars
  <2>4. QED
    BY <2>1, <2>3 DEF Types
<1>2. CASE Iterate(a) \/ LlmFails(a) \/ IterationsExhausted(a)
  <2>1. Running' /\ Counted'
    BY <1>2, Iterated, Failing, Exhausted
  <2>2. UNCHANGED <<arriving, inbound, outbound, stream, turns, chatVars>>
    BY <1>2 DEF Iterate, LlmFails, IterationsExhausted
  <2>3. Waiting' /\ Leaving' /\ Streaming' /\ Display'
    BY <2>2 DEF Types, Waiting, Leaving, Streaming, Display, chatVars
  <2>4. QED
    BY <2>1, <2>3 DEF Types
<1>3. CASE Finish(a)
  <2>1. Running'
    BY <1>3, Finishing
  <2>2. UNCHANGED <<arriving, inbound, outbound, stream, turns, answer, chatVars>>
    BY <1>3 DEF Finish
  <2>3. Waiting' /\ Leaving' /\ Streaming' /\ Counted' /\ Display'
    BY <2>2 DEF Types, Waiting, Leaving, Streaming, Counted, Display, chatVars
  <2>4. QED
    BY <2>1, <2>3 DEF Types
<1>4. CASE Return(a)
  <2>1. Running' /\ Leaving'
    BY <1>4, Returning
  <2>2. UNCHANGED <<arriving, inbound, stream, turns, answer, chatVars>>
    BY <1>4 DEF Return
  <2>3. Waiting' /\ Streaming' /\ Counted' /\ Display'
    BY <2>2 DEF Types, Waiting, Streaming, Counted, Display, chatVars
  <2>4. QED
    BY <2>1, <2>3 DEF Types
<1>5. QED
  BY <1>1, <1>2, <1>3, <1>4 DEF Run

\* What the stream goroutine takes from the channel
StateGiven(c) == IF states[c] = None THEN NewState ELSE states[c]

LEMMA Taken ==
    ASSUME ConstantsAssumption, Types, HandleStream
    PROVE  /\ stream \in Seq(EventOf(turns)) /\ stream # <<>> /\ stream' = Tail(stream)
           /\ Head(stream) \in EventOf(turns)
           /\ UNCHANGED <<arriving, inbound, outbound, turn, turns, answer>>
           /\ \/ Head(stream).chat \notin Chat /\ UNCHANGED chatVars
              \/ /\ Head(stream).chat \in Chat
                 /\ Given(Head(stream), StateGiven(Head(stream).chat))
                 /\ Handle(Head(stream), StateGiven(Head(stream).chat))
<1> DEFINE e == Head(stream)
<1>1. /\ stream \in Seq(EventOf(turns)) /\ stream # <<>> /\ stream' = Tail(stream)
      /\ UNCHANGED <<arriving, inbound, outbound, turn, turns, answer>>
  BY DEF HandleStream, Types, Streaming
<1>2. e \in EventOf(turns)
  BY <1>1, WithoutHead
<1>3. CASE e.chat \notin Chat
  BY <1>1, <1>2, <1>3 DEF HandleStream
<1>4. CASE e.chat \in Chat
  <2>1. Handle(e, StateGiven(e.chat))
    BY <1>4 DEF HandleStream, StateGiven
  <2>2. Len(shown) \in Nat
    BY LenProperties DEF Types, Display
  <2>3. StateGiven(e.chat) \in StateOf(Len(shown))
    BY <1>4, <2>2, FreshState DEF Types, Display, StateGiven
  <2>4. QED
    BY <1>1, <1>2, <1>4, <2>1, <2>3 DEF Given
<1>5. QED
  BY <1>3, <1>4

LEMMA HandleStreamTypes ==
    ASSUME ConstantsAssumption, Types, HandleStream
    PROVE  Types'
<1>1. /\ stream \in Seq(EventOf(turns)) /\ stream # <<>> /\ stream' = Tail(stream)
      /\ UNCHANGED <<arriving, inbound, outbound, turn, turns, answer>>
  BY Taken
<1>2. Streaming'
  <2>1. /\ Tail(stream) \in Seq(EventOf(turns)) /\ Len(Tail(stream)) = Len(stream) - 1
        /\ Len(stream) \in Nat /\ Cap \in Nat /\ Len(stream) <= Cap
    BY <1>1, WithoutHead, Constants DEF Types, Streaming
  <2>2. QED
    BY <1>1, <2>1 DEF Streaming
<1>3. Waiting' /\ Leaving' /\ Running' /\ Counted'
  BY <1>1 DEF Types, Waiting, Leaving, Running, Counted
<1>4. Display'
  <2>1. CASE UNCHANGED chatVars
    BY <1>1, <2>1 DEF Types, Display, chatVars
  <2>2. CASE ~UNCHANGED chatVars
    <3>1. /\ Given(Head(stream), StateGiven(Head(stream).chat))
          /\ Handle(Head(stream), StateGiven(Head(stream).chat))
      BY <2>2, Taken
    <3>2. QED
      BY <1>1, <3>1, HandledTyped DEF Types
  <2>3. QED
    BY <2>1, <2>2
<1>5. QED
  BY <1>2, <1>3, <1>4 DEF Types

LEMMA PlainMessage ==
    ASSUME ConstantsAssumption, NEW m \in Outgoing, m.chat \in Chat
    PROVE  LET new == Message(m.chat, m.id, Cut(m.text, Limit), "plain") IN
           new \in Message0 /\ new.form = "plain"
<1>1. Cut(m.text, Limit) \in Text
  BY Constants, CutText DEF Outgoing
<1>2. QED
  BY <1>1 DEF Message, Message0, Forms, Outgoing

LEMMA DispatchTypes ==
    ASSUME ConstantsAssumption, Types, Dispatch
    PROVE  Types'
<1> DEFINE m == Head(outbound)
           new == Message(m.chat, m.id, Cut(m.text, Limit), "plain")
<1>1. /\ outbound # <<>> /\ outbound' = Tail(outbound)
      /\ shown' = IF m.chat \in Chat THEN Append(shown, new) ELSE shown
      /\ UNCHANGED <<arriving, inbound, stream, turn, states, turns, answer, finished, faults>>
  BY DEF Dispatch
<1>2. outbound \in Seq(Outgoing) /\ Len(outbound) <= Cap /\ Cap \in Nat
  BY Constants DEF Types, Leaving
<1>3. /\ m \in Outgoing /\ Tail(outbound) \in Seq(Outgoing)
      /\ Len(Tail(outbound)) = Len(outbound) - 1 /\ Len(outbound) \in Nat
  BY <1>1, <1>2, WithoutHead
<1> HIDE DEF m
<1>4. Leaving'
  BY <1>1, <1>2, <1>3 DEF Leaving
<1>5. Waiting' /\ Streaming' /\ Running' /\ Counted'
  BY <1>1 DEF Types, Waiting, Streaming, Running, Counted
<1>6. Display'
  <2>1. shown \in Seq(Message0) /\ Len(shown) \in Nat
    BY LenProperties DEF Types, Display
  <2>2. shown' \in Seq(Message0) /\ Len(shown) <= Len(shown') /\ Len(shown') \in Nat
    <3>1. CASE m.chat \in Chat
      <4>1. new \in Message0
        BY <1>3, <3>1, PlainMessage
      <4> HIDE DEF new
      <4>2. QED
        BY <1>1, <2>1, <3>1, <4>1, Appended
    <3>2. CASE m.chat \notin Chat
      BY <1>1, <2>1, <3>2
    <3>3. QED
      BY <3>1, <3>2
  <2>3. \A c \in Chat : states[c] = None \/ states[c] \in StateOf(Len(shown'))
    BY <2>1, <2>2, MoreMessages DEF Types, Display
  <2>4. QED
    BY <1>1, <2>2, <2>3 DEF Types, Display
<1>7. QED
  BY <1>4, <1>5, <1>6 DEF Types

LEMMA TypesNext ==
    ASSUME ConstantsAssumption, Types, [Next]_vars
    PROVE  Types'
<1>1. CASE UNCHANGED vars
  BY <1>1 DEF Types, Waiting, Leaving, Streaming, Running, Counted, Display, vars
<1>2. CASE Next
  BY <1>2, HandleMessageTypes, PublishInboundTypes, ProcessDirectTypes, DeliverTypes,
     ConsumeInboundTypes, RunTypes, HandleStreamTypes, DispatchTypes DEF Next
<1>3. QED
  BY <1>1, <1>2

LEMMA TypesImplyTypeOK ==
    ASSUME ConstantsAssumption, Types
    PROVE  TypeOK
<1>1. turns \in Nat /\ turns <= MaxTurns /\ MaxTurns \in Nat /\ 1 .. turns \subseteq TurnId
      /\ 0 .. turns \subseteq 0 .. MaxTurns
  BY Constants DEF Types, Counted, TurnId
<1>2. /\ Arrived(turns) \subseteq [chat : Chat, id : TurnId] /\ EventOf(turns) \subseteq Events
  BY <1>1, Constants DEF Arrived, EventOf, Events, AnyChat
<1>3. /\ arriving \subseteq [chat : Chat, id : TurnId]
      /\ inbound \in Seq([chat : Chat, id : TurnId])
      /\ outbound \in Seq([chat : Chat \cup {Terminal}, id : TurnId, text : Text])
      /\ stream \in Seq(Events)
      /\ Len(inbound) <= Cap /\ Len(outbound) <= Cap /\ Len(stream) <= Cap
  <2>1. inbound \in Seq([chat : Chat, id : TurnId])
    BY <1>2, LargerSeq DEF Types, Waiting
  <2>2. stream \in Seq(Events)
    BY <1>2, LargerSeq DEF Types, Streaming
  <2>3. QED
    BY <1>2, <2>1, <2>2 DEF Types, Waiting, Leaving, Streaming, Outgoing, AnyChat
<1>4. turn \in [Agent -> [stage : {"idle", "iterate", "finish", "reply"},
                         id : 0 .. MaxTurns, chat : Chat \cup {Terminal, None},
                         iteration : 0 .. MaxIterations, part : Nat, queue : Seq(Events)]]
  <2>1. Seq(EventOf(turns)) \subseteq Seq(Events)
    BY <1>2, LargerSeq
  <2>2. QED
    BY <1>1, <2>1 DEF Types, Running, TurnOf, AnyChat
<1>5. \A c \in Chat : states[c] = None \/ StateOK(states[c])
  BY DEF Types, Display, StateOf, StateOK
<1>6. QED
  BY <1>3, <1>4, <1>5 DEF TypeOK, Types, Display, Counted, Message0, Forms

LEMMA TypesInvariant == Spec => []Types
<1>1. Init => Types
  BY TypesInit, ConstantsAssumption
<1>2. Types /\ [Next]_vars => Types'
  BY TypesNext, ConstantsAssumption
<1>3. QED
  BY <1>1, <1>2, PTL DEF Spec

\* Whatever the capacity of the bus and the number of turns: no channel of the bus holds more
\* than its capacity, and every variable keeps its type.
THEOREM TypeCorrect == Spec => []TypeOK
<1>1. Types => TypeOK
  BY TypesImplyTypeOK, ConstantsAssumption
<1>2. QED
  BY <1>1, TypesInvariant, PTL

-----------------------------------------------------------------------------
\* A turn that has begun ends

\* The event that ends the turn has not been published
Open(t) == t.stage \in {"iterate", "finish"} \/ (t.stage = "reply" /\ t.queue # <<>>)
Promised(c) == \E a \in Agent : turn[a].chat = c /\ Open(turn[a])

\* It is among the events from the i-th on
EndsIn(q, c, i) == \E k \in DOMAIN q : k >= i /\ q[k].chat = c /\ q[k].type \in Terminals

\* A message of the chat has not been taken by the loop
Coming(c) == (\E m \in arriving : m.chat = c) \/ (\E i \in DOMAIN inbound : inbound[i].chat = c)

Blank(s) == s.parts = {} /\ s.current = None /\ s.message = 0

EventsClosed ==
    \A i \in DOMAIN stream : EndsIn(stream, stream[i].chat, i) \/ Promised(stream[i].chat)
WillEnd(c) == Promised(c) \/ EndsIn(stream, c, 1)
StatesClosed ==
    \A c \in Chat :
      states[c] # None => WillEnd(c) \/ (Coming(c) /\ Blank(states[c]))

\* Every event in the channel is followed by the end of its turn, and so is every state, unless
\* it is as handleMessage left it
Closed == EventsClosed /\ StatesClosed

LEMMA EndsInAppended ==
    ASSUME NEW S, NEW q \in Seq(S), NEW e \in S, NEW c, NEW i \in Nat
    PROVE  /\ EndsIn(q, c, i) => EndsIn(Append(q, e), c, i)
           /\ e.chat = c /\ e.type \in Terminals /\ i <= Len(q) + 1 => EndsIn(Append(q, e), c, i)
BY Appended DEF EndsIn

LEMMA EndsInTail ==
    ASSUME NEW S, NEW q \in Seq(S), q # <<>>, NEW c, NEW i \in Nat \ {0},
           EndsIn(q, c, i + 1) \/ (EndsIn(q, c, i) /\ ~(q[i].chat = c /\ q[i].type \in Terminals))
    PROVE  EndsIn(Tail(q), c, i)
<1>1. /\ Len(q) \in Nat /\ DOMAIN q = 1 .. Len(q) /\ DOMAIN Tail(q) = 1 .. Len(q) - 1
      /\ \A k \in 1 .. Len(q) - 1 : Tail(q)[k] = q[k + 1]
  BY WithoutHead
<1>2. PICK k \in 1 .. Len(q) : k >= i + 1 /\ q[k].chat = c /\ q[k].type \in Terminals
  BY <1>1 DEF EndsIn
<1>3. CASE k >= 2
  <2>1. k - 1 \in 1 .. Len(q) - 1 /\ k - 1 >= i /\ Tail(q)[k - 1] = q[k]
    BY <1>1, <1>2, <1>3
  <2>2. QED
    BY <1>1, <1>2, <2>1 DEF EndsIn
<1>4. QED
  BY <1>2, <1>3

\* What the steps of a turn do to it

LEMMA BeginStep ==
    ASSUME Types, NEW a \in Agent, NEW t, NEW c, Begin(a, t, c)
    PROVE  /\ turn'[a].chat = c /\ turn'[a].id = t /\ turn'[a].stage = "iterate"
           /\ Open(turn'[a]) /\ \A b \in Agent \ {a} : turn'[b] = turn[b]
BY DEF Begin, Types, Running, Idle, Open

LEMMA TurnStep ==
    ASSUME ConstantsAssumption, Types, NEW a \in Agent,
           Iterate(a) \/ LlmFails(a) \/ IterationsExhausted(a) \/ Finish(a)
    PROVE  /\ turn[a].stage # "idle" /\ turn'[a].stage # "idle"
           /\ turn'[a].chat = turn[a].chat /\ turn'[a].id = turn[a].id /\ Open(turn'[a])
           /\ \A b \in Agent \ {a} : turn'[b] = turn[b]
           /\ UNCHANGED <<arriving, inbound, outbound, stream, turns, chatVars>>
<1>1. turn \in [Agent -> TurnOf(turns)] /\ turn[a] \in TurnOf(turns)
  BY DEF Types, Running
<1>2. CASE Iterate(a)
  <2>1. PICK r \in Responses, outcome \in {"tool-result", "tool-error"} :
          LET t == turn[a]
              textPart == IF r.chunks = 0 THEN t.part ELSE t.part + 1
          IN  turn' = [turn EXCEPT ![a].iteration = @ + 1,
                         ![a].part = textPart + r.calls,
                         ![a].stage = IF r.calls = 0 THEN "finish" ELSE "iterate",
                         ![a].queue = <<Event("start-step", t, 0)>>
                                      \o TextEvents(t, textPart, r.chunks, r.blanks)
                                      \o ToolEvents(t, textPart, r.calls, outcome)
                                      \o <<Event("finish-step", t, 0)>>]
    BY <1>2 DEF Iterate
  <2>2. turn[a].stage = "iterate" /\ UNCHANGED <<arriving, inbound, outbound, stream, turns, chatVars>>
    BY <1>2 DEF Iterate
  <2>3. QED
    BY <1>1, <2>1, <2>2 DEF TurnOf, Open
<1>3. CASE LlmFails(a)
  BY <1>1, <1>3 DEF LlmFails, TurnOf, Open
<1>4. CASE IterationsExhausted(a)
  BY <1>1, <1>4 DEF IterationsExhausted, TurnOf, Open
<1>5. CASE Finish(a)
  BY <1>1, <1>5 DEF Finish, TurnOf, Open
<1>6. QED
  BY <1>2, <1>3, <1>4, <1>5

LEMMA PublishStep ==
    ASSUME ConstantsAssumption, Types, NEW a \in Agent, PublishStream(a)
    PROVE  LET e == Head(turn[a].queue) IN
           /\ e \in Own(turn[a]) /\ e \in EventOf(turns) /\ e.chat \in AnyChat
           /\ e.chat = turn[a].chat /\ e.turn = turn[a].id
           /\ stream \in Seq(EventOf(turns)) /\ stream' = Append(stream, e)
           /\ turn[a].stage # "idle"
           /\ turn'[a].stage = turn[a].stage /\ turn'[a].chat = turn[a].chat
           /\ turn'[a].id = turn[a].id /\ \A b \in Agent \ {a} : turn'[b] = turn[b]
           /\ Open(turn[a]) /\ (Open(turn'[a]) \/ e.type \in Terminals)
           /\ UNCHANGED <<arriving, inbound, outbound, turns, answer, chatVars>>
<1> DEFINE t == turn[a]
           e == Head(t.queue)
<1>1. /\ t \in TurnOf(turns) /\ TurnOk(t, answer) /\ t.queue \in Seq(Own(t))
      /\ t.queue \in Seq(EventOf(turns)) /\ t.queue # <<>>
      /\ stream \in Seq(EventOf(turns)) /\ stream' = Append(stream, e)
      /\ UNCHANGED <<arriving, inbound, outbound, turns, answer, chatVars>>
  BY Turn DEF Types, PublishStream, Streaming
<1>2. /\ turn'[a].stage = t.stage /\ turn'[a].chat = t.chat /\ turn'[a].id = t.id
      /\ turn'[a].queue = Tail(t.queue) /\ \A b \in Agent \ {a} : turn'[b] = turn[b]
  BY <1>1 DEF PublishStream, Types, Running, TurnOf
<1>3. t.stage \in {"iterate", "finish", "reply"}
  BY <1>1 DEF TurnOk, TurnOf
<1> HIDE DEF t
<1>4. /\ e = t.queue[1] /\ e \in EventOf(turns) /\ e \in Own(t)
      /\ Len(t.queue) \in Nat /\ Len(t.queue) > 0 /\ Len(Tail(t.queue)) = Len(t.queue) - 1
  BY <1>1, WithoutHead
<1>5. Tail(t.queue) = <<>> => e = t.queue[Len(t.queue)]
  <2> SUFFICES ASSUME Tail(t.queue) = <<>> PROVE e = t.queue[Len(t.queue)]
    OBVIOUS
  <2>1. Len(Tail(t.queue)) = 0
    <3>1. \A x : x = <<>> => Len(x) = 0
      OBVIOUS
    <3>2. QED
      BY ONLY <3>1, Tail(t.queue) = <<>>
  <2> HIDE DEF e
  <2>2. Len(t.queue) = 1
    BY <1>4, <2>1
  <2>3. QED
    BY <1>4, <2>2
<1>6. Open(turn[a]) /\ (Open(turn'[a]) \/ e.type \in Terminals)
  BY <1>1, <1>2, <1>3, <1>5 DEF Open, TurnOk, t
<1>7. QED
  BY <1>1, <1>2, <1>3, <1>4, <1>6 DEF Own, EventOf, t

\* Two goroutines cannot be in each other's way unless they serve the same chat; the first
\* facts about turns that the rest needs
LEMMA InTurn ==
    ASSUME ConstantsAssumption, Types, NEW a \in Agent, turn[a].chat # None
    PROVE  /\ turn[a].stage # "idle" /\ turn[a].chat \in AnyChat
           /\ turn[a].chat \in (IF a = "loop" THEN UserChats ELSE DirectChats)
<1>1. TurnOk(turn[a], answer) /\ turn[a].chat \in Served(a)
  BY DEF Types, Running
<1>2. QED
  BY <1>1 DEF TurnOk, Served

\* What makes the ends bound to come survive a step that takes nothing from the channel
LEMMA ClosedGrows ==
    ASSUME ConstantsAssumption, Types, Closed, UNCHANGED <<stream, states>>,
           \A c \in AnyChat : Promised(c) => Promised(c)',
           \A c \in Chat : Coming(c) => Coming(c)' \/ Promised(c)'
    PROVE  Closed'
<1>1. \A i \in DOMAIN stream : stream[i].chat \in AnyChat
  <2>1. stream \in Seq(EventOf(turns))
    BY DEF Types, Streaming
  <2>2. \A i \in DOMAIN stream : stream[i] \in EventOf(turns)
    BY <2>1, LenProperties, ElementOfSeq
  <2>3. QED
    BY <2>2 DEF EventOf
<1>2. EventsClosed'
  BY <1>1 DEF Closed, EventsClosed, EndsIn
<1>3. StatesClosed'
  <2>1. \A c \in Chat : WillEnd(c) => WillEnd(c)'
    BY DEF WillEnd, EndsIn, AnyChat
  <2>2. QED
    BY <2>1 DEF Closed, StatesClosed, WillEnd, Blank
<1>4. QED
  BY <1>2, <1>3 DEF Closed

LEMMA ClosedPublish ==
    ASSUME ConstantsAssumption, Types, Closed, NEW a \in Agent, PublishStream(a)
    PROVE  Closed'
<1> DEFINE e == Head(turn[a].queue)
<1>1. /\ e \in EventOf(turns) /\ e.chat = turn[a].chat
      /\ stream \in Seq(EventOf(turns)) /\ stream' = Append(stream, e)
      /\ turn'[a].chat = turn[a].chat /\ \A b \in Agent \ {a} : turn'[b] = turn[b]
      /\ Open(turn'[a]) \/ e.type \in Terminals
      /\ states' = states /\ arriving' = arriving /\ inbound' = inbound
  BY PublishStep DEF chatVars
<1> HIDE DEF e
<1>2. /\ Len(stream) \in Nat /\ DOMAIN stream = 1 .. Len(stream)
      /\ DOMAIN stream' = 1 .. Len(stream) + 1 /\ stream'[Len(stream) + 1] = e
      /\ \A i \in 1 .. Len(stream) : stream'[i] = stream[i]
  BY <1>1, Appended
<1>3. ASSUME NEW c, NEW i \in Nat
      PROVE  EndsIn(stream, c, i) => EndsIn(stream', c, i)
  BY <1>1, EndsInAppended
<1>4. ASSUME NEW c, NEW i \in 1 .. Len(stream) + 1, Promised(c)
      PROVE  Promised(c)' \/ EndsIn(stream', c, i)
  <2>1. PICK b \in Agent : turn[b].chat = c /\ Open(turn[b])
    BY <1>4 DEF Promised
  <2>2. CASE b # a
    BY <1>1, <2>1, <2>2 DEF Promised
  <2>3. CASE b = a /\ Open(turn'[a])
    BY <1>1, <2>1, <2>3 DEF Promised
  <2>4. CASE b = a /\ e.type \in Terminals
    <3>1. e.chat = c /\ i \in Nat /\ i <= Len(stream) + 1
      BY <1>1, <1>2, <2>1, <2>4
    <3>2. QED
      BY <1>1, <2>4, <3>1, EndsInAppended
  <2>5. QED
    BY <1>1, <2>2, <2>3, <2>4
<1>5. EventsClosed'
  <2> SUFFICES ASSUME NEW i \in 1 .. Len(stream) + 1, NEW c, c = stream'[i].chat
               PROVE  EndsIn(stream', c, i) \/ Promised(c)'
    BY <1>2 DEF EventsClosed
  <2>1. CASE i \in 1 .. Len(stream)
    <3>1. stream[i].chat = c /\ i \in Nat
      BY <1>2, <2>1
    <3>2. EndsIn(stream, c, i) \/ Promised(c)
      BY <1>2, <2>1, <3>1 DEF Closed, EventsClosed
    <3>3. QED
      BY <1>3, <1>4, <3>1, <3>2
  <2>2. CASE i = Len(stream) + 1
    <3>1. e.chat = c /\ i \in Nat /\ i <= Len(stream) + 1 /\ turn'[a].chat = c
      BY <1>1, <1>2, <2>2
    <3>2. CASE Open(turn'[a])
      BY <3>1, <3>2 DEF Promised
    <3>3. CASE e.type \in Terminals
      BY <1>1, <3>1, <3>3, EndsInAppended
    <3>4. QED
      BY <1>1, <3>2, <3>3
  <2>3. QED
    BY <1>2, <2>1, <2>2
<1>6. StatesClosed'
  <2>1. ASSUME NEW c \in Chat, WillEnd(c) PROVE WillEnd(c)'
    <3>1. 1 \in Nat /\ 1 \in 1 .. Len(stream) + 1
      BY <1>2
    <3>2. QED
      BY <1>3, <1>4, <2>1, <3>1 DEF WillEnd
  <2>2. \A c \in Chat : Coming(c)' = Coming(c)
    BY <1>1 DEF Coming
  <2>3. QED
    BY <1>1, <2>1, <2>2 DEF Closed, StatesClosed, Blank
<1>7. QED
  BY <1>5, <1>6 DEF Closed

\* An event changes the state of its chat; the last of a turn removes it
LEMMA OthersKept ==
    ASSUME ConstantsAssumption, Counted, Display, NEW e, NEW s, Given(e, s), Handle(e, s)
    PROVE  /\ \A d \in Chat \ {e.chat} : states'[d] = states[d]
           /\ e.type \in Terminals => states'[e.chat] = None
<1>1. CASE e.type \in Terminals
  <2>1. states' = [states EXCEPT ![e.chat] = None] /\ e.chat \in Chat /\ DOMAIN states = Chat
    BY <1>1, Ending DEF Given, Display
  <2>2. QED
    BY <2>1
<1>2. CASE e.type \notin Terminals
  <2>1. PICK n : Evolves(e, s, n) /\ (Kept(e, s, n) \/ Update(e, n))
    BY <1>2, Evolution
  <2>2. PICK x : states' = [states EXCEPT ![e.chat] = x]
    <3>1. CASE Kept(e, s, n)
      BY <3>1 DEF Kept, Keep
    <3>2. CASE Update(e, n)
      <4>1. Given(e, n)
        BY <2>1 DEF Given, Evolves
      <4>2. QED
        BY <3>2, <4>1, Updated
    <3>3. QED
      BY <2>1, <3>1, <3>2
  <2>3. e.chat \in Chat /\ DOMAIN states = Chat
    BY DEF Given, Display
  <2>4. QED
    BY <1>2, <2>2, <2>3
<1>3. QED
  BY <1>1, <1>2

LEMMA ClosedTake ==
    ASSUME ConstantsAssumption, Types, Closed, HandleStream
    PROVE  Closed'
<1> DEFINE e == Head(stream)
<1>1. /\ stream \in Seq(EventOf(turns)) /\ stream # <<>> /\ stream' = Tail(stream)
      /\ turn' = turn /\ arriving' = arriving /\ inbound' = inbound
  BY Taken
<1>2. /\ e = stream[1] /\ Len(stream) \in Nat /\ Len(stream) > 0
      /\ DOMAIN stream = 1 .. Len(stream) /\ DOMAIN stream' = 1 .. Len(stream) - 1
      /\ \A i \in 1 .. Len(stream) - 1 : stream'[i] = stream[i + 1]
  BY <1>1, WithoutHead
<1>3. \A c : Promised(c)' = Promised(c) /\ Coming(c)' = Coming(c)
  BY <1>1 DEF Promised, Coming
<1>4. EventsClosed'
  <2> SUFFICES ASSUME NEW i \in 1 .. Len(stream) - 1, NEW c, c = stream'[i].chat
               PROVE  EndsIn(stream', c, i) \/ Promised(c)'
    BY <1>2 DEF EventsClosed
  <2>1. stream[i + 1].chat = c /\ i + 1 \in 1 .. Len(stream) /\ i \in Nat \ {0}
    BY <1>2
  <2>2. EndsIn(stream, c, i + 1) \/ Promised(c)
    BY <1>2, <2>1 DEF Closed, EventsClosed
  <2>3. EndsIn(stream, c, i + 1) => EndsIn(stream', c, i)
    BY <1>1, <2>1, EndsInTail
  <2>4. QED
    BY <1>3, <2>2, <2>3
<1>5. ASSUME NEW c \in Chat, ~(e.chat = c /\ e.type \in Terminals), WillEnd(c)
      PROVE  WillEnd(c)'
  <2>1. EndsIn(stream, c, 1) => EndsIn(stream', c, 1)
    BY <1>1, <1>2, <1>5, EndsInTail
  <2>2. QED
    BY <1>3, <1>5, <2>1 DEF WillEnd
<1>6. StatesClosed'
  <2> SUFFICES ASSUME NEW c \in Chat, states'[c] # None
               PROVE  WillEnd(c)' \/ (Coming(c)' /\ Blank(states'[c]))
    BY DEF StatesClosed, Blank
  <2>1. CASE e.chat \notin Chat \/ e.chat # c
    <3>1. states'[c] = states[c]
      BY <2>1, Taken, OthersKept DEF Types, chatVars
    <3>2. WillEnd(c) \/ (Coming(c) /\ Blank(states[c]))
      BY <3>1 DEF Closed, StatesClosed
    <3>3. QED
      BY <1>3, <1>5, <2>1, <3>1, <3>2 DEF Blank
  <2>2. CASE e.chat = c
    <3>1. Given(e, StateGiven(c)) /\ Handle(e, StateGiven(c))
      BY <2>2, Taken
    <3>2. e.type \notin Terminals
      BY <2>2, <3>1, OthersKept DEF Types
    <3>3. EndsIn(stream, c, 1) \/ Promised(c)
      BY <1>2, <2>2 DEF Closed, EventsClosed
    <3>4. QED
      BY <1>5, <3>2, <3>3 DEF WillEnd
  <2>3. QED
    BY <2>1, <2>2
<1>7. QED
  BY <1>4, <1>6 DEF Closed

LEMMA ClosedInit ==
    ASSUME Init
    PROVE  Closed
BY DEF Init, Closed, EventsClosed, StatesClosed

LEMMA ClosedNext ==
    ASSUME ConstantsAssumption, Types, Closed, [Next]_vars
    PROVE  Closed'
<1>1. CASE UNCHANGED vars
  <2>1. UNCHANGED <<stream, states>> /\ \A c : Promised(c)' = Promised(c) /\ Coming(c)' = Coming(c)
    BY <1>1 DEF vars, Promised, Coming
  <2>2. QED
    BY <2>1, ClosedGrows
<1>2. ASSUME NEW c \in UserChats, HandleMessage(c) PROVE Closed'
  <2>1. /\ UNCHANGED <<inbound, stream, turn>> /\ c \in Chat
        /\ arriving' = arriving \cup {[chat |-> c, id |-> turns + 1]}
        /\ states' = [states EXCEPT ![c] = IF @ = None THEN NewState ELSE @]
    BY <1>2, Constants DEF HandleMessage
  <2>2. EventsClosed'
    BY <2>1 DEF Closed, EventsClosed, EndsIn, Promised
  <2>3. \A d \in Chat : (WillEnd(d) => WillEnd(d)') /\ (Coming(d) => Coming(d)')
    BY <2>1 DEF WillEnd, EndsIn, Promised, Coming
  <2>4. Coming(c)' /\ Blank(NewState)
    <3>1. \E m \in arriving' : m.chat = c
      <4> DEFINE m == [chat |-> c, id |-> turns + 1]
      <4>1. m.chat = c /\ m \in arriving'
        BY <2>1
      <4> HIDE DEF m
      <4>2. QED
        BY <4>1
    <3>2. Blank(NewState)
      BY DEF Blank, NewState
    <3>3. QED
      BY <3>1, <3>2 DEF Coming
  <2>5. \A d \in Chat :
          states'[d] = IF d = c /\ states[d] = None THEN NewState ELSE states[d]
    BY <2>1 DEF Types, Display
  <2>6. StatesClosed'
    BY <2>3, <2>4, <2>5 DEF Closed, StatesClosed, Blank
  <2>7. QED
    BY <2>2, <2>6 DEF Closed
<1>3. ASSUME NEW m \in arriving, PublishInbound(m) PROVE Closed'
  <2>1. /\ arriving' = arriving \ {m} /\ inbound' = Append(inbound, m)
        /\ UNCHANGED <<stream, states, turn>> /\ inbound \in Seq(Arrived(turns))
        /\ m \in Arrived(turns)
    BY <1>3 DEF PublishInbound, chatVars, Types, Waiting
  <2>2. /\ Len(inbound) \in Nat /\ DOMAIN inbound = 1 .. Len(inbound)
        /\ DOMAIN inbound' = 1 .. Len(inbound) + 1 /\ inbound'[Len(inbound) + 1] = m
        /\ \A i \in 1 .. Len(inbound) : inbound'[i] = inbound[i]
    BY <2>1, Appended
  <2>3. ASSUME NEW c \in Chat, Coming(c) PROVE Coming(c)'
    <3>1. CASE \E i \in DOMAIN inbound : inbound[i].chat = c
      BY <2>2, <3>1 DEF Coming
    <3>2. CASE m.chat = c
      BY <2>2, <3>2 DEF Coming
    <3>3. CASE \E k \in arriving \ {m} : k.chat = c
      BY <2>1, <3>3 DEF Coming
    <3>4. QED
      BY <2>3, <3>1, <3>2, <3>3 DEF Coming
  <2>4. \A c : Promised(c)' = Promised(c)
    BY <2>1 DEF Promised
  <2>5. QED
    BY <2>1, <2>3, <2>4, ClosedGrows
<1>4. CASE ConsumeInbound
  <2> DEFINE m == Head(inbound)
  <2>1. /\ Begin("loop", m.id, m.chat) /\ inbound # <<>> /\ inbound' = Tail(inbound)
        /\ turn["loop"].stage = "idle" /\ UNCHANGED <<arriving, stream, states>>
        /\ inbound \in Seq(Arrived(turns)) /\ "loop" \in Agent
    BY <1>4 DEF ConsumeInbound, chatVars, Types, Waiting, Agent
  <2>2. /\ turn'["loop"].chat = m.chat /\ Open(turn'["loop"])
        /\ \A b \in Agent \ {"loop"} : turn'[b] = turn[b]
    BY <2>1, BeginStep
  <2>3. /\ m = inbound[1] /\ Len(inbound) \in Nat /\ DOMAIN inbound = 1 .. Len(inbound)
        /\ DOMAIN inbound' = 1 .. Len(inbound) - 1
        /\ \A i \in 1 .. Len(inbound) - 1 : inbound'[i] = inbound[i + 1]
    BY <2>1, WithoutHead
  <2>4. ASSUME NEW c, Promised(c) PROVE Promised(c)'
    BY <2>1, <2>2, <2>4 DEF Promised, Open
  <2>5. ASSUME NEW c, Coming(c) PROVE Coming(c)' \/ Promised(c)'
    <3>1. CASE \E k \in arriving : k.chat = c
      BY <2>1, <3>1 DEF Coming
    <3>2. ASSUME NEW i \in 1 .. Len(inbound), inbound[i].chat = c
          PROVE  Coming(c)' \/ Promised(c)'
      <4>1. CASE i = 1
        BY <2>1, <2>2, <2>3, <3>2, <4>1 DEF Promised
      <4>2. CASE i # 1
        <5>1. i - 1 \in 1 .. Len(inbound) - 1 /\ inbound'[i - 1] = inbound[i]
          BY <2>3, <4>2
        <5>2. QED
          BY <2>3, <3>2, <5>1 DEF Coming
      <4>3. QED
        BY <4>1, <4>2
    <3>3. QED
      BY <2>3, <2>5, <3>1, <3>2 DEF Coming
  <2>6. QED
    BY <2>1, <2>4, <2>5, ClosedGrows
<1>5. ASSUME NEW c \in DirectChats, ProcessDirect(c) PROVE Closed'
  <2>1. /\ Begin("direct", turns + 1, c) /\ turn["direct"].stage = "idle" /\ "direct" \in Agent
        /\ UNCHANGED <<arriving, inbound, stream, states>>
    BY <1>5 DEF ProcessDirect, chatVars, Agent
  <2>2. /\ Open(turn'["direct"]) /\ \A b \in Agent \ {"direct"} : turn'[b] = turn[b]
    BY <2>1, BeginStep
  <2>3. ASSUME NEW d PROVE (Promised(d) => Promised(d)') /\ Coming(d)' = Coming(d)
    BY <2>1, <2>2 DEF Promised, Open, Coming
  <2>4. QED
    BY <2>1, <2>3, ClosedGrows
<1>6. ASSUME NEW c \in DirectChats, Deliver(c) PROVE Closed'
  <2>1. UNCHANGED <<stream, states>> /\ \A d : Promised(d)' = Promised(d) /\ Coming(d)' = Coming(d)
    BY <1>6 DEF Deliver, chatVars, Promised, Coming
  <2>2. QED
    BY <2>1, ClosedGrows
<1>7. CASE Dispatch
  <2>1. UNCHANGED <<stream, states>> /\ \A d : Promised(d)' = Promised(d) /\ Coming(d)' = Coming(d)
    BY <1>7 DEF Dispatch, Promised, Coming
  <2>2. QED
    BY <2>1, ClosedGrows
<1>8. ASSUME NEW a \in Agent,
             Iterate(a) \/ LlmFails(a) \/ IterationsExhausted(a) \/ Finish(a)
      PROVE  Closed'
  <2>1. /\ turn'[a].chat = turn[a].chat /\ Open(turn'[a])
        /\ \A b \in Agent \ {a} : turn'[b] = turn[b]
        /\ UNCHANGED <<arriving, inbound, stream, states>>
    BY <1>8, TurnStep DEF chatVars
  <2>2. ASSUME NEW d PROVE (Promised(d) => Promised(d)') /\ Coming(d)' = Coming(d)
    BY <2>1 DEF Promised, Coming
  <2>3. QED
    BY <2>1, <2>2, ClosedGrows
<1>9. ASSUME NEW a \in Agent, Return(a) PROVE Closed'
  <2>1. /\ turn' = [turn EXCEPT ![a] = Idle] /\ ~Open(turn[a])
        /\ UNCHANGED <<arriving, inbound, stream, states>>
    BY <1>9 DEF Return, Open, chatVars
  <2>2. \A b \in Agent : b # a => turn'[b] = turn[b]
    BY <2>1 DEF Types, Running
  <2>3. ASSUME NEW d PROVE (Promised(d) => Promised(d)') /\ Coming(d)' = Coming(d)
    BY <2>1, <2>2 DEF Promised, Coming
  <2>4. QED
    BY <2>1, <2>3, ClosedGrows
<1>10. QED
  BY <1>1, <1>2, <1>3, <1>4, <1>5, <1>6, <1>7, <1>8, <1>9, ClosedPublish, ClosedTake
     DEF Next, Run

LEMMA ClosedInvariant == Spec => [](Types /\ Closed)
<1>1. Init => Types /\ Closed
  BY TypesInit, ClosedInit, ConstantsAssumption
<1>2. Types /\ Closed /\ [Next]_vars => (Types /\ Closed)'
  BY TypesNext, ClosedNext, ConstantsAssumption
<1>3. QED
  BY <1>1, <1>2, PTL DEF Spec

\* No stream state is left behind: a chat that has one has a message under way to the loop, an
\* event in the channel, or a turn.  This holds also when jobs report to the chats users write
\* in.
THEOREM NothingLeftBehind == Spec => []QuietChatHasNoState
<1>1. Closed => QuietChatHasNoState
  BY DEF Closed, StatesClosed, WillEnd, Promised, EndsIn, Coming, QuietChatHasNoState
<1>2. QED
  BY <1>1, ClosedInvariant, PTL

-----------------------------------------------------------------------------
\* A message shows one turn, where jobs do not report to the chats users write in

Disjoint == UserChats \cap DirectChats = {}

\* Events of two turns of a chat have the end of the first between them
Apart ==
    \A i, j \in DOMAIN stream :
      i < j /\ stream[i].chat = stream[j].chat /\ stream[i].turn # stream[j].turn
        => \E k \in i .. j - 1 : stream[k].chat = stream[i].chat /\ stream[k].type \in Terminals

\* What an earlier turn published is closed when a turn publishes
OwnTurn ==
    \A a \in Agent : turn[a].stage # "idle" =>
      \A i \in DOMAIN stream :
        stream[i].chat = turn[a].chat /\ stream[i].turn # turn[a].id
          => EndsIn(stream, turn[a].chat, i)

Told(x, t) == \A i \in DOMAIN x : x[i][1] = t

\* All that a state holds comes from one turn, and so does its message
Holds(s, t) == /\ \A p \in s.parts : Told(p.text, t)
               /\ s.current # None => Told(s.current.text, t)
From(s, t, w) == Holds(s, t) /\ (s.message # 0 => w[s.message].turn = t)

\* The next event of a chat is of the turn its state is from
First(i, c) == /\ stream[i].chat = c
               /\ \A k \in 1 .. i - 1 : ~(stream[k].chat = c /\ stream[k].type \in Terminals)
SourcedAt(c) ==
    /\ \A i \in DOMAIN stream : First(i, c) => From(states[c], stream[i].turn, shown)
    /\ \A a \in Agent : turn[a].chat = c /\ ~EndsIn(stream, c, 1)
                         => From(states[c], turn[a].id, shown)
Sourced == \A c \in Chat : states[c] # None => SourcedAt(c)

Separate == Apart /\ OwnTurn /\ Sourced

LEMMA OneServes ==
    ASSUME ConstantsAssumption, Types, Disjoint, NEW a \in Agent, NEW b \in Agent,
           turn[a].chat = turn[b].chat, turn[a].chat # None
    PROVE  a = b
BY InTurn DEF Disjoint, Agent

LEMMA BlankIsFrom ==
    ASSUME NEW s, Blank(s), NEW t, NEW w
    PROVE  From(s, t, w)
BY DEF Blank, From, Holds

\* Longer texts
LEMMA ToldMore ==
    ASSUME NEW x \in Text, NEW t \in 0 .. MaxTurns, NEW part \in Nat, Told(x, t)
    PROVE  Told(Append(x, <<t, part>>), t)
<1>1. <<t, part>> \in (0 .. MaxTurns) \X Nat /\ x \in Seq((0 .. MaxTurns) \X Nat)
  BY DEF Text
<1>2. /\ DOMAIN x = 1 .. Len(x) /\ DOMAIN Append(x, <<t, part>>) = 1 .. Len(x) + 1
      /\ Len(x) \in Nat /\ Append(x, <<t, part>>)[Len(x) + 1] = <<t, part>>
      /\ \A i \in 1 .. Len(x) : Append(x, <<t, part>>)[i] = x[i]
  BY <1>1, Appended
<1>3. <<t, part>>[1] = t
  OBVIOUS
<1>4. QED
  BY <1>2, <1>3 DEF Told

\* Shorter ones
LEMMA ToldLess ==
    ASSUME NEW x \in Text, NEW n \in Nat, NEW t, Told(x, t)
    PROVE  Told(Cut(x, n), t)
BY CutText DEF Told

LEMMA ShowableTold ==
    ASSUME ConstantsAssumption, NEW m \in Nat, NEW s \in StateOf(m), NEW t, Holds(s, t),
           NEW text \in Showable(s)
    PROVE  Told(text, t)
<1>1. PICK final \in FinalTexts(s) : text = Cut(final, Limit)
  BY DEF Showable
<1>2. Told(<<>>, t)
  BY DEF Told
<1>3. \A x \in Texts(s) : Told(x, t)
  BY DEF Texts, Holds
<1>4. Told(final, t)
  BY <1>2, <1>3 DEF FinalTexts, Holds
<1>5. QED
  BY <1>1, <1>4, FinalTextsTyped, ToldLess, Constants

LEMMA EvolvedHolds ==
    ASSUME ConstantsAssumption, Counted, Display, NEW e, NEW s, NEW n, Given(e, s),
           Evolves(e, s, n), From(s, e.turn, shown)
    PROVE  From(n, e.turn, shown)
<1>1. /\ e.turn \in 0 .. MaxTurns /\ e.part \in Nat /\ s \in StateOf(Len(shown))
      /\ Len(shown) \in Nat
  BY GivenFields DEF Given, TurnId
<1>2. \A p \in s.parts : p.text \in Text
  BY <1>1, Fields DEF Parts
<1>3. ASSUME NEW p \in n.parts PROVE Told(p.text, e.turn)
  <2>1. CASE p \in s.parts
    BY <2>1 DEF From, Holds
  <2>2. CASE p.text = <<>>
    BY <2>2 DEF Told
  <2>3. ASSUME NEW q \in s.parts, p.text = Append(q.text, <<e.turn, e.part>>)
        PROVE  Told(p.text, e.turn)
    <3>1. Told(q.text, e.turn) /\ q.text \in Text
      BY <1>2 DEF From, Holds
    <3>2. QED
      BY <1>1, <2>3, <3>1, ToldMore
  <2>4. ASSUME NEW q \in s.parts, NEW k \in Nat, p.text = Cut(q.text, k)
        PROVE  Told(p.text, e.turn)
    BY <1>2, <2>4, ToldLess DEF From, Holds
  <2>5. QED
    BY <2>1, <2>2, <2>3, <2>4 DEF Evolves
<1>4. n.current # None => Told(n.current.text, e.turn)
  BY <1>3 DEF Evolves, From, Holds
<1>5. QED
  BY <1>3, <1>4 DEF Evolves, From, Holds

\* Steps of turns

LEMMA ApartPublish ==
    ASSUME ConstantsAssumption, Types, Apart, OwnTurn, NEW a \in Agent, PublishStream(a)
    PROVE  Apart'
<1> DEFINE e == Head(turn[a].queue)
<1>1. /\ e \in EventOf(turns) /\ e.chat = turn[a].chat /\ e.turn = turn[a].id
      /\ stream \in Seq(EventOf(turns)) /\ stream' = Append(stream, e)
      /\ turn[a].stage # "idle"
  BY PublishStep
<1> HIDE DEF e
<1>2. /\ Len(stream) \in Nat /\ DOMAIN stream = 1 .. Len(stream)
      /\ DOMAIN stream' = 1 .. Len(stream) + 1 /\ stream'[Len(stream) + 1] = e
      /\ \A i \in 1 .. Len(stream) : stream'[i] = stream[i]
  BY <1>1, Appended
<1> SUFFICES ASSUME NEW i \in 1 .. Len(stream) + 1, NEW j \in 1 .. Len(stream) + 1, i < j,
                    stream'[i].chat = stream'[j].chat, stream'[i].turn # stream'[j].turn
             PROVE  \E k \in i .. j - 1 :
                      stream'[k].chat = stream'[i].chat /\ stream'[k].type \in Terminals
  BY <1>2 DEF Apart
<1>3. i \in 1 .. Len(stream) /\ stream'[i] = stream[i]
  BY <1>2
<1>4. \E k \in i .. j - 1 : stream[k].chat = stream[i].chat /\ stream[k].type \in Terminals
  <2>1. CASE j \in 1 .. Len(stream)
    BY <1>2, <1>3, <2>1 DEF Apart
  <2>2. CASE j = Len(stream) + 1
    <3>1. stream[i].chat = turn[a].chat /\ stream[i].turn # turn[a].id
      BY <1>1, <1>2, <1>3, <2>2
    <3>2. PICK k \in 1 .. Len(stream) :
             k >= i /\ stream[k].chat = turn[a].chat /\ stream[k].type \in Terminals
      BY <1>1, <1>2, <1>3, <3>1 DEF OwnTurn, EndsIn
    <3>3. k \in i .. j - 1
      BY <1>2, <2>2, <3>2
    <3>4. QED
      BY <3>1, <3>2, <3>3
  <2>3. QED
    BY <1>2, <2>1, <2>2
<1>5. \A k \in i .. j - 1 : stream'[k] = stream[k]
  BY <1>2
<1>6. QED
  BY <1>3, <1>4, <1>5

LEMMA OwnTurnPublish ==
    ASSUME ConstantsAssumption, Types, Disjoint, OwnTurn, NEW a \in Agent, PublishStream(a)
    PROVE  OwnTurn'
<1> DEFINE e == Head(turn[a].queue)
<1>1. /\ e \in EventOf(turns) /\ e.chat = turn[a].chat /\ e.turn = turn[a].id
      /\ stream \in Seq(EventOf(turns)) /\ stream' = Append(stream, e)
      /\ turn[a].stage # "idle" /\ e.chat \in AnyChat
      /\ \A b \in Agent : /\ turn'[b].stage = turn[b].stage /\ turn'[b].chat = turn[b].chat
                          /\ turn'[b].id = turn[b].id
  BY PublishStep
<1> HIDE DEF e
<1>2. /\ Len(stream) \in Nat /\ DOMAIN stream = 1 .. Len(stream)
      /\ DOMAIN stream' = 1 .. Len(stream) + 1 /\ stream'[Len(stream) + 1] = e
      /\ \A i \in 1 .. Len(stream) : stream'[i] = stream[i]
  BY <1>1, Appended
<1> SUFFICES ASSUME NEW b \in Agent, turn[b].stage # "idle", NEW i \in 1 .. Len(stream) + 1,
                    stream'[i].chat = turn[b].chat, stream'[i].turn # turn[b].id
             PROVE  EndsIn(stream', turn[b].chat, i)
  BY <1>1, <1>2 DEF OwnTurn
<1>3. CASE i \in 1 .. Len(stream)
  <2>1. EndsIn(stream, turn[b].chat, i) /\ i \in Nat
    BY <1>2, <1>3 DEF OwnTurn
  <2>2. QED
    BY <1>1, <2>1, EndsInAppended
<1>4. CASE i = Len(stream) + 1
  <2>1. e.chat = turn[b].chat /\ e.turn # turn[b].id
    BY <1>2, <1>4
  <2>2. turn[a].chat = turn[b].chat /\ turn[a].chat # None
    BY <1>1, <2>1, Constants
  <2>3. a = b
    BY <2>2, OneServes
  <2>4. QED
    BY <1>1, <2>1, <2>3
<1>5. QED
  BY <1>2, <1>3, <1>4

LEMMA SourcedPublish ==
    ASSUME ConstantsAssumption, Types, Sourced, NEW a \in Agent, PublishStream(a)
    PROVE  Sourced'
<1> DEFINE e == Head(turn[a].queue)
<1>1. /\ e \in EventOf(turns) /\ e.chat = turn[a].chat /\ e.turn = turn[a].id
      /\ stream \in Seq(EventOf(turns)) /\ stream' = Append(stream, e)
      /\ \A b \in Agent : turn'[b].chat = turn[b].chat /\ turn'[b].id = turn[b].id
      /\ states' = states /\ shown' = shown
  BY PublishStep DEF chatVars
<1> HIDE DEF e
<1>2. /\ Len(stream) \in Nat /\ DOMAIN stream = 1 .. Len(stream)
      /\ DOMAIN stream' = 1 .. Len(stream) + 1 /\ stream'[Len(stream) + 1] = e
      /\ \A i \in 1 .. Len(stream) : stream'[i] = stream[i]
  BY <1>1, Appended
<1> SUFFICES ASSUME NEW c \in Chat, states[c] # None PROVE SourcedAt(c)'
  BY <1>1 DEF Sourced
<1>3. SourcedAt(c)
  BY DEF Sourced
<1>4. ASSUME NEW i \in 1 .. Len(stream) + 1, First(i, c)'
      PROVE  From(states[c], stream'[i].turn, shown)
  <2>1. stream'[i].chat = c
        /\ \A k \in 1 .. i - 1 : ~(stream'[k].chat = c /\ stream'[k].type \in Terminals)
    BY <1>4 DEF First
  <2>2. \A k \in 1 .. i - 1 : ~(stream[k].chat = c /\ stream[k].type \in Terminals)
    BY <1>2, <2>1
  <2>3. CASE i \in 1 .. Len(stream)
    BY <1>2, <1>3, <2>1, <2>2, <2>3 DEF First, SourcedAt
  <2>4. CASE i = Len(stream) + 1
    <3>1. e.chat = c /\ stream'[i] = e
      BY <1>2, <2>1, <2>4
    <3>2. ~EndsIn(stream, c, 1)
      BY <1>2, <2>2, <2>4 DEF EndsIn
    <3>3. QED
      BY <1>1, <1>3, <3>1, <3>2 DEF SourcedAt
  <2>5. QED
    BY <1>2, <2>3, <2>4
<1>5. ASSUME NEW b \in Agent, turn[b].chat = c, ~EndsIn(stream', c, 1)
      PROVE  From(states[c], turn[b].id, shown)
  <2>1. ~EndsIn(stream, c, 1)
    BY <1>1, <1>5, EndsInAppended
  <2>2. QED
    BY <1>3, <1>5, <2>1 DEF SourcedAt
<1>6. QED
  BY <1>1, <1>2, <1>4, <1>5 DEF SourcedAt

\* A turn goes on, or ends: the others keep what they had, and it its chat and its number
LEMMA SeparateGoesOn ==
    ASSUME ConstantsAssumption, Types, Separate, UNCHANGED <<stream, states, shown>>,
           \A b \in Agent :
             \/ /\ turn'[b].chat = turn[b].chat /\ turn'[b].id = turn[b].id
                /\ turn[b].stage # "idle" \/ turn'[b].stage = "idle"
             \/ turn'[b].chat = None /\ turn'[b].stage = "idle"
    PROVE  Separate'
<1>1. Apart'
  BY DEF Separate, Apart
<1>2. OwnTurn'
  BY DEF Separate, OwnTurn, EndsIn
<1>3. Sourced'
  <2> SUFFICES ASSUME NEW c \in Chat, states[c] # None PROVE SourcedAt(c)'
    BY DEF Sourced
  <2>1. c # None /\ SourcedAt(c)
    BY Constants DEF Separate, Sourced, AnyChat
  <2>2. \A b \in Agent : turn'[b].chat = c => turn[b].chat = c /\ turn'[b].id = turn[b].id
    BY <2>1
  <2>3. \A i \in DOMAIN stream : First(i, c)' = First(i, c)
    BY DEF First
  <2>4. EndsIn(stream, c, 1)' = EndsIn(stream, c, 1)
    BY DEF EndsIn
  <2>5. QED
    BY <2>1, <2>2, <2>3, <2>4 DEF SourcedAt
<1>4. QED
  BY <1>1, <1>2, <1>3 DEF Separate

LEMMA SeparateBegin ==
    ASSUME ConstantsAssumption, Types, Disjoint, Closed, Separate,
           NEW a \in Agent, NEW t, NEW c \in AnyChat, c \in Served(a), turn[a].stage = "idle",
           Begin(a, t, c), UNCHANGED <<stream, states, shown>>
    PROVE  Separate'
<1>1. /\ turn'[a].chat = c /\ turn'[a].id = t /\ \A b \in Agent \ {a} : turn'[b] = turn[b]
  BY BeginStep
<1>2. c # None /\ c \in (IF a = "loop" THEN UserChats ELSE DirectChats)
  BY Constants DEF Served
<1>3. \A b \in Agent \ {a} : turn[b].chat # c
  BY <1>2, InTurn DEF Disjoint, Agent
<1>4. ~Promised(c)
  BY <1>3 DEF Promised, Open
<1>5. Apart'
  BY DEF Separate, Apart
<1>6. OwnTurn'
  <2>1. \A i \in DOMAIN stream : stream[i].chat = c => EndsIn(stream, c, i)
    BY <1>4 DEF Closed, EventsClosed
  <2>2. QED
    BY <1>1, <2>1 DEF Separate, OwnTurn, EndsIn
<1>7. Sourced'
  <2> SUFFICES ASSUME NEW d \in Chat, states[d] # None PROVE SourcedAt(d)'
    BY DEF Sourced
  <2>1. SourcedAt(d)
    BY DEF Separate, Sourced
  <2>2. CASE d # c
    BY <1>1, <2>1, <2>2 DEF SourcedAt, First, EndsIn
  <2>3. CASE d = c
    <3>1. EndsIn(stream, c, 1) \/ Blank(states[c])
      BY <1>4, <2>3 DEF Closed, StatesClosed, WillEnd
    <3>2. \A x : EndsIn(stream, c, 1) \/ From(states[c], x, shown)
      BY <3>1, BlankIsFrom
    <3>3. QED
      BY <2>1, <2>3, <3>2 DEF SourcedAt, First, EndsIn
  <2>4. QED
    BY <2>2, <2>3
<1>8. QED
  BY <1>5, <1>6, <1>7 DEF Separate

\* The stream goroutine takes an event

LEMMA TakenIndex ==
    ASSUME ConstantsAssumption, Types, HandleStream
    PROVE  /\ Len(stream) \in Nat /\ Len(stream) > 0 /\ Head(stream) = stream[1]
           /\ DOMAIN stream = 1 .. Len(stream) /\ DOMAIN stream' = 1 .. Len(stream) - 1
           /\ \A i \in 1 .. Len(stream) - 1 : /\ stream'[i] = stream[i + 1] /\ i + 1 \in 1 .. Len(stream)
                                              /\ i \in Nat \ {0}
           /\ stream \in Seq(EventOf(turns)) /\ stream # <<>> /\ stream' = Tail(stream)
           /\ turn' = turn
BY Taken, WithoutHead

LEMMA ApartTake ==
    ASSUME ConstantsAssumption, Types, Apart, HandleStream
    PROVE  Apart'
<1>1. /\ Len(stream) \in Nat /\ DOMAIN stream = 1 .. Len(stream)
      /\ DOMAIN stream' = 1 .. Len(stream) - 1
      /\ \A i \in 1 .. Len(stream) - 1 : stream'[i] = stream[i + 1] /\ i + 1 \in 1 .. Len(stream)
  BY TakenIndex
<1> SUFFICES ASSUME NEW i \in 1 .. Len(stream) - 1, NEW j \in 1 .. Len(stream) - 1, i < j,
                    stream'[i].chat = stream'[j].chat, stream'[i].turn # stream'[j].turn
             PROVE  \E k \in i .. j - 1 :
                      stream'[k].chat = stream'[i].chat /\ stream'[k].type \in Terminals
  BY <1>1 DEF Apart
<1>2. PICK k \in i + 1 .. (j + 1) - 1 :
         stream[k].chat = stream[i + 1].chat /\ stream[k].type \in Terminals
  <2>1. i + 1 < j + 1 /\ i + 1 \in DOMAIN stream /\ j + 1 \in DOMAIN stream
    BY <1>1
  <2>2. /\ stream[i + 1].chat = stream[j + 1].chat /\ stream[i + 1].turn # stream[j + 1].turn
    BY <1>1
  <2>3. QED
    BY <2>1, <2>2 DEF Apart
<1>3. k - 1 \in i .. j - 1 /\ k - 1 \in 1 .. Len(stream) - 1 /\ (k - 1) + 1 = k
  BY <1>1
<1>4. stream'[k - 1] = stream[k] /\ stream'[i] = stream[i + 1]
  BY <1>1, <1>3
<1>5. QED
  BY <1>2, <1>3, <1>4

LEMMA OwnTurnTake ==
    ASSUME ConstantsAssumption, Types, OwnTurn, HandleStream
    PROVE  OwnTurn'
<1>1. /\ DOMAIN stream = 1 .. Len(stream) /\ DOMAIN stream' = 1 .. Len(stream) - 1
      /\ \A i \in 1 .. Len(stream) - 1 : /\ stream'[i] = stream[i + 1] /\ i + 1 \in 1 .. Len(stream)
                                         /\ i \in Nat \ {0}
      /\ stream \in Seq(EventOf(turns)) /\ stream # <<>> /\ stream' = Tail(stream)
      /\ turn' = turn
  BY TakenIndex
<1> SUFFICES ASSUME NEW a \in Agent, turn[a].stage # "idle", NEW i \in 1 .. Len(stream) - 1,
                    stream'[i].chat = turn[a].chat, stream'[i].turn # turn[a].id
             PROVE  EndsIn(stream', turn[a].chat, i)
  BY <1>1 DEF OwnTurn
<1>2. EndsIn(stream, turn[a].chat, i + 1)
  BY <1>1 DEF OwnTurn
<1>3. QED
  BY <1>1, <1>2, EndsInTail

\* The state an event is given holds what its turn published
LEMMA GivenFrom ==
    ASSUME ConstantsAssumption, Types, Sourced, HandleStream, NEW c \in Chat,
           Head(stream).chat = c
    PROVE  From(StateGiven(c), Head(stream).turn, shown)
<1>1. Head(stream) = stream[1] /\ 1 \in DOMAIN stream
  BY TakenIndex
<1>2. CASE states[c] = None
  <2>1. Blank(NewState)
    BY DEF Blank, NewState
  <2>2. QED
    BY <1>2, <2>1, BlankIsFrom DEF StateGiven
<1>3. CASE states[c] # None
  <2>1. First(1, c)
    BY <1>1 DEF First
  <2>2. QED
    BY <1>1, <1>3, <2>1 DEF Sourced, SourcedAt, StateGiven
<1>4. QED
  BY <1>2, <1>3

LEMMA OneMore ==
    ASSUME NEW a \in Nat, NEW b \in Nat, b <= a + 1, NEW m \in 1 .. b
    PROVE  m \in 1 .. a \/ (m = b /\ b > a)
OBVIOUS

\* Messages keep the turn they are of, and one that is written shows it
LEMMA WrittenFrom ==
    ASSUME ConstantsAssumption, Types, NoMixedText, NEW s, NEW t, NEW text, NEW y,
           s.message \in 0 .. Len(shown), From(s, t, shown), Told(text, t),
           Rewritten(shown, y, s.message, t, text)
    PROVE  \A m \in DOMAIN y : y[m].form \in {"progress", "calls", "final"} => Told(y[m].text, y[m].turn)
<1>1. /\ shown \in Seq(Message0) /\ Len(shown) \in Nat /\ DOMAIN shown = 1 .. Len(shown)
      /\ DOMAIN y = 1 .. Len(y) /\ Len(y) \in Nat
  BY LenProperties DEF Types, Display, Rewritten
<1> SUFFICES ASSUME NEW m \in 1 .. Len(y), y[m].form \in {"progress", "calls", "final"}
             PROVE  Told(y[m].text, y[m].turn)
  BY <1>1
<1>2. Told(<<>>, t)
  BY DEF Told
<1>3. CASE m \in 1 .. Len(shown)
  <2>1. CASE y[m] = shown[m]
    BY <1>1, <1>3, <2>1 DEF NoMixedText, Told
  <2>2. CASE m = s.message /\ y[m].text \in {text, <<>>}
    <3>1. y[m].turn = t
      BY <1>1, <1>3, <2>2 DEF Rewritten, From
    <3>2. QED
      BY <1>2, <2>2, <3>1
  <2>3. QED
    BY <1>3, <2>1, <2>2 DEF Rewritten
<1>4. CASE m = Len(y) /\ Len(y) > Len(shown)
  BY <1>4 DEF Rewritten
<1>5. m \in 1 .. Len(shown) \/ (m = Len(y) /\ Len(y) > Len(shown))
  <2>1. Len(y) <= Len(shown) + 1
    BY DEF Rewritten
  <2>2. QED
    BY <1>1, <2>1, OneMore
<1>6. QED
  BY <1>3, <1>4, <1>5

\* Whatever the event, it leaves behind what is of its turn, and no message changes its turn
LEMMA HandledFrom ==
    ASSUME ConstantsAssumption, Types, Sourced, NoMixedText, HandleStream,
           NEW c \in Chat, Head(stream).chat = c
    PROVE  /\ states'[c] # None =>
                /\ Head(stream).type \notin Terminals
                /\ From(states'[c], Head(stream).turn, shown')
           /\ \A m \in 1 .. Len(shown) : shown'[m].turn = shown[m].turn
           /\ NoMixedText'
<1> DEFINE e == Head(stream)
           s == StateGiven(c)
<1>1. Given(e, s) /\ Handle(e, s) /\ From(s, e.turn, shown) /\ Counted /\ Display
  BY Taken, GivenFrom DEF Types
<1>2. /\ e.chat = c /\ DOMAIN states = Chat /\ Len(shown) \in Nat /\ s \in StateOf(Len(shown))
      /\ s.message \in 0 .. Len(shown)
  BY <1>1, GivenFields, Fields DEF Given, Display
<1> HIDE DEF e, s
<1>3. CASE e.type \in Terminals
  <2>1. states'[c] = None
    BY <1>1, <1>2, <1>3, Ending
  <2>2. PICK text \in Showable(s) \cup {<<>>} :
           Rewritten(shown, shown', s.message, e.turn, text)
    BY <1>1, <1>3, Ending
  <2>3. Told(text, e.turn)
    BY <1>1, <1>2, ShowableTold, ConstantsAssumption DEF From, Told
  <2>4. NoMixedText'
    <3>1. \A i \in DOMAIN shown' :
           shown'[i].form \in {"progress", "calls", "final"} => Told(shown'[i].text, shown'[i].turn)
      BY <1>1, <1>2, <2>2, <2>3, WrittenFrom
    <3>2. QED
      BY <3>1 DEF NoMixedText, Told
  <2>5. QED
    BY <2>1, <2>2, <2>4 DEF Rewritten
<1>4. CASE e.type \notin Terminals
  <2>1. PICK n : Evolves(e, s, n) /\ (Kept(e, s, n) \/ Update(e, n))
    BY <1>1, <1>4, Evolution
  <2>2. /\ From(n, e.turn, shown) /\ Given(e, n) /\ n \in StateOf(Len(shown))
        /\ n.message \in 0 .. Len(shown)
    BY <1>1, <1>2, <2>1, EvolvedHolds, Fields DEF Evolves, Given
  <2>3. CASE Kept(e, s, n)
    <3>1. states'[c] = n /\ shown' = shown
      BY <1>2, <2>3 DEF Kept, Keep
    <3>2. NoMixedText'
      BY <3>1 DEF NoMixedText
    <3>3. QED
      BY <1>4, <2>2, <3>1, <3>2 DEF e
  <2>4. CASE Update(e, n)
    <3>1. PICK text \in Showable(n), m \in 0 .. Len(shown') :
             /\ Rewritten(shown, shown', n.message, e.turn, text)
             /\ m = n.message \/ (m = Len(shown') /\ Len(shown') = Len(shown) + 1)
             /\ states' = [states EXCEPT ![e.chat] = [n EXCEPT !.message = m]]
             /\ faults' \in 0 .. MaxFaults
      BY <1>1, <2>2, <2>4, Updated
    <3>2. Told(text, e.turn)
      BY <1>2, <2>2, <3>1, ShowableTold, ConstantsAssumption DEF From
    <3>3. NoMixedText'
      <4>1. \A i \in DOMAIN shown' :
             shown'[i].form \in {"progress", "calls", "final"} => Told(shown'[i].text, shown'[i].turn)
        BY <2>2, <3>1, <3>2, WrittenFrom
      <4>2. QED
        BY <4>1 DEF NoMixedText, Told
    <3> DEFINE k == [n EXCEPT !.message = m]
    <3>4. states'[c] = k /\ k.parts = n.parts /\ k.current = n.current /\ k.message = m
      BY <1>2, <2>2, <3>1 DEF StateOf
    <3> HIDE DEF k
    <3>5. m # 0 => shown'[m].turn = e.turn
      <4>1. CASE m = n.message
        BY <1>2, <2>2, <3>1, <4>1 DEF Rewritten, From
      <4>2. CASE m = Len(shown') /\ Len(shown') = Len(shown) + 1
        <5>1. Len(shown') > Len(shown)
          BY <1>2, <4>2
        <5>2. QED
          BY <3>1, <4>2, <5>1 DEF Rewritten
      <4>3. QED
        BY <3>1, <4>1, <4>2
    <3>6. From(states'[c], e.turn, shown')
      BY <2>2, <3>4, <3>5 DEF From, Holds
    <3>7. QED
      BY <1>4, <3>1, <3>3, <3>6 DEF Rewritten, e
  <2>5. QED
    BY <2>1, <2>3, <2>4
<1>5. QED
  BY <1>3, <1>4

LEMMA SourcedTake ==
    ASSUME ConstantsAssumption, Types, Separate, NoMixedText, HandleStream
    PROVE  Sourced'
<1> DEFINE e == Head(stream)
<1>1. /\ Len(stream) \in Nat /\ Len(stream) > 0 /\ e = stream[1] /\ DOMAIN stream = 1 .. Len(stream)
      /\ DOMAIN stream' = 1 .. Len(stream) - 1
      /\ \A i \in 1 .. Len(stream) - 1 :
           stream'[i] = stream[i + 1] /\ i + 1 \in 1 .. Len(stream) /\ i \in Nat \ {0}
      /\ stream \in Seq(EventOf(turns)) /\ stream # <<>> /\ stream' = Tail(stream)
      /\ turn' = turn
  BY TakenIndex
<1> HIDE DEF e
<1> SUFFICES ASSUME NEW c \in Chat, states'[c] # None PROVE SourcedAt(c)'
  BY DEF Sourced
\* The first event of c in what is left was the first after e, or e's successor in c
<1>2. ASSUME NEW i \in 1 .. Len(stream) - 1, First(i, c)', ~(e.chat = c /\ e.type \in Terminals)
      PROVE  First(i + 1, c) /\ stream[i + 1] = stream'[i]
  <2>1. stream'[i].chat = c
        /\ \A k \in 1 .. i - 1 : ~(stream'[k].chat = c /\ stream'[k].type \in Terminals)
    BY <1>2 DEF First
  <2>2. ASSUME NEW k \in 1 .. (i + 1) - 1
        PROVE  ~(stream[k].chat = c /\ stream[k].type \in Terminals)
    <3>1. CASE k = 1
      BY <1>1, <1>2, <3>1
    <3>2. CASE k # 1
      <4>1. k - 1 \in 1 .. i - 1 /\ k - 1 \in 1 .. Len(stream) - 1 /\ (k - 1) + 1 = k
        BY <1>1, <3>2
      <4>2. stream'[k - 1] = stream[k]
        BY <1>1, <4>1
      <4>3. QED
        BY <2>1, <4>1, <4>2
    <3>3. QED
      BY <3>1, <3>2
  <2>3. QED
    BY <1>1, <2>1, <2>2 DEF First
<1>3. EndsIn(stream', c, 1) \/ (e.chat = c /\ e.type \in Terminals) \/ ~EndsIn(stream, c, 1)
  BY <1>1, EndsInTail
<1>4. CASE e.chat # c
  <2>1. states'[c] = states[c] /\ SourcedAt(c) /\ states[c] \in StateOf(Len(shown))
    <3>1. states'[c] = states[c]
      BY <1>4, Taken, OthersKept DEF Types, chatVars, e
    <3>2. QED
      BY <3>1 DEF Separate, Sourced, Types, Display
  <2>2. \A m \in 1 .. Len(shown) : shown'[m].turn = shown[m].turn
    BY Taken, HandledFrom DEF Separate, chatVars
  <2>3. states[c].message \in 0 .. Len(shown)
    BY <2>1 DEF StateOf
  <2>4. ASSUME NEW t, From(states[c], t, shown) PROVE From(states'[c], t, shown')
    BY <2>1, <2>2, <2>3, <2>4 DEF From
  <2>5. ASSUME NEW i \in DOMAIN stream', First(i, c)'
        PROVE  From(states'[c], stream'[i].turn, shown')
    <3>1. First(i + 1, c) /\ stream[i + 1] = stream'[i] /\ i + 1 \in DOMAIN stream
      BY <1>1, <1>2, <1>4, <2>5
    <3>2. QED
      BY <2>1, <2>4, <3>1 DEF SourcedAt
  <2>6. ASSUME NEW a \in Agent, turn[a].chat = c, ~EndsIn(stream', c, 1)
        PROVE  From(states'[c], turn[a].id, shown')
    BY <1>3, <1>4, <2>1, <2>4, <2>6 DEF SourcedAt
  <2>7. QED
    BY <1>1, <2>5, <2>6 DEF SourcedAt
<1>5. CASE e.chat = c
  <2>1. e.type \notin Terminals /\ From(states'[c], e.turn, shown')
    BY <1>5, HandledFrom DEF Separate, e
  <2>2. ASSUME NEW i \in DOMAIN stream', First(i, c)' PROVE stream'[i].turn = e.turn
    <3>1. First(i + 1, c) /\ stream[i + 1] = stream'[i] /\ i + 1 \in DOMAIN stream /\ 1 < i + 1
          /\ 1 \in DOMAIN stream
      BY <1>1, <1>2, <2>1, <2>2
    <3>2. stream[1].chat = stream[i + 1].chat /\ stream[1].chat = c
      BY <1>1, <1>5, <3>1 DEF First
    <3>3. ~\E k \in 1 .. (i + 1) - 1 : stream[k].chat = stream[1].chat /\ stream[k].type \in Terminals
      BY <3>1, <3>2 DEF First
    <3>4. stream[1].turn = stream[i + 1].turn
      BY <3>1, <3>2, <3>3 DEF Separate, Apart
    <3>5. QED
      BY <1>1, <3>1, <3>4
  <2>3. ASSUME NEW a \in Agent, turn[a].chat = c, ~EndsIn(stream', c, 1) PROVE turn[a].id = e.turn
    <3>1. turn[a].stage # "idle"
      BY <2>3, InTurn, Constants DEF AnyChat
    <3>2. ~EndsIn(stream, c, 1)
      BY <1>3, <2>1, <2>3
    <3>3. QED
      BY <1>1, <1>5, <2>3, <3>1, <3>2 DEF Separate, OwnTurn
  <2>4. QED
    BY <1>1, <2>1, <2>2, <2>3 DEF SourcedAt
<1>6. QED
  BY <1>4, <1>5

\* Answers that are sent in one piece are outside the stream
LEMMA SeparateDispatch ==
    ASSUME ConstantsAssumption, Types, Separate, NoMixedText, Dispatch
    PROVE  Separate' /\ NoMixedText'
<1> DEFINE m == Head(outbound)
           new == Message(m.chat, m.id, Cut(m.text, Limit), "plain")
<1>1. /\ shown' = IF m.chat \in Chat THEN Append(shown, new) ELSE shown
      /\ UNCHANGED <<stream, turn, states>> /\ outbound \in Seq(Outgoing) /\ outbound # <<>>
  BY DEF Dispatch, Types, Leaving
<1>2. m \in Outgoing
  BY <1>1, WithoutHead
<1>3. shown \in Seq(Message0) /\ Len(shown) \in Nat /\ DOMAIN shown = 1 .. Len(shown)
  BY LenProperties DEF Types, Display
<1> HIDE DEF m
<1>4. /\ \A i \in 1 .. Len(shown) : shown'[i] = shown[i]
      /\ \A i \in DOMAIN shown' : i \in 1 .. Len(shown) \/ shown'[i].form = "plain"
  <2>1. CASE m.chat \in Chat
    <3>1. new \in Message0 /\ new.form = "plain"
      BY <1>2, <2>1, PlainMessage
    <3> HIDE DEF new
    <3>2. /\ DOMAIN shown' = 1 .. Len(shown) + 1 /\ shown'[Len(shown) + 1] = new
          /\ \A i \in 1 .. Len(shown) : shown'[i] = shown[i]
      BY <1>1, <1>3, <2>1, <3>1, Appended
    <3>3. QED
      BY <1>3, <3>1, <3>2
  <2>2. CASE m.chat \notin Chat
    BY <1>1, <1>3, <2>2
  <2>3. QED
    BY <2>1, <2>2
<1>5. NoMixedText'
  BY <1>3, <1>4 DEF NoMixedText
<1>6. Apart' /\ OwnTurn'
  BY <1>1 DEF Separate, Apart, OwnTurn, EndsIn
<1>7. Sourced'
  <2> SUFFICES ASSUME NEW c \in Chat, states[c] # None PROVE SourcedAt(c)'
    BY <1>1 DEF Sourced
  <2>1. SourcedAt(c) /\ states[c].message \in 0 .. Len(shown)
    BY DEF Separate, Sourced, Types, Display, StateOf
  <2>2. \A t : From(states[c], t, shown) => From(states[c], t, shown')
    BY <1>4, <2>1 DEF From
  <2>3. \A i : First(i, c)' = First(i, c)
    BY <1>1 DEF First
  <2>4. EndsIn(stream, c, 1)' = EndsIn(stream, c, 1)
    BY <1>1 DEF EndsIn
  <2>5. QED
    BY <1>1, <2>1, <2>2, <2>3, <2>4 DEF SourcedAt
<1>8. QED
  BY <1>5, <1>6, <1>7 DEF Separate

LEMMA SeparateInit ==
    ASSUME Init
    PROVE  Separate /\ NoMixedText
<1>1. stream = <<>> /\ shown = <<>> /\ \A c \in Chat : states[c] = None
  BY DEF Init
<1>2. DOMAIN stream = {} /\ DOMAIN shown = {}
  BY <1>1
<1>3. QED
  BY <1>1, <1>2 DEF Separate, Apart, OwnTurn, Sourced, NoMixedText

LEMMA SeparateNext ==
    ASSUME ConstantsAssumption, Types, Disjoint, Closed, Separate, NoMixedText, [Next]_vars
    PROVE  Separate' /\ NoMixedText'
<1>1. shown' = shown => NoMixedText'
  BY DEF NoMixedText
<1>2. CASE UNCHANGED <<stream, states, shown, turn>>
  <2>1. \A b \in Agent : /\ turn'[b].chat = turn[b].chat /\ turn'[b].id = turn[b].id
                       /\ turn'[b].stage = turn[b].stage
    BY <1>2
  <2>2. Separate'
    BY <1>2, <2>1, SeparateGoesOn
  <2>3. QED
    BY <1>1, <1>2, <2>2
<1>3. ASSUME NEW c \in UserChats, HandleMessage(c) PROVE Separate' /\ NoMixedText'
  <2>1. /\ states' = [states EXCEPT ![c] = IF @ = None THEN NewState ELSE @]
        /\ UNCHANGED <<stream, turn, shown>>
    BY <1>3 DEF HandleMessage
  <2>2. Apart' /\ OwnTurn'
    BY <2>1 DEF Separate, Apart, OwnTurn, EndsIn
  <2>3. Sourced'
    <3> SUFFICES ASSUME NEW d \in Chat, states'[d] # None PROVE SourcedAt(d)'
      BY DEF Sourced
    <3>1. CASE states'[d] = states[d]
      BY <2>1, <3>1 DEF Separate, Sourced, SourcedAt, First, EndsIn
    <3>2. CASE states'[d] = NewState
      <4>1. Blank(states'[d])
        BY <3>2 DEF Blank, NewState
      <4>2. \A t, w : From(states'[d], t, w)
        BY <4>1, BlankIsFrom
      <4>3. QED
        BY <4>2 DEF SourcedAt
    <3>3. QED
      BY <2>1, <3>1, <3>2 DEF Types, Display
  <2>4. QED
    BY <1>1, <2>1, <2>2, <2>3 DEF Separate
<1>4. CASE ConsumeInbound
  <2> DEFINE m == Head(inbound)
  <2>1. /\ Begin("loop", m.id, m.chat) /\ inbound # <<>> /\ turn["loop"].stage = "idle"
        /\ UNCHANGED <<stream, states, shown>> /\ inbound \in Seq(Arrived(turns))
        /\ "loop" \in Agent
    BY <1>4 DEF ConsumeInbound, chatVars, Types, Waiting, Agent
  <2>2. m \in Arrived(turns)
    BY <2>1, WithoutHead
  <2> HIDE DEF m
  <2>3. m.chat \in AnyChat /\ m.chat \in Served("loop")
    BY <2>2, Constants DEF Arrived, AnyChat, Served
  <2>4. QED
    BY <1>1, <2>1, <2>3, SeparateBegin
<1>5. ASSUME NEW c \in DirectChats, ProcessDirect(c) PROVE Separate' /\ NoMixedText'
  <2>1. /\ Begin("direct", turns + 1, c) /\ turn["direct"].stage = "idle" /\ "direct" \in Agent
        /\ UNCHANGED <<stream, states, shown>> /\ c \in AnyChat /\ c \in Served("direct")
    BY <1>5, Constants DEF ProcessDirect, chatVars, Agent, Served
  <2>2. QED
    BY <1>1, <2>1, SeparateBegin
<1>6. ASSUME NEW a \in Agent, PublishStream(a) PROVE Separate' /\ NoMixedText'
  <2>1. shown' = shown
    BY <1>6 DEF PublishStream, chatVars
  <2>2. QED
    BY <1>1, <1>6, <2>1, ApartPublish, OwnTurnPublish, SourcedPublish DEF Separate
<1>7. ASSUME NEW a \in Agent,
             Iterate(a) \/ LlmFails(a) \/ IterationsExhausted(a) \/ Finish(a)
      PROVE  Separate' /\ NoMixedText'
  <2>1. /\ turn[a].stage # "idle" /\ turn'[a].chat = turn[a].chat /\ turn'[a].id = turn[a].id
        /\ \A b \in Agent \ {a} : turn'[b] = turn[b]
        /\ UNCHANGED <<stream, states, shown>>
    BY <1>7, TurnStep DEF chatVars
  <2>2. Separate'
    BY <2>1, SeparateGoesOn
  <2>3. QED
    BY <1>1, <2>1, <2>2
<1>8. ASSUME NEW a \in Agent, Return(a) PROVE Separate' /\ NoMixedText'
  <2>1. turn' = [turn EXCEPT ![a] = Idle] /\ UNCHANGED <<stream, states, shown>>
    BY <1>8 DEF Return, chatVars
  <2>2. \A b \in Agent : turn'[b] = IF b = a THEN Idle ELSE turn[b]
    BY <2>1 DEF Types, Running
  <2>3. Separate'
    BY <2>1, <2>2, SeparateGoesOn DEF Idle
  <2>4. QED
    BY <1>1, <2>1, <2>3
<1>9. CASE HandleStream
  <2>1. Apart' /\ OwnTurn' /\ Sourced'
    BY <1>9, ApartTake, OwnTurnTake, SourcedTake DEF Separate
  <2>2. NoMixedText'
    <3>1. CASE Head(stream).chat \in Chat
      BY <1>9, <3>1, HandledFrom DEF Separate
    <3>2. CASE Head(stream).chat \notin Chat
      BY <1>1, <1>9, <3>2, Taken DEF chatVars
    <3>3. QED
      BY <3>1, <3>2
  <2>3. QED
    BY <2>1, <2>2 DEF Separate
<1>10. CASE \/ UNCHANGED vars \/ (\E m \in arriving : PublishInbound(m))
            \/ (\E c \in DirectChats : Deliver(c))
  BY <1>2, <1>10 DEF vars, PublishInbound, Deliver, chatVars
<1>11. QED
  BY <1>3, <1>4, <1>5, <1>6, <1>7, <1>8, <1>9, <1>10, SeparateDispatch DEF Next, Run

\* Where jobs do not report to the chats users write in, every message that the stream of a chat
\* writes shows the text of one turn, the one whose events created it.
THEOREM MessagesShowOneTurn ==
    ASSUME UserChats \cap DirectChats = {}
    PROVE  Spec => []NoMixedText
<1> DEFINE Inv == Types /\ Closed /\ Separate /\ NoMixedText
<1>1. Disjoint
  BY DEF Disjoint
<1>2. Init => Inv
  BY TypesInit, ClosedInit, SeparateInit, ConstantsAssumption
<1>3. Inv /\ [Next]_vars => Inv'
  BY <1>1, TypesNext, ClosedNext, SeparateNext, ConstantsAssumption
<1>4. Inv => NoMixedText
  OBVIOUS
<1> HIDE DEF Inv
<1>5. QED
  BY <1>2, <1>3, <1>4, PTL DEF Spec

-----------------------------------------------------------------------------
\* Every turn has a number of its own

Active(a) == turn[a].stage # "idle"

\* No event of the turn that ends it has been published
Unended(t) ==
    /\ t \notin finished
    /\ \A i \in DOMAIN stream : stream[i].turn = t => stream[i].type \notin Terminals

\* The turn has not begun
Unused(t) ==
    /\ t \notin finished
    /\ \A i \in DOMAIN stream : stream[i].turn # t
    /\ \A a \in Agent : Active(a) => turn[a].id # t

WaitingOnce ==
    /\ \A m, k \in arriving : m.id = k.id => m = k
    /\ \A i, j \in DOMAIN inbound : inbound[i].id = inbound[j].id => i = j
    /\ \A m \in arriving, i \in DOMAIN inbound : m.id # inbound[i].id
    /\ \A m \in arriving : Unused(m.id)
    /\ \A i \in DOMAIN inbound : Unused(inbound[i].id)

RunningOnce ==
    \A a, b \in Agent : Active(a) /\ Active(b) /\ turn[a].id = turn[b].id => a = b

\* What a turn has published while the loop of runLLMIteration is under way
Iterating ==
    \A a \in Agent : turn[a].stage = "iterate" =>
      /\ Unended(turn[a].id)
      /\ \A i \in DOMAIN turn[a].queue : turn[a].queue[i].type \notin Terminals
      /\ \A i \in DOMAIN stream : stream[i].turn = turn[a].id => stream[i].chat = turn[a].chat

Numbered == WaitingOnce /\ RunningOnce /\ Iterating

LEMMA NewNumber ==
    ASSUME ConstantsAssumption, Types
    PROVE  /\ Unused(turns + 1) /\ turns \in Nat
           /\ \A m \in arriving : m.id # turns + 1
           /\ \A i \in DOMAIN inbound : inbound[i].id # turns + 1
<1>1. turns \in Nat /\ finished \subseteq 1 .. turns /\ stream \in Seq(EventOf(turns))
      /\ inbound \in Seq(Arrived(turns)) /\ arriving \subseteq Arrived(turns)
  BY Constants DEF Types, Counted, Display, Streaming, Waiting
<1>2. \A i \in DOMAIN stream : stream[i] \in EventOf(turns)
  BY <1>1, LenProperties, ElementOfSeq
<1>3. \A i \in DOMAIN inbound : inbound[i] \in Arrived(turns)
  BY <1>1, LenProperties, ElementOfSeq
<1>4. \A a \in Agent : turn[a].id \in 0 .. turns
  BY Turn DEF Types
<1>5. Unused(turns + 1)
  BY <1>1, <1>2, <1>4 DEF Unused, EventOf
<1>6. QED
  BY <1>1, <1>3, <1>5 DEF Arrived

LEMMA IterateStep ==
    ASSUME ConstantsAssumption, Types, NEW a \in Agent, Iterate(a)
    PROVE  \E r \in Replies, outcome \in {"tool-result", "tool-error"} :
             LET t == turn[a]
                 textPart == IF r.chunks = 0 THEN t.part ELSE t.part + 1
             IN
             /\ textPart \in Nat
             /\ turn'[a].stage = IF r.calls = 0 THEN "finish" ELSE "iterate"
             /\ turn'[a].queue = <<Event("start-step", t, 0)>>
                                 \o TextEvents(t, textPart, r.chunks, r.blanks)
                                 \o ToolEvents(t, textPart, r.calls, outcome)
                                 \o <<Event("finish-step", t, 0)>>
             /\ answer' = IF r.calls = 0
                          THEN [answer EXCEPT ![t.id] = IF r.chunks = 0 THEN Default
                                                        ELSE Chunks(t.id, textPart, r.chunks - r.blanks)]
                          ELSE answer
<1> DEFINE t == turn[a]
<1>1. PICK r \in Responses, outcome \in {"tool-result", "tool-error"} :
         LET textPart == IF r.chunks = 0 THEN t.part ELSE t.part + 1 IN
         /\ turn' = [turn EXCEPT ![a].iteration = @ + 1,
                       ![a].part = textPart + r.calls,
                       ![a].stage = IF r.calls = 0 THEN "finish" ELSE "iterate",
                       ![a].queue = <<Event("start-step", t, 0)>>
                                    \o TextEvents(t, textPart, r.chunks, r.blanks)
                                    \o ToolEvents(t, textPart, r.calls, outcome)
                                    \o <<Event("finish-step", t, 0)>>]
         /\ answer' = IF r.calls = 0
                      THEN [answer EXCEPT ![t.id] = IF r.chunks = 0 THEN Default
                                                    ELSE Chunks(t.id, textPart, r.chunks - r.blanks)]
                      ELSE answer
  BY DEF Iterate
<1> DEFINE textPart == IF r.chunks = 0 THEN t.part ELSE t.part + 1
           q == <<Event("start-step", t, 0)>> \o TextEvents(t, textPart, r.chunks, r.blanks)
                \o ToolEvents(t, textPart, r.calls, outcome) \o <<Event("finish-step", t, 0)>>
           stage == IF r.calls = 0 THEN "finish" ELSE "iterate"
<1>2. r \in Replies /\ t.part \in Nat
  BY Constants, Turn DEF Types
<1>3. textPart \in Nat
  BY <1>2
<1>4. turn'[a].stage = stage /\ turn'[a].queue = q
  <2> HIDE DEF q, textPart, stage
  <2>1. turn' = [turn EXCEPT ![a].iteration = @ + 1, ![a].part = textPart + r.calls,
                             ![a].stage = stage, ![a].queue = q]
    BY <1>1 DEF q, textPart, stage
  <2>2. t \in TurnOf(turns) /\ turn \in [Agent -> TurnOf(turns)]
    BY Turn DEF Types, Running
  <2>3. QED
    BY <2>1, <2>2 DEF TurnOf
<1>5. QED
  BY <1>1, <1>2, <1>3, <1>4

\* While it iterates, a turn has no event to publish that ends it
LEMMA IteratingQueue ==
    ASSUME ConstantsAssumption, Types, NEW a \in Agent,
           Iterate(a) \/ LlmFails(a) \/ IterationsExhausted(a) \/ Finish(a)
    PROVE  /\ turn[a].stage = "iterate" \/ turn'[a].stage # "iterate"
           /\ turn'[a].stage = "iterate" =>
                \A i \in DOMAIN turn'[a].queue : turn'[a].queue[i].type \notin Terminals
<1>1. CASE Iterate(a)
  <2>1. turn[a].stage = "iterate"
    BY <1>1 DEF Iterate
  <2>2. turn'[a].queue \in Seq(Going(turn[a]))
    <3>1. PICK r \in Replies, outcome \in {"tool-result", "tool-error"},
               part \in Nat :
             turn'[a].queue = <<Event("start-step", turn[a], 0)>>
                              \o TextEvents(turn[a], part, r.chunks, r.blanks)
                              \o ToolEvents(turn[a], part, r.calls, outcome)
                              \o <<Event("finish-step", turn[a], 0)>>
      BY <1>1, IterateStep
    <3>2. <<Event("start-step", turn[a], 0)>> \o TextEvents(turn[a], part, r.chunks, r.blanks)
            \o ToolEvents(turn[a], part, r.calls, outcome)
            \o <<Event("finish-step", turn[a], 0)>> \in Seq(Going(turn[a]))
      BY IterationQueue
    <3>3. QED
      BY ONLY <3>1, <3>2
  <2>3. \A i \in DOMAIN turn'[a].queue : turn'[a].queue[i] \in Going(turn[a])
    BY <2>2, LenProperties, ElementOfSeq
  <2>4. QED
    BY <2>1, <2>3 DEF Going
<1>2. CASE LlmFails(a) \/ IterationsExhausted(a) \/ Finish(a)
  <2>1. turn'[a].stage \in {"finish", "reply"}
    <3>1. turn \in [Agent -> TurnOf(turns)] /\ turn[a] \in TurnOf(turns)
      BY DEF Types, Running
    <3>2. QED
      BY <1>2, <3>1 DEF LlmFails, IterationsExhausted, Finish, TurnOf
  <2>2. QED
    BY <2>1
<1>3. QED
  BY <1>1, <1>2

\* A turn begins with the number of a message or with the next one
LEMMA NumberedBegin ==
    ASSUME ConstantsAssumption, Types, RunningOnce, Iterating, NEW a \in Agent, NEW t, NEW c,
           ~Active(a), Begin(a, t, c), Unused(t), UNCHANGED <<stream, finished>>
    PROVE  RunningOnce' /\ Iterating'
<1>1. /\ turn'[a].id = t /\ turn'[a].stage = "iterate" /\ turn'[a].chat = c
      /\ \A b \in Agent \ {a} : turn'[b] = turn[b]
  BY BeginStep
<1>2. RunningOnce'
  BY <1>1 DEF RunningOnce, Active, Unused
<1>3. \A i \in DOMAIN turn'[a].queue : turn'[a].queue[i].type \notin Terminals
  <2> DEFINE new == [Idle EXCEPT !.stage = "iterate", !.id = t, !.chat = c]
             q == <<Event("start", new, 0), Event("start-step", new, 0)>>
  <2>1. turn'[a].queue = q
    BY DEF Begin, Types, Running, Idle
  <2>2. /\ Event("start", new, 0).type = "start"
        /\ Event("start-step", new, 0).type = "start-step"
    BY DEF Event
  <2> HIDE DEF new
  <2>3. \A i \in DOMAIN q : q[i].type \in {"start", "start-step"}
    BY <2>2
  <2>4. QED
    BY <2>1, <2>3 DEF Terminals
<1>4. Iterating'
  BY <1>1, <1>3 DEF Iterating, Unended, Unused
<1>5. QED
  BY <1>2, <1>4

LEMMA NumberedPublish ==
    ASSUME ConstantsAssumption, Types, Numbered, NEW a \in Agent, PublishStream(a)
    PROVE  Numbered'
<1> DEFINE e == Head(turn[a].queue)
<1>1. /\ e \in EventOf(turns) /\ e.chat = turn[a].chat /\ e.turn = turn[a].id
      /\ stream \in Seq(EventOf(turns)) /\ stream' = Append(stream, e)
      /\ Active(a) /\ turn'[a].stage = turn[a].stage /\ turn'[a].chat = turn[a].chat
      /\ turn'[a].id = turn[a].id /\ \A b \in Agent \ {a} : turn'[b] = turn[b]
      /\ UNCHANGED <<arriving, inbound, finished>>
  BY PublishStep DEF chatVars, Active
<1>2. /\ turn[a].queue # <<>> /\ turn[a].queue \in Seq(EventOf(turns))
      /\ turn'[a].queue = Tail(turn[a].queue)
  BY Turn DEF Types, Running, PublishStream, TurnOf
<1>3. /\ e = turn[a].queue[1] /\ 1 \in DOMAIN turn[a].queue
      /\ \A i \in DOMAIN turn'[a].queue :
           i + 1 \in DOMAIN turn[a].queue /\ turn'[a].queue[i] = turn[a].queue[i + 1]
  BY <1>2, WithoutHead
<1> HIDE DEF e
<1>4. /\ Len(stream) \in Nat /\ DOMAIN stream = 1 .. Len(stream)
      /\ DOMAIN stream' = 1 .. Len(stream) + 1 /\ stream'[Len(stream) + 1] = e
      /\ \A i \in 1 .. Len(stream) : stream'[i] = stream[i]
  BY <1>1, Appended
<1>5. \A i \in DOMAIN stream' : \/ i \in DOMAIN stream /\ stream'[i] = stream[i]
                               \/ stream'[i] = e
  BY <1>4
<1>6. ASSUME NEW t, Unused(t) PROVE Unused(t)'
  BY <1>1, <1>5, <1>6 DEF Unused, Active
<1>7. WaitingOnce'
  BY <1>1, <1>6 DEF Numbered, WaitingOnce
<1>8. RunningOnce'
  BY <1>1 DEF Numbered, RunningOnce, Active
<1>9. Iterating'
  <2> SUFFICES ASSUME NEW b \in Agent, turn'[b].stage = "iterate"
               PROVE  /\ Unended(turn[b].id)'
                      /\ \A i \in DOMAIN turn'[b].queue :
                           turn'[b].queue[i].type \notin Terminals
                      /\ \A i \in DOMAIN stream' :
                           stream'[i].turn = turn'[b].id => stream'[i].chat = turn'[b].chat
    BY DEF Iterating
  <2>1. /\ turn[b].stage = "iterate" /\ turn'[b].id = turn[b].id /\ turn'[b].chat = turn[b].chat
        /\ Active(b)
    BY <1>1 DEF Active
  <2>2. /\ Unended(turn[b].id)
        /\ \A i \in DOMAIN turn[b].queue : turn[b].queue[i].type \notin Terminals
        /\ \A i \in DOMAIN stream : stream[i].turn = turn[b].id => stream[i].chat = turn[b].chat
    BY <2>1 DEF Numbered, Iterating
  <2>3. \A i \in DOMAIN turn'[b].queue : turn'[b].queue[i].type \notin Terminals
    BY <1>1, <1>3, <2>2
  <2>4. e.turn = turn[b].id => b = a /\ e.type \notin Terminals /\ e.chat = turn[b].chat
    BY <1>1, <1>3, <2>1, <2>2 DEF Numbered, RunningOnce
  <2>5. QED
    BY <1>1, <1>5, <2>1, <2>2, <2>3, <2>4 DEF Unended
<1>10. QED
  BY <1>7, <1>8, <1>9 DEF Numbered

LEMMA NumberedTake ==
    ASSUME ConstantsAssumption, Types, Numbered, HandleStream
    PROVE  Numbered'
<1> DEFINE e == Head(stream)
<1>1. /\ e = stream[1] /\ 1 \in DOMAIN stream /\ turn' = turn
      /\ \A i \in DOMAIN stream' : i + 1 \in DOMAIN stream /\ stream'[i] = stream[i + 1]
  <2>1. e = stream[1] /\ turn' = turn
    BY TakenIndex
  <2>2. 1 \in DOMAIN stream /\ \A i \in DOMAIN stream' : i \in 1 .. Len(stream) - 1
    BY TakenIndex
  <2>3. QED
    BY <2>1, <2>2, TakenIndex
<1>2. UNCHANGED <<arriving, inbound>>
  BY Taken
<1>3. \A t : t \in finished' => t \in finished \/ (t = e.turn /\ e.type \in Terminals)
  <2>1. CASE e.chat \notin Chat
    BY <2>1, Taken DEF chatVars
  <2>2. CASE e.chat \in Chat
    <3>1. Given(e, StateGiven(e.chat)) /\ Handle(e, StateGiven(e.chat)) /\ Counted /\ Display
      BY <2>2, Taken DEF Types
    <3>2. CASE e.type \in Terminals
      BY <3>1, <3>2, Ending
    <3>3. CASE e.type \notin Terminals
      BY <3>1, <3>3, Evolution
    <3>4. QED
      BY <3>2, <3>3
  <2>3. QED
    BY <2>1, <2>2
<1> HIDE DEF e
<1>4. ASSUME NEW t PROVE (Unused(t) => Unused(t)') /\ (Unended(t) => Unended(t)')
  BY <1>1, <1>3 DEF Unused, Unended, Active
<1>5. QED
  BY <1>1, <1>2, <1>4 DEF Numbered, WaitingOnce, RunningOnce, Iterating, Active

\* Nothing of what the numbers are about changes, except that turns go on or return
LEMMA NumberedGoesOn ==
    ASSUME ConstantsAssumption, Types, Numbered, UNCHANGED <<arriving, inbound, stream, finished>>,
           \A b \in Agent :
             \/ turn'[b] = turn[b]
             \/ turn'[b].stage = "idle"
             \/ /\ Active(b) /\ turn'[b].id = turn[b].id /\ turn'[b].chat = turn[b].chat
                /\ turn[b].stage = "iterate" \/ turn'[b].stage # "iterate"
                /\ turn'[b].stage = "iterate" =>
                     \A i \in DOMAIN turn'[b].queue : turn'[b].queue[i].type \notin Terminals
    PROVE  Numbered'
<1>1. \A b \in Agent : Active(b)' => Active(b) /\ turn'[b].id = turn[b].id
  BY DEF Active
<1>2. WaitingOnce'
  BY <1>1 DEF Numbered, WaitingOnce, Unused
<1>3. RunningOnce'
  BY <1>1 DEF Numbered, RunningOnce
<1>4. Iterating'
  <2> SUFFICES ASSUME NEW b \in Agent, turn'[b].stage = "iterate"
               PROVE  /\ Unended(turn[b].id)'
                      /\ \A i \in DOMAIN turn'[b].queue : turn'[b].queue[i].type \notin Terminals
                      /\ \A i \in DOMAIN stream :
                           stream[i].turn = turn'[b].id => stream[i].chat = turn'[b].chat
    BY DEF Iterating
  <2>1. turn[b].stage = "iterate" /\ turn'[b].id = turn[b].id /\ turn'[b].chat = turn[b].chat
    OBVIOUS
  <2>2. QED
    BY <2>1 DEF Numbered, Iterating, Unended
<1>5. QED
  BY <1>2, <1>3, <1>4 DEF Numbered

LEMMA NumberedInit ==
    ASSUME Init
    PROVE  Numbered
<1>1. /\ arriving = {} /\ inbound = <<>> /\ stream = <<>> /\ finished = {}
      /\ \A a \in Agent : turn[a].stage = "idle"
  BY DEF Init, Idle
<1>2. DOMAIN inbound = {} /\ DOMAIN stream = {}
  BY <1>1
<1>3. QED
  BY <1>1, <1>2 DEF Numbered, WaitingOnce, RunningOnce, Iterating, Active

LEMMA NumberedNext ==
    ASSUME ConstantsAssumption, Types, Numbered, [Next]_vars
    PROVE  Numbered'
<1>1. CASE UNCHANGED <<arriving, inbound, stream, turn, finished>>
  BY <1>1, NumberedGoesOn
<1>2. ASSUME NEW c \in UserChats, HandleMessage(c) PROVE Numbered'
  <2> DEFINE m == [chat |-> c, id |-> turns + 1]
  <2>1. arriving' = arriving \cup {m} /\ UNCHANGED <<inbound, stream, turn, finished>>
        /\ m.id = turns + 1
    BY <1>2 DEF HandleMessage
  <2> HIDE DEF m
  <2>2. \A t : Unused(t)' = Unused(t)
    BY <2>1 DEF Unused, Active
  <2>3. WaitingOnce'
    BY <2>1, <2>2, NewNumber DEF Numbered, WaitingOnce
  <2>4. RunningOnce' /\ Iterating'
    BY <2>1 DEF Numbered, RunningOnce, Iterating, Unended, Active
  <2>5. QED
    BY <2>3, <2>4 DEF Numbered
<1>3. ASSUME NEW m \in arriving, PublishInbound(m) PROVE Numbered'
  <2>1. /\ arriving' = arriving \ {m} /\ inbound' = Append(inbound, m)
        /\ UNCHANGED <<stream, turn, finished>> /\ inbound \in Seq(Arrived(turns))
        /\ m \in Arrived(turns)
    BY <1>3 DEF PublishInbound, chatVars, Types, Waiting
  <2>2. /\ Len(inbound) \in Nat /\ DOMAIN inbound = 1 .. Len(inbound)
        /\ DOMAIN inbound' = 1 .. Len(inbound) + 1 /\ inbound'[Len(inbound) + 1] = m
        /\ \A i \in 1 .. Len(inbound) : inbound'[i] = inbound[i]
    BY <2>1, Appended
  <2>3. \A t : Unused(t)' = Unused(t)
    BY <2>1 DEF Unused, Active
  <2>4. \A i \in DOMAIN inbound' : \/ i \in DOMAIN inbound /\ inbound'[i] = inbound[i]
                                   \/ i = Len(inbound) + 1 /\ inbound'[i] = m
    BY <2>2
  <2>5. WaitingOnce'
    BY <2>1, <2>3, <2>4 DEF Numbered, WaitingOnce
  <2>6. RunningOnce' /\ Iterating'
    BY <2>1 DEF Numbered, RunningOnce, Iterating, Unended, Active
  <2>7. QED
    BY <2>5, <2>6 DEF Numbered
<1>4. CASE ConsumeInbound
  <2> DEFINE m == Head(inbound)
  <2>1. /\ Begin("loop", m.id, m.chat) /\ inbound # <<>> /\ inbound' = Tail(inbound)
        /\ ~Active("loop") /\ UNCHANGED <<arriving, stream, finished>>
        /\ inbound \in Seq(Arrived(turns)) /\ "loop" \in Agent
    BY <1>4 DEF ConsumeInbound, chatVars, Types, Waiting, Agent, Active
  <2>2. /\ m = inbound[1] /\ 1 \in DOMAIN inbound
        /\ \A i \in DOMAIN inbound' :
             i + 1 \in DOMAIN inbound /\ i + 1 # 1 /\ inbound'[i] = inbound[i + 1]
    BY <2>1, WithoutHead
  <2>3. \A i, j \in DOMAIN inbound' : i + 1 = j + 1 => i = j
    BY <2>1, WithoutHead
  <2> HIDE DEF m
  <2>4. turn'["loop"].id = m.id /\ \A b \in Agent \ {"loop"} : turn'[b] = turn[b]
    BY <2>1, BeginStep
  <2>5. \A t : Unused(t) /\ t # m.id => Unused(t)'
    BY <2>1, <2>4 DEF Unused, Active
  <2>6. /\ \A k \in arriving : k.id # m.id
        /\ \A i \in DOMAIN inbound' : inbound'[i].id # m.id
    BY <2>2 DEF Numbered, WaitingOnce
  <2>7. WaitingOnce'
    BY <2>1, <2>2, <2>3, <2>5, <2>6 DEF Numbered, WaitingOnce
  <2>8. Unused(m.id)
    BY <2>2 DEF Numbered, WaitingOnce
  <2>9. RunningOnce' /\ Iterating'
    BY <2>1, <2>8, NumberedBegin DEF Numbered
  <2>10. QED
    BY <2>7, <2>9 DEF Numbered
<1>5. ASSUME NEW c \in DirectChats, ProcessDirect(c) PROVE Numbered'
  <2>1. /\ Begin("direct", turns + 1, c) /\ ~Active("direct") /\ "direct" \in Agent
        /\ UNCHANGED <<arriving, inbound, stream, finished>>
    BY <1>5 DEF ProcessDirect, chatVars, Agent, Active
  <2>2. turn'["direct"].id = turns + 1 /\ \A b \in Agent \ {"direct"} : turn'[b] = turn[b]
    BY <2>1, BeginStep
  <2>3. \A t : Unused(t) /\ t # turns + 1 => Unused(t)'
    BY <2>1, <2>2 DEF Unused, Active
  <2>4. WaitingOnce'
    BY <2>1, <2>3, NewNumber DEF Numbered, WaitingOnce
  <2>5. RunningOnce' /\ Iterating'
    BY <2>1, NewNumber, NumberedBegin DEF Numbered
  <2>6. QED
    BY <2>4, <2>5 DEF Numbered
<1>6. ASSUME NEW a \in Agent,
             Iterate(a) \/ LlmFails(a) \/ IterationsExhausted(a) \/ Finish(a)
      PROVE  Numbered'
  <2>1. /\ Active(a) /\ turn'[a].chat = turn[a].chat /\ turn'[a].id = turn[a].id
        /\ \A b \in Agent \ {a} : turn'[b] = turn[b]
        /\ UNCHANGED <<arriving, inbound, stream, finished>>
    BY <1>6, TurnStep DEF chatVars, Active
  <2>2. QED
    BY <1>6, <2>1, IteratingQueue, NumberedGoesOn
<1>7. ASSUME NEW a \in Agent, Return(a) PROVE Numbered'
  <2>1. turn' = [turn EXCEPT ![a] = Idle] /\ UNCHANGED <<arriving, inbound, stream, finished>>
    BY <1>7 DEF Return, chatVars
  <2>2. \A b \in Agent : turn'[b] = IF b = a THEN Idle ELSE turn[b]
    BY <2>1 DEF Types, Running
  <2>3. QED
    BY <2>1, <2>2, NumberedGoesOn DEF Idle
<1>8. CASE \/ UNCHANGED vars \/ (\E c \in DirectChats : Deliver(c)) \/ Dispatch
  BY <1>1, <1>8 DEF vars, Deliver, Dispatch, chatVars
<1>9. QED
  BY <1>2, <1>3, <1>4, <1>5, <1>6, <1>7, <1>8, NumberedPublish, NumberedTake DEF Next, Run

-----------------------------------------------------------------------------
\* The message of a stream state

\* It lists tool calls once the turn has used tools
InProgress(s, w) == s.message # 0 => w[s.message].form = Form(s)

\* It is no other state's
Drawn ==
    /\ \A c \in Chat : states[c] # None => InProgress(states[c], shown)
    /\ \A c, d \in Chat :
         states[c] # None /\ states[d] # None /\ c # d /\ states[c].message # 0
           => states[c].message # states[d].message

\* The messages that a handler leaves alone, and the one it sends
Beside(x, y, i) ==
    /\ Len(x) \in Nat /\ Len(y) \in {Len(x), Len(x) + 1}
    /\ DOMAIN x = 1 .. Len(x) /\ DOMAIN y = 1 .. Len(y)
    /\ \A m \in 1 .. Len(x) : y[m].turn = x[m].turn /\ (m # i => y[m] = x[m])

LEMMA RewrittenBeside ==
    ASSUME NEW x \in Seq(Message0), NEW y, NEW i, NEW t, NEW text, Rewritten(x, y, i, t, text)
    PROVE  Beside(x, y, i)
<1>1. Len(x) \in Nat /\ Len(y) \in Nat /\ DOMAIN x = 1 .. Len(x) /\ DOMAIN y = 1 .. Len(y)
  BY LenProperties DEF Rewritten
<1>2. Len(y) \in {Len(x), Len(x) + 1}
  <2>1. Len(x) <= Len(y) /\ Len(y) <= Len(x) + 1
    BY DEF Rewritten
  <2>2. \A a, b \in Nat : a <= b /\ b <= a + 1 => b \in {a, a + 1}
    OBVIOUS
  <2>3. QED
    BY <1>1, <2>1, <2>2
<1>3. \A m \in 1 .. Len(x) : y[m].turn = x[m].turn /\ (m # i => y[m] = x[m])
  BY DEF Rewritten
<1>4. QED
  BY <1>1, <1>2, <1>3 DEF Beside

\* updateStreamMessage shows one of the final texts, in the state's message or in a new one
LEMMA UpdateShows ==
    ASSUME ConstantsAssumption, Counted, Display, NEW e, NEW s, Given(e, s), Update(e, s),
           ~s.tools => InProgress(s, shown)
    PROVE  \E text \in FinalTexts(s), m \in 0 .. Len(shown') :
             /\ states' = [states EXCEPT ![e.chat] = [s EXCEPT !.message = m]]
             /\ Beside(shown, shown', s.message)
             /\ m = s.message \/ (m = Len(shown') /\ Len(shown') = Len(shown) + 1)
             /\ m # 0 => shown'[m].form = Form(s)
             /\ text # <<>> => m # 0 /\ shown'[m].text = Cut(text, Limit)
<1> DEFINE new(text) == Message(e.chat, e.turn, text, Form(s))
           Save(m) == states' = [states EXCEPT ![e.chat] = [s EXCEPT !.message = m]]
           Result(text, m) ==
             /\ Save(m)
             /\ Beside(shown, shown', s.message)
             /\ m = s.message \/ (m = Len(shown') /\ Len(shown') = Len(shown) + 1)
             /\ m # 0 => shown'[m].form = Form(s)
             /\ text # <<>> => m # 0 /\ shown'[m].text = Cut(text, Limit)
<1>0. PICK final \in FinalTexts(s) :
        LET text == Cut(final, Limit) IN
        IF ~s.step /\ ~s.tools /\ final = <<>>
        THEN Save(s.message) /\ UNCHANGED <<shown, faults>>
        ELSE IF s.message = 0
        THEN shown' = Append(shown, new(text)) /\ Save(Len(shown) + 1) /\ UNCHANGED faults
        ELSE \/ /\ shown' = [shown EXCEPT ![s.message].text = text,
                                          ![s.message].form = Form(s)]
                /\ Save(s.message)
                /\ UNCHANGED faults
             \/ /\ faults < MaxFaults
                /\ faults' = faults + 1
                /\ shown' = [Append(shown, new(text)) EXCEPT ![s.message].text = <<>>,
                                                             ![s.message].form = "deleted"]
                /\ Save(Len(shown) + 1)
  BY DEF Update
<1> DEFINE text == Cut(final, Limit)
<1>1. \/ Save(s.message) /\ shown' = shown /\ final = <<>> /\ ~s.tools
      \/ shown' = Append(shown, new(text)) /\ Save(Len(shown) + 1)
      \/ /\ s.message # 0 /\ Save(s.message)
         /\ shown' = [shown EXCEPT ![s.message].text = text, ![s.message].form = Form(s)]
      \/ /\ s.message # 0 /\ Save(Len(shown) + 1)
         /\ shown' = [Append(shown, new(text)) EXCEPT ![s.message].text = <<>>,
                                                      ![s.message].form = "deleted"]
  <2> HIDE DEF new, Save
  <2>1. QED
    BY <1>0
<1>2. /\ text \in Text /\ s.message \in 0 .. Len(shown) /\ s \in StateOf(Len(shown))
      /\ Len(shown) \in Nat /\ e.chat \in Chat /\ e.turn \in TurnId /\ shown \in Seq(Message0)
      /\ DOMAIN shown = 1 .. Len(shown) /\ Form(s) \in Forms
  <2>1. /\ s.message \in 0 .. Len(shown) /\ s \in StateOf(Len(shown))
        /\ Len(shown) \in Nat /\ e.chat \in Chat /\ e.turn \in TurnId /\ shown \in Seq(Message0)
        /\ DOMAIN shown = 1 .. Len(shown)
    BY GivenFields, Fields, LenProperties DEF Given
  <2>2. text \in Text
    BY <2>1, FinalTextsTyped, CutText, Constants
  <2>3. Form(s) \in Forms
    BY DEF Form, Forms
  <2>4. QED
    BY <2>1, <2>2, <2>3
<1> HIDE DEF text
<1>3. /\ new(text) \in Message0 /\ new(text).turn = e.turn /\ new(text).text = text
      /\ new(text).form = Form(s)
  BY <1>2 DEF Message, Message0
<1> HIDE DEF new, Save
<1> SUFFICES \E m \in 0 .. Len(shown') : Result(final, m)
  <2>1. PICK m \in 0 .. Len(shown') : Result(final, m)
    OBVIOUS
  <2> USE <1>0
  <2>2. WITNESS final \in FinalTexts(s), m \in 0 .. Len(shown')
  <2>3. QED
    BY <2>1 DEF Save
<1>4. CASE Save(s.message) /\ shown' = shown /\ final = <<>> /\ ~s.tools
  <2>1. Result(final, s.message) /\ s.message \in 0 .. Len(shown')
    BY <1>2, <1>4 DEF InProgress, Beside
  <2>2. QED
    BY <2>1
<1>5. CASE shown' = Append(shown, new(text)) /\ Save(Len(shown) + 1)
  <2>1. /\ Len(shown') = Len(shown) + 1 /\ shown'[Len(shown) + 1] = new(text)
        /\ DOMAIN shown' = 1 .. Len(shown')
        /\ \A m \in 1 .. Len(shown) : shown'[m] = shown[m]
    BY <1>2, <1>3, <1>5, Appended
  <2>2. Beside(shown, shown', s.message)
    BY <1>2, <2>1 DEF Beside
  <2>3. Result(final, Len(shown) + 1) /\ Len(shown) + 1 \in 0 .. Len(shown')
    BY <1>2, <1>3, <1>5, <2>1, <2>2 DEF text
  <2>4. QED
    BY <2>3
<1>6. CASE /\ s.message # 0 /\ Save(s.message)
           /\ shown' = [shown EXCEPT ![s.message].text = text, ![s.message].form = Form(s)]
  <2>1. s.message \in 1 .. Len(shown)
    BY <1>2, <1>6
  <2>2. Like(shown, shown', s.message, text) /\ shown'[s.message].form = Form(s)
    <3>1. shown' = Edit(shown, s.message, text, Form(s))
      BY <1>6 DEF Edit
    <3>2. QED
      BY <1>2, <2>1, <3>1, Edited
  <2>3. Beside(shown, shown', s.message) /\ shown'[s.message].text = text
    <3>1. DOMAIN shown' = 1 .. Len(shown')
      BY <2>2, LenProperties DEF Like
    <3>2. QED
      BY <1>2, <2>1, <2>2, <3>1 DEF Like, Beside
  <2>4. Result(final, s.message) /\ s.message \in 0 .. Len(shown')
    <3>1. Len(shown') = Len(shown)
      BY <2>2 DEF Like
    <3>2. QED
      BY <1>2, <1>6, <2>2, <2>3, <3>1 DEF text
  <2>5. QED
    BY <2>4
<1>7. CASE /\ s.message # 0 /\ Save(Len(shown) + 1)
           /\ shown' = [Append(shown, new(text)) EXCEPT ![s.message].text = <<>>,
                                                        ![s.message].form = "deleted"]
  <2>1. s.message \in 1 .. Len(shown)
    BY <1>2, <1>7
  <2>2. Rewritten(shown, shown', s.message, e.turn, text) /\ Len(shown') = Len(shown) + 1
    <3>1. /\ Rewritten(shown, shown', s.message, new(text).turn, new(text).text)
          /\ Len(shown') = Len(shown) + 1
      BY <1>2, <1>3, <1>7, <2>1, Replaced
    <3>2. QED
      BY <1>3, <3>1
  <2>3. Beside(shown, shown', s.message)
    BY <1>2, <2>2, RewrittenBeside
  <2>4. shown'[Len(shown) + 1] = new(text)
    <3> DEFINE z == Append(shown, new(text))
    <3>1. z[Len(shown) + 1] = new(text) /\ DOMAIN z = 1 .. Len(shown) + 1
      BY <1>2, <1>3, Appended
    <3>2. Len(shown) + 1 # s.message /\ Len(shown) + 1 \in 1 .. Len(shown) + 1
      BY <2>1, <1>2
    <3>3. shown' = [z EXCEPT ![s.message].text = <<>>, ![s.message].form = "deleted"]
      BY <1>7
    <3> HIDE DEF z
    <3>4. QED
      BY <3>1, <3>2, <3>3
  <2>5. Result(final, Len(shown) + 1) /\ Len(shown) + 1 \in 0 .. Len(shown')
    <3>1. Save(Len(shown) + 1)
      BY <1>7
    <3>2. QED
      BY <1>2, <1>3, <2>2, <2>3, <2>4, <3>1 DEF text
  <2>6. QED
    BY <2>5
<1>8. QED
  BY <1>1, <1>4, <1>5, <1>6, <1>7

\* What handling an event makes of the messages and of its chat's state
LEMMA HandledMessages ==
    ASSUME ConstantsAssumption, Counted, Display, NEW e, NEW s, Given(e, s), Handle(e, s),
           InProgress(s, shown)
    PROVE  /\ Beside(shown, shown', s.message)
           /\ states'[e.chat] # None =>
                /\ InProgress(states'[e.chat], shown')
                /\ \/ states'[e.chat].message = s.message
                   \/ /\ states'[e.chat].message = Len(shown')
                      /\ Len(shown') = Len(shown) + 1
<1>1. /\ s \in StateOf(Len(shown)) /\ Len(shown) \in Nat /\ shown \in Seq(Message0)
      /\ DOMAIN states = Chat /\ e.chat \in Chat
  BY GivenFields DEF Given, Display
<1>2. CASE e.type \in Terminals
  <2>1. states'[e.chat] = None
    BY <1>2, OthersKept
  <2>2. PICK text \in Showable(s) \cup {<<>>} :
           Rewritten(shown, shown', s.message, e.turn, text)
    BY <1>2, Ending
  <2>3. QED
    BY <1>1, <2>1, <2>2, RewrittenBeside
<1>3. CASE e.type \notin Terminals
  <2>1. PICK n : Evolves(e, s, n) /\ (Kept(e, s, n) \/ Update(e, n))
    BY <1>3, Evolution
  <2>2. n \in StateOf(Len(shown)) /\ Given(e, n) /\ n.message = s.message
        /\ (n.tools = s.tools \/ ~n.tools => InProgress(n, shown))
    BY <2>1 DEF Evolves, Given, InProgress, Form
  <2>3. CASE Kept(e, s, n)
    <3>1. states'[e.chat] = n /\ shown' = shown /\ InProgress(n, shown)
      BY <1>1, <2>2, <2>3 DEF Kept, Keep
    <3>2. Beside(shown, shown, s.message)
      BY <1>1, LenProperties DEF Beside
    <3>3. QED
      BY <2>2, <3>1, <3>2
  <2>4. CASE Update(e, n)
    <3>1. PICK text \in FinalTexts(n), m \in 0 .. Len(shown') :
             /\ states' = [states EXCEPT ![e.chat] = [n EXCEPT !.message = m]]
             /\ Beside(shown, shown', n.message)
             /\ m = n.message \/ (m = Len(shown') /\ Len(shown') = Len(shown) + 1)
             /\ m # 0 => shown'[m].form = Form(n)
      BY <2>2, <2>4, UpdateShows
    <3> DEFINE k == [n EXCEPT !.message = m]
    <3>2. states'[e.chat] = k /\ k.message = m /\ Form(k) = Form(n)
      BY <1>1, <2>2, <3>1 DEF StateOf, Form
    <3> HIDE DEF k
    <3>3. QED
      BY <2>2, <3>1, <3>2 DEF InProgress
  <2>5. QED
    BY <2>1, <2>3, <2>4
<1>4. QED
  BY <1>2, <1>3

LEMMA NoneInNewState ==
    /\ NewState.message = 0 /\ \A w : InProgress(NewState, w)
    /\ \A c : Drawn /\ c \in Chat => InProgress(StateGiven(c), shown)
BY DEF NewState, InProgress, StateGiven, Drawn

LEMMA DrawnTake ==
    ASSUME ConstantsAssumption, Types, Drawn, HandleStream
    PROVE  Drawn'
<1> DEFINE e == Head(stream)
<1>1. CASE e.chat \notin Chat
  BY <1>1, Taken DEF chatVars, Drawn
<1>2. CASE e.chat \in Chat
  <2> DEFINE s == StateGiven(e.chat)
  <2>1. Given(e, s) /\ Handle(e, s) /\ Counted /\ Display /\ InProgress(s, shown)
    BY <1>2, Taken, NoneInNewState DEF Types
  <2> HIDE DEF e
  <2>2. /\ s.message = 0 \/ (states[e.chat] # None /\ s = states[e.chat])
        /\ s.message \in 0 .. Len(shown)
    BY <2>1, NoneInNewState, Fields, LenProperties DEF StateGiven, Given, Display
  <2> HIDE DEF s
  <2>3. /\ Beside(shown, shown', s.message)
        /\ states'[e.chat] # None =>
             /\ InProgress(states'[e.chat], shown')
             /\ \/ states'[e.chat].message = s.message
                \/ /\ states'[e.chat].message = Len(shown')
                   /\ Len(shown') = Len(shown) + 1
    BY <2>1, HandledMessages
  <2>4. \A d \in Chat \ {e.chat} : states'[d] = states[d]
    BY <2>1, OthersKept
  <2>5. ASSUME NEW d \in Chat \ {e.chat}, states[d] # None
        PROVE  /\ states[d].message \in 0 .. Len(shown)
               /\ states[d].message # 0 =>
                    states[d].message # s.message /\ shown'[states[d].message] = shown[states[d].message]
    <3>1. states[d].message \in 0 .. Len(shown) /\ Len(shown) \in Nat
      BY <2>5, Fields, LenProperties DEF Types, Display
    <3>2. states[d].message # 0 => states[d].message # s.message
      BY <1>2, <2>2, <2>5 DEF Drawn
    <3>3. \A m \in 1 .. Len(shown) : m # s.message => shown'[m] = shown[m]
      BY <2>3 DEF Beside
    <3>4. states[d].message # 0 => states[d].message \in 1 .. Len(shown)
      BY <3>1
    <3>5. QED
      BY <3>1, <3>2, <3>3, <3>4
  <2>6. \A d \in Chat : states'[d] # None => InProgress(states'[d], shown')
    BY <2>3, <2>4, <2>5 DEF Drawn, InProgress
  <2>7. \A c, d \in Chat :
          states'[c] # None /\ states'[d] # None /\ c # d /\ states'[c].message # 0
            => states'[c].message # states'[d].message
    <3> SUFFICES ASSUME NEW c \in Chat, NEW d \in Chat, states'[c] # None, states'[d] # None,
                        c # d, states'[c].message # 0, states'[c].message = states'[d].message
                 PROVE  FALSE
      OBVIOUS
    <3>1. CASE c # e.chat /\ d # e.chat
      BY <2>4, <3>1 DEF Drawn
    <3>2. ASSUME NEW b \in Chat \ {e.chat}, states[b] # None, states[b].message # 0,
                 states'[e.chat] # None, states'[e.chat].message = states[b].message
          PROVE  FALSE
      <4>1. Len(shown) \in Nat
        BY LenProperties DEF Types, Display
      <4>2. states[b].message <= Len(shown) /\ states[b].message # s.message
        BY <2>5, <3>2, <4>1
      <4>3. QED
        BY <2>3, <3>2, <4>1, <4>2
    <3>3. CASE c = e.chat
      BY <2>4, <3>2, <3>3
    <3>4. CASE d = e.chat
      BY <2>4, <3>2, <3>4
    <3>5. QED
      BY <3>1, <3>3, <3>4
  <2>8. QED
    BY <2>6, <2>7 DEF Drawn
<1>3. QED
  BY <1>1, <1>2

LEMMA DrawnDispatch ==
    ASSUME ConstantsAssumption, Types, Dispatch
    PROVE  /\ UNCHANGED <<stream, turn, states, answer, finished, faults>>
           /\ Len(shown) \in Nat /\ DOMAIN shown = 1 .. Len(shown)
           /\ DOMAIN shown \subseteq DOMAIN shown'
           /\ \A m \in DOMAIN shown : shown'[m] = shown[m]
           /\ Drawn => Drawn'
<1> DEFINE m == Head(outbound)
           new == Message(m.chat, m.id, Cut(m.text, Limit), "plain")
<1>1. /\ shown' = IF m.chat \in Chat THEN Append(shown, new) ELSE shown
      /\ UNCHANGED <<stream, turn, states, answer, finished, faults>>
      /\ outbound \in Seq(Outgoing) /\ outbound # <<>>
  BY DEF Dispatch, Types, Leaving
<1>2. m \in Outgoing
  BY <1>1, WithoutHead
<1>3. shown \in Seq(Message0) /\ Len(shown) \in Nat /\ DOMAIN shown = 1 .. Len(shown)
  BY LenProperties DEF Types, Display
<1> HIDE DEF m
<1>4. DOMAIN shown \subseteq DOMAIN shown' /\ \A i \in DOMAIN shown : shown'[i] = shown[i]
  <2>1. CASE m.chat \in Chat
    <3>1. new \in Message0
      BY <1>2, <2>1, PlainMessage
    <3> HIDE DEF new
    <3>2. QED
      BY <1>1, <1>3, <2>1, <3>1, Appended
  <2>2. CASE m.chat \notin Chat
    BY <1>1, <1>3, <2>2
  <2>3. QED
    BY <2>1, <2>2
<1>5. \A c \in Chat : states[c] # None => states[c].message \in 0 .. Len(shown)
  BY DEF Types, Display, StateOf
<1>6. Drawn => Drawn'
  BY <1>1, <1>3, <1>4, <1>5 DEF Drawn, InProgress
<1>7. QED
  BY <1>1, <1>3, <1>4, <1>6

LEMMA DrawnNext ==
    ASSUME ConstantsAssumption, Types, Drawn, [Next]_vars
    PROVE  Drawn'
<1>1. CASE UNCHANGED <<states, shown>>
  BY <1>1 DEF Drawn
<1>2. ASSUME NEW c \in UserChats, HandleMessage(c) PROVE Drawn'
  <2>1. \A d \in Chat : states'[d] = states[d] \/ states'[d] = NewState
    BY <1>2 DEF HandleMessage, Types, Display
  <2>2. shown' = shown /\ NewState.message = 0 /\ InProgress(NewState, shown)
    BY <1>2, NoneInNewState DEF HandleMessage
  <2>3. QED
    BY <2>1, <2>2 DEF Drawn
<1>3. ASSUME NEW a \in Agent, Run(a) PROVE UNCHANGED <<states, shown>>
  BY <1>3 DEF Run, PublishStream, Iterate, LlmFails, IterationsExhausted, Finish, Return, chatVars
<1>4. CASE \/ UNCHANGED vars \/ (\E m \in arriving : PublishInbound(m)) \/ ConsumeInbound
           \/ (\E c \in DirectChats : ProcessDirect(c) \/ Deliver(c))
  BY <1>1, <1>4 DEF vars, PublishInbound, ConsumeInbound, ProcessDirect, Deliver, chatVars
<1>5. QED
  BY <1>1, <1>2, <1>3, <1>4, DrawnTake, DrawnDispatch DEF Next

-----------------------------------------------------------------------------
\* The answer of a turn on its way, where jobs do not report to the chats users write in

\* The answer of a turn, in a part of its own: so many chunks, of which the last are white
\* space, but not all of them
Talk == {w \in [chat : AnyChat, turn : TurnId, part : Nat, chunks : Nat, blanks : Nat] :
           w.blanks < w.chunks}
Solid(w) == w.chunks - w.blanks

\* The events that bring it, in order: those of the last iteration, and finish
Last(w) == w.chunks + 5
Line(w, k) ==
    [type |-> IF k = 1 THEN "start-step"
              ELSE IF k = 2 THEN "text-start"
              ELSE IF k <= w.chunks + 2 THEN "text-delta"
              ELSE IF k = w.chunks + 3 THEN "text-end"
              ELSE IF k = w.chunks + 4 THEN "finish-step"
              ELSE "finish",
     chat |-> w.chat, turn |-> w.turn, part |-> IF k \in 2 .. w.chunks + 3 THEN w.part ELSE 0,
     blanks |-> IF k = w.chunks + 3 THEN w.blanks ELSE 0]

\* Of these, the first h have been handled, and those up to the b-th are in the channel q, at
\* the places pos.  Before the first one only events of earlier iterations and turns come, and
\* after the last one only events of other turns.
Leads(q, w, h, b, pos) ==
    /\ pos \in [h + 1 .. b -> 1 .. Len(q)]
    /\ \A k \in h + 1 .. b : q[pos[k]] = Line(w, k)
    /\ \A k, l \in h + 1 .. b : k < l => pos[k] < pos[l]
    /\ \A i \in 1 .. Len(q) :
         \/ q[i].chat # w.chat /\ q[i].turn # w.turn
         \/ \E k \in h + 1 .. b : i = pos[k]
         \/ /\ h = 0 /\ \A k \in h + 1 .. b : i < pos[k]
            /\ q[i].turn = w.turn => q[i].chat = w.chat /\ q[i].type \notin Terminals
         \/ b = Last(w) /\ (\A k \in h + 1 .. b : pos[k] < i) /\ q[i].turn # w.turn

LEMMA LeadsPublished ==
    ASSUME NEW S, NEW q \in Seq(S), NEW w, NEW h \in Nat, NEW b \in Nat, NEW pos,
           Leads(q, w, h, b, pos), h <= b, b # Last(w), Line(w, b + 1) \in S
    PROVE  \E r : Leads(Append(q, Line(w, b + 1)), w, h, b + 1, r)
<1> DEFINE e == Line(w, b + 1)
           z == Append(q, e)
           r == [k \in h + 1 .. b + 1 |-> IF k = b + 1 THEN Len(q) + 1 ELSE pos[k]]
<1>1. /\ Len(z) = Len(q) + 1 /\ Len(q) \in Nat /\ z[Len(q) + 1] = e
      /\ \A i \in 1 .. Len(q) : z[i] = q[i]
  BY Appended
<1> HIDE DEF z, e
<1>2. /\ \A k \in h + 1 .. b : k \in h + 1 .. b + 1 /\ k # b + 1 /\ r[k] = pos[k]
                               /\ pos[k] \in 1 .. Len(q)
      /\ b + 1 \in h + 1 .. b + 1 /\ r[b + 1] = Len(q) + 1
  BY DEF Leads
<1>3. \A k \in h + 1 .. b + 1 : k \in h + 1 .. b \/ k = b + 1
  OBVIOUS
<1>4. r \in [h + 1 .. b + 1 -> 1 .. Len(z)]
  <2>1. \A k \in h + 1 .. b + 1 : (IF k = b + 1 THEN Len(q) + 1 ELSE pos[k]) \in 1 .. Len(z)
    <3> SUFFICES ASSUME NEW k \in h + 1 .. b + 1
                 PROVE  (IF k = b + 1 THEN Len(q) + 1 ELSE pos[k]) \in 1 .. Len(z)
      OBVIOUS
    <3>1. CASE k = b + 1
      BY <1>1, <3>1
    <3>2. CASE k \in h + 1 .. b
      <4>1. k # b + 1 /\ pos[k] \in 1 .. Len(q)
        BY <1>2, <3>2
      <4>2. QED
        BY <1>1, <4>1
    <3>3. QED
      BY <1>3, <3>1, <3>2
  <2>2. QED
    BY <2>1
<1> HIDE DEF r
<1>5. \A k \in h + 1 .. b + 1 : z[r[k]] = Line(w, k)
  BY <1>1, <1>2, <1>3 DEF Leads, e
<1>6. \A k, l \in h + 1 .. b + 1 : k < l => r[k] < r[l]
  <2> SUFFICES ASSUME NEW k \in h + 1 .. b + 1, NEW l \in h + 1 .. b + 1, k < l
               PROVE  r[k] < r[l]
    OBVIOUS
  <2>1. k \in h + 1 .. b
    BY <1>3
  <2>2. CASE l \in h + 1 .. b
    BY <1>2, <2>1, <2>2 DEF Leads
  <2>3. CASE l = b + 1
    <3>1. r[k] \in 1 .. Len(q) /\ r[l] = Len(q) + 1
      BY <1>2, <2>1, <2>3
    <3>2. QED
      BY <1>1, <3>1
  <2>4. QED
    BY <1>3, <2>2, <2>3
<1>7. ASSUME NEW i \in 1 .. Len(z)
      PROVE  \/ z[i].chat # w.chat /\ z[i].turn # w.turn
             \/ \E k \in h + 1 .. b + 1 : i = r[k]
             \/ /\ h = 0 /\ \A k \in h + 1 .. b + 1 : i < r[k]
                /\ z[i].turn = w.turn => z[i].chat = w.chat /\ z[i].type \notin Terminals
             \/ /\ b + 1 = Last(w) /\ (\A k \in h + 1 .. b + 1 : r[k] < i) /\ z[i].turn # w.turn
  <2>1. CASE i = Len(q) + 1
    BY <1>2, <2>1
  <2>2. CASE i \in 1 .. Len(q)
    <3>1. z[i] = q[i] /\ i < Len(q) + 1
      BY <1>1, <2>2
    <3>2. CASE \E k \in h + 1 .. b : i = pos[k]
      BY <1>2, <3>2
    <3>3. CASE /\ h = 0 /\ \A k \in h + 1 .. b : i < pos[k]
               /\ q[i].turn = w.turn => q[i].chat = w.chat /\ q[i].type \notin Terminals
      <4>1. \A k \in h + 1 .. b + 1 : i < r[k]
        BY <1>2, <1>3, <3>1, <3>3
      <4>2. QED
        BY <3>1, <3>3, <4>1
    <3>4. QED
      BY <2>2, <3>1, <3>2, <3>3 DEF Leads
  <2>3. QED
    BY <1>1, <2>1, <2>2
<1>8. Leads(z, w, h, b + 1, r)
  BY <1>4, <1>5, <1>6, <1>7 DEF Leads
<1>9. QED
  BY <1>8 DEF z, e

LEMMA LeadsBeside ==
    ASSUME NEW S, NEW q \in Seq(S), NEW e \in S, NEW w, NEW h \in Nat, NEW b \in Nat, NEW pos,
           Leads(q, w, h, b, pos), e.turn # w.turn, e.chat = w.chat => b = Last(w)
    PROVE  Leads(Append(q, e), w, h, b, pos)
<1> DEFINE z == Append(q, e)
<1>1. /\ Len(z) = Len(q) + 1 /\ Len(q) \in Nat /\ z[Len(q) + 1] = e
      /\ \A i \in 1 .. Len(q) : z[i] = q[i]
  BY Appended
<1> HIDE DEF z
<1>2. \A k \in h + 1 .. b : pos[k] \in 1 .. Len(q)
  BY DEF Leads
<1>3. pos \in [h + 1 .. b -> 1 .. Len(z)] /\ \A k \in h + 1 .. b : z[pos[k]] = Line(w, k)
  BY <1>1, <1>2 DEF Leads
<1>4. ASSUME NEW i \in 1 .. Len(z)
      PROVE  \/ z[i].chat # w.chat /\ z[i].turn # w.turn
             \/ \E k \in h + 1 .. b : i = pos[k]
             \/ /\ h = 0 /\ \A k \in h + 1 .. b : i < pos[k]
                /\ z[i].turn = w.turn => z[i].chat = w.chat /\ z[i].type \notin Terminals
             \/ b = Last(w) /\ (\A k \in h + 1 .. b : pos[k] < i) /\ z[i].turn # w.turn
  <2>1. CASE i = Len(q) + 1
    <3>1. z[i] = e /\ \A k \in h + 1 .. b : pos[k] < i
      BY <1>1, <1>2, <2>1
    <3>2. QED
      BY <3>1
  <2>2. CASE i \in 1 .. Len(q)
    BY <1>1, <2>2 DEF Leads
  <2>3. QED
    BY <1>1, <2>1, <2>2
<1>5. Leads(z, w, h, b, pos)
  BY <1>3, <1>4 DEF Leads
<1>6. QED
  BY <1>5 DEF z

\* The places of what is left when the first event is taken
Sooner(h, b, pos) == [k \in h + 1 .. b |-> pos[k] - 1]

LEMMA LeadsTaken ==
    ASSUME NEW S, NEW q \in Seq(S), q # <<>>, NEW w, NEW h \in Nat, NEW b \in Nat, NEW pos,
           Leads(q, w, h, b, pos), NEW g \in {h, h + 1},
           \A k \in h + 1 .. b : pos[k] = 1 => g = h + 1 /\ k = h + 1,
           g = h + 1 => h + 1 <= b /\ pos[h + 1] = 1
    PROVE  Leads(Tail(q), w, g, b, Sooner(g, b, pos))
<1> DEFINE z == Tail(q)
           r == Sooner(g, b, pos)
<1>1. /\ Len(q) \in Nat /\ Len(z) = Len(q) - 1
      /\ \A i \in 1 .. Len(z) : z[i] = q[i + 1] /\ i + 1 \in 1 .. Len(q)
  BY WithoutHead
<1> HIDE DEF z
<1>2. \A k \in g + 1 .. b : /\ k \in h + 1 .. b /\ r[k] = pos[k] - 1
                            /\ pos[k] \in 1 .. Len(q) /\ pos[k] # 1
  BY DEF Leads, Sooner
<1>3. r \in [g + 1 .. b -> 1 .. Len(z)]
  <2>1. \A k \in g + 1 .. b : pos[k] - 1 \in 1 .. Len(z)
    BY <1>1, <1>2
  <2>2. QED
    BY <2>1 DEF Sooner
<1> HIDE DEF r
<1>4. \A k \in g + 1 .. b : z[r[k]] = Line(w, k)
  <2> SUFFICES ASSUME NEW k \in g + 1 .. b PROVE z[r[k]] = Line(w, k)
    OBVIOUS
  <2>1. r[k] \in 1 .. Len(z) /\ r[k] + 1 = pos[k] /\ k \in h + 1 .. b
    BY <1>2, <1>3
  <2>2. QED
    BY <1>1, <2>1 DEF Leads
<1>5. \A k, l \in g + 1 .. b : k < l => r[k] < r[l]
  BY <1>2 DEF Leads
<1>6. ASSUME NEW i \in 1 .. Len(z)
      PROVE  \/ z[i].chat # w.chat /\ z[i].turn # w.turn
             \/ \E k \in g + 1 .. b : i = r[k]
             \/ /\ g = 0 /\ \A k \in g + 1 .. b : i < r[k]
                /\ z[i].turn = w.turn => z[i].chat = w.chat /\ z[i].type \notin Terminals
             \/ b = Last(w) /\ (\A k \in g + 1 .. b : r[k] < i) /\ z[i].turn # w.turn
  <2>1. z[i] = q[i + 1] /\ i + 1 \in 1 .. Len(q)
    BY <1>1
  <2>2. CASE q[i + 1].chat # w.chat /\ q[i + 1].turn # w.turn
    BY <2>1, <2>2
  <2>3. ASSUME NEW k \in h + 1 .. b, i + 1 = pos[k]
        PROVE  \E l \in g + 1 .. b : i = r[l]
    <3>1. pos[k] # 1
      BY <2>3
    <3>2. k \in g + 1 .. b
      BY <3>1
    <3>3. r[k] = i
      <4>1. r[k] = pos[k] - 1 /\ i \in Int
        BY <1>2, <3>2
      <4>2. QED
        BY <2>3, <4>1
    <3>4. QED
      BY <3>2, <3>3
  <2>4. CASE /\ h = 0 /\ \A k \in h + 1 .. b : i + 1 < pos[k]
             /\ q[i + 1].turn = w.turn =>
                  q[i + 1].chat = w.chat /\ q[i + 1].type \notin Terminals
    <3>1. g = 0
      BY <2>4
    <3>2. \A k \in g + 1 .. b : i < r[k]
      BY <1>2, <2>4
    <3>3. QED
      BY <2>1, <2>4, <3>1, <3>2
  <2>5. CASE b = Last(w) /\ (\A k \in h + 1 .. b : pos[k] < i + 1) /\ q[i + 1].turn # w.turn
    <3>1. \A k \in g + 1 .. b : r[k] < i
      BY <1>2, <2>5
    <3>2. QED
      BY <2>1, <2>5, <3>1
  <2>6. QED
    BY <2>1, <2>2, <2>3, <2>4, <2>5 DEF Leads
<1>7. Leads(z, w, g, b, r)
  BY <1>3, <1>4, <1>5, <1>6 DEF Leads
<1>8. QED
  BY <1>7 DEF z, r

\* The first event of the channel is the next of the answer, or is not of it
LEMMA LeadsHead ==
    ASSUME NEW S, NEW q \in Seq(S), q # <<>>, NEW w \in Talk, NEW h \in Nat, NEW b \in Nat,
           NEW pos, Leads(q, w, h, b, pos), h <= b
    PROVE  \/ /\ h < b /\ q[1] = Line(w, h + 1)
              /\ \E r : Leads(Tail(q), w, h + 1, b, r)
           \/ /\ \E r : Leads(Tail(q), w, h, b, r)
              /\ q[1].chat = w.chat => h = 0 \/ h = Last(w)
              /\ q[1].turn = w.turn => h = 0 /\ q[1].chat = w.chat /\ q[1].type \notin Terminals
<1>1. Len(q) \in Nat /\ 1 \in 1 .. Len(q)
  BY WithoutHead
<1>2. CASE \E k \in h + 1 .. b : pos[k] = 1
  <2>1. PICK k \in h + 1 .. b : pos[k] = 1
    BY <1>2
  <2>2. h + 1 \in h + 1 .. b /\ h < b
    OBVIOUS
  <2>3. k = h + 1
    <3>1. pos[h + 1] \in 1 .. Len(q)
      BY <2>2 DEF Leads
    <3>2. h + 1 < k => pos[h + 1] < pos[k]
      BY <2>2 DEF Leads
    <3>3. QED
      BY <2>1, <3>1, <3>2
  <2>4. q[1] = Line(w, h + 1)
    BY <2>1, <2>2, <2>3 DEF Leads
  <2>5. \A l \in h + 1 .. b : pos[l] = 1 => l = h + 1
    <3> SUFFICES ASSUME NEW l \in h + 1 .. b, pos[l] = 1, l # h + 1 PROVE FALSE
      OBVIOUS
    <3>1. h + 1 < l
      OBVIOUS
    <3>2. pos[h + 1] < pos[l]
      BY <2>2, <3>1 DEF Leads
    <3>3. QED
      BY <2>1, <2>3, <3>2
  <2>6. Leads(Tail(q), w, h + 1, b, Sooner(h + 1, b, pos))
    BY <2>1, <2>2, <2>3, <2>5, LeadsTaken
  <2>7. QED
    BY <2>2, <2>4, <2>6
<1>3. CASE ~(\E k \in h + 1 .. b : pos[k] = 1)
  <2>1. Leads(Tail(q), w, h, b, Sooner(h, b, pos))
    BY <1>3, LeadsTaken
  <2>2. \A k \in h + 1 .. b : ~(pos[k] < 1)
    BY DEF Leads
  <2>3. b = Last(w) /\ (\A k \in h + 1 .. b : pos[k] < 1) => h = Last(w)
    BY <2>2 DEF Last, Talk
  <2>4. \/ q[1].chat # w.chat /\ q[1].turn # w.turn
        \/ h = 0 /\ (q[1].turn = w.turn => q[1].chat = w.chat /\ q[1].type \notin Terminals)
        \/ h = Last(w) /\ q[1].turn # w.turn
    BY <1>1, <1>3, <2>3 DEF Leads
  <2>5. QED
    BY <2>1, <2>4
<1>4. QED
  BY <1>2, <1>3

\* What follows the b-th event, the turn has still to publish
ToPublish(w, b) ==
    /\ b < Last(w) => \E a \in Agent : Active(a) /\ turn[a].id = w.turn
    /\ \A a \in Agent : Active(a) /\ turn[a].id = w.turn =>
         /\ turn[a].chat = w.chat /\ turn[a].stage \in {"finish", "reply"}
         /\ Len(turn[a].queue) = (IF turn[a].stage = "finish" THEN Last(w) - 1 ELSE Last(w)) - b
         /\ \A i \in 1 .. Len(turn[a].queue) : turn[a].queue[i] = Line(w, b + i)

\* A state has so much text in a part; a message shows so much of a turn
Written(s, part, n) ==
    s # None /\ \E p \in s.parts : p.id = part /\ p.kind = "text" /\ Len(p.text) >= n
Complete(form, n) == form \in {"progress", "final"} \/ (form = "calls" /\ n > 0)
Displayed(m, w) == shown[m].turn = w.turn /\ Len(shown[m].text) >= Least(Solid(w), Limit)

\* What the handling of the first h events has made of the state and of the messages
InState(w, h) ==
    /\ h \in 2 .. w.chunks + 2 => Written(states[w.chat], w.part, h - 2)
    /\ h \in w.chunks + 3 .. w.chunks + 4 =>
         /\ Written(states[w.chat], w.part, Solid(w)) /\ states[w.chat].current = None
         /\ states[w.chat].message # 0 /\ Displayed(states[w.chat].message, w)
Ended(w) ==
    \E m \in DOMAIN shown :
      /\ Displayed(m, w)
      /\ Complete(shown[m].form, faults)
      /\ \A d \in Chat : states[d] # None => states[d].message # m
Received(w, h) ==
    /\ w.chat \in Chat => InState(w, h) /\ (h = Last(w) => Ended(w))
    /\ w.turn \in finished => h = Last(w) /\ w.chat \in Chat

Underway(w, h, b) ==
    (\E pos : Leads(stream, w, h, b, pos)) /\ ToPublish(w, b) /\ Received(w, h)

\* A turn that has not reached its end, and the answer of one that has
Before(t) == Unended(t) /\ \A a \in Agent : Active(a) /\ turn[a].id = t => turn[a].stage = "iterate"
Accounted(t) ==
    \E w \in Talk, h \in Nat, b \in Nat :
      /\ w.turn = t /\ answer[t] = Chunks(t, w.part, Solid(w))
      /\ h <= b /\ b <= Last(w) /\ Underway(w, h, b)
Settled(t) == Before(t) \/ answer[t] \in {Default, Failure, <<>>} \/ Accounted(t)
Delivered == \A t \in TurnId : Settled(t)


\* A sequence of n of x between single elements
Wrap(f, s, x, n, y, z) == <<f>> \o (<<s>> \o [i \in 1 .. n |-> x] \o <<y>>) \o <<>> \o <<z>>

LEMMA Wrapped ==
    ASSUME NEW f, NEW s, NEW x, NEW n \in Nat, NEW y, NEW z, NEW q, q = Wrap(f, s, x, n, y, z)
    PROVE  /\ Len(q) = n + 4
           /\ q[1] = f /\ q[2] = s /\ q[n + 3] = y /\ q[n + 4] = z
           /\ \A i \in 3 .. n + 2 : q[i] = x
<1> DEFINE S == {f, s, x, y, z}
           xs == [i \in 1 .. n |-> x]
           a == <<s>> \o xs
           b == a \o <<y>>
           c == <<f>> \o b
           d == c \o <<z>>
<1>1. \A e \in S : <<e>> \in Seq(S) /\ Len(<<e>>) = 1 /\ <<e>>[1] = e
  OBVIOUS
<1>2. xs \in Seq(S) /\ Len(xs) = n /\ \A i \in 1 .. n : xs[i] = x
  OBVIOUS
<1> HIDE DEF xs
<1>3. a \in Seq(S) /\ Len(a) = n + 1 /\ a[1] = s /\ \A i \in 2 .. n + 1 : a[i] = x
  <2>1. a \in Seq(S) /\ Len(a) = 1 + n
    BY <1>1, <1>2, ConcatProperties
  <2>2. \A i \in 1 .. 1 + n : a[i] = IF i <= 1 THEN <<s>>[i] ELSE xs[i - 1]
    BY <1>1, <1>2, ConcatProperties
  <2> HIDE DEF a
  <2>3. \A i \in 2 .. n + 1 : i \in 1 .. 1 + n /\ ~(i <= 1) /\ i - 1 \in 1 .. n
    OBVIOUS
  <2>4. a[1] = s
    BY <1>1, <2>2
  <2>5. \A i \in 2 .. n + 1 : a[i] = xs[i - 1]
    BY <2>2, <2>3
  <2>6. QED
    BY <1>2, <2>1, <2>3, <2>4, <2>5
<1> HIDE DEF a
<1>4. b \in Seq(S) /\ Len(b) = n + 2 /\ b[n + 2] = y /\ \A i \in 1 .. n + 1 : b[i] = a[i]
  <2>1. b \in Seq(S) /\ Len(b) = (n + 1) + 1
    BY <1>1, <1>3, ConcatProperties
  <2>2. \A i \in 1 .. (n + 1) + 1 : b[i] = IF i <= n + 1 THEN a[i] ELSE <<y>>[i - (n + 1)]
    BY <1>1, <1>3, ConcatProperties
  <2> HIDE DEF b
  <2>3. b[n + 2] = <<y>>[(n + 2) - (n + 1)]
    BY <2>2
  <2>4. (n + 2) - (n + 1) = 1
    OBVIOUS
  <2>5. QED
    BY <1>1, <2>1, <2>2, <2>3, <2>4
<1> HIDE DEF b
<1>5. c \in Seq(S) /\ Len(c) = n + 3 /\ c[1] = f /\ \A i \in 2 .. n + 3 : c[i] = b[i - 1]
  <2>1. c \in Seq(S) /\ Len(c) = 1 + (n + 2)
    BY <1>1, <1>4, ConcatProperties
  <2>2. \A i \in 1 .. 1 + (n + 2) : c[i] = IF i <= 1 THEN <<f>>[i] ELSE b[i - 1]
    BY <1>1, <1>4, ConcatProperties
  <2> HIDE DEF c
  <2>3. \A i \in 2 .. n + 3 : i \in 1 .. 1 + (n + 2) /\ ~(i <= 1)
    OBVIOUS
  <2>4. QED
    BY <1>1, <2>1, <2>2, <2>3
<1>6. q = d
  <2>1. q = <<f>> \o b \o <<>> \o <<z>>
    BY DEF Wrap, b, a, xs
  <2>2. c \o <<>> = c
    BY <1>5, ConcatEmptySeq
  <2>3. QED
    BY <2>1, <2>2
<1> HIDE DEF c
<1>7. Len(q) = n + 4 /\ q[n + 4] = z /\ \A i \in 1 .. n + 3 : q[i] = c[i]
  <2>1. d \in Seq(S) /\ Len(d) = (n + 3) + 1
    BY <1>1, <1>5, ConcatProperties
  <2>2. \A i \in 1 .. (n + 3) + 1 : d[i] = IF i <= n + 3 THEN c[i] ELSE <<z>>[i - (n + 3)]
    BY <1>1, <1>5, ConcatProperties
  <2> HIDE DEF d
  <2>3. d[n + 4] = <<z>>[(n + 4) - (n + 3)]
    BY <2>2
  <2>4. (n + 4) - (n + 3) = 1
    OBVIOUS
  <2>5. QED
    <3>1. Len(d) = n + 4 /\ d[n + 4] = z
      BY <1>1, <2>1, <2>3, <2>4
    <3>2. \A i \in 1 .. n + 3 : i \in 1 .. (n + 3) + 1 /\ i <= n + 3
      OBVIOUS
    <3>3. \A i \in 1 .. n + 3 : d[i] = c[i]
      BY <2>2, <3>2
    <3>4. QED
      BY <1>6, <3>1, <3>3
<1>8. q[1] = f /\ q[2] = s /\ q[n + 3] = y
  <2>1. q[1] = c[1]
    BY <1>7
  <2>2. q[2] = b[1] /\ b[1] = a[1]
    <3>1. q[2] = c[2] /\ c[2] = b[2 - 1] /\ b[1] = a[1]
      BY <1>4, <1>5, <1>7
    <3>2. QED
      BY <3>1
  <2>3. q[n + 3] = b[n + 2]
    <3>1. n + 3 \in 1 .. n + 3 /\ n + 3 \in 2 .. n + 3 /\ (n + 3) - 1 = n + 2
      OBVIOUS
    <3>2. q[n + 3] = c[n + 3] /\ c[n + 3] = b[(n + 3) - 1]
      BY <1>5, <1>7, <3>1
    <3>3. QED
      BY <3>1, <3>2
  <2>4. QED
    BY <1>3, <1>4, <1>5, <2>1, <2>2, <2>3
<1>9. ASSUME NEW i \in 3 .. n + 2 PROVE q[i] = x
  <2>1. q[i] = c[i] /\ c[i] = b[i - 1]
    BY <1>5, <1>7
  <2>2. b[i - 1] = a[i - 1] /\ a[i - 1] = x
    BY <1>3, <1>4
  <2>3. QED
    BY <2>1, <2>2
<1>10. QED
  BY <1>7, <1>8, <1>9

\* The events of the iteration that answers
AnswerEvents(w, t, outcome) ==
    <<Event("start-step", t, 0)>> \o TextEvents(t, w.part, w.chunks, w.blanks)
    \o ToolEvents(t, w.part, 0, outcome) \o <<Event("finish-step", t, 0)>>

LEMMA AnswerQueue ==
    ASSUME NEW w \in Talk, NEW t, t.chat = w.chat, t.id = w.turn, NEW outcome,
           NEW q, q = AnswerEvents(w, t, outcome)
    PROVE  Len(q) = w.chunks + 4 /\ \A i \in 1 .. w.chunks + 4 : q[i] = Line(w, i)
<1>1. w.chunks \in Nat /\ w.chunks # 0 /\ w.part \in Nat
  BY DEF Talk
<1>2. ASSUME NEW n \in Nat, n = w.chunks
      PROVE  Len(q) = n + 4 /\ \A i \in 1 .. n + 4 : q[i] = Line(w, i)
  <2> DEFINE f == Event("start-step", t, 0)
             s == Event("text-start", t, w.part)
             x == Event("text-delta", t, w.part)
             y == TextEnd(t, w.part, w.blanks)
             z == Event("finish-step", t, 0)
  <2>1. TextEvents(t, w.part, n, w.blanks) = <<s>> \o [i \in 1 .. n |-> x] \o <<y>>
    BY <1>1, <1>2 DEF TextEvents
  <2>2. ToolEvents(t, w.part, 0, outcome) = <<>>
    <3>1. 1 .. 3 * 0 = {}
      OBVIOUS
    <3>2. QED
      BY <3>1 DEF ToolEvents
  <2>3. q = Wrap(f, s, x, n, y, z)
    BY <1>2, <2>1, <2>2 DEF Wrap, AnswerEvents
  <2>4. /\ f = [type |-> "start-step", chat |-> w.chat, turn |-> w.turn, part |-> 0,
              blanks |-> 0]
        /\ s = [type |-> "text-start", chat |-> w.chat, turn |-> w.turn, part |-> w.part,
              blanks |-> 0]
        /\ x = [type |-> "text-delta", chat |-> w.chat, turn |-> w.turn, part |-> w.part,
              blanks |-> 0]
        /\ y = [type |-> "text-end", chat |-> w.chat, turn |-> w.turn, part |-> w.part,
              blanks |-> w.blanks]
        /\ z = [type |-> "finish-step", chat |-> w.chat, turn |-> w.turn, part |-> 0,
              blanks |-> 0]
    BY DEF Event, TextEnd
  <2> HIDE DEF f, s, x, y, z
  <2>6. /\ Len(q) = n + 4
        /\ q[1] = f /\ q[2] = s /\ q[n + 3] = y /\ q[n + 4] = z
        /\ \A i \in 3 .. n + 2 : q[i] = x
    BY <2>3, Wrapped
  <2>7. ASSUME NEW i \in 1 .. n + 4 PROVE q[i] = Line(w, i)
    <3>1. CASE i = 1
      <4>1. Line(w, 1) = f
        BY <1>2, <2>4 DEF Line
      <4>2. QED
        BY <2>6, <3>1, <4>1
    <3>2. CASE i = 2
      <4>1. Line(w, 2) = s
        BY <1>2, <2>4 DEF Line
      <4>2. QED
        BY <2>6, <3>2, <4>1
    <3>3. CASE i \in 3 .. n + 2
      <4>1. Line(w, i) = x
        BY <1>2, <2>4, <3>3 DEF Line
      <4>2. QED
        BY <2>6, <3>3, <4>1
    <3>4. CASE i = n + 3
      <4>1. Line(w, i) = y
        BY <1>1, <1>2, <2>4, <3>4 DEF Line
      <4>2. QED
        BY <2>6, <3>4, <4>1
    <3>5. CASE i = n + 4
      <4>1. Line(w, i) = z
        BY <1>1, <1>2, <2>4, <3>5 DEF Line
      <4>2. QED
        BY <2>6, <3>5, <4>1
    <3>6. i = 1 \/ i = 2 \/ i \in 3 .. n + 2 \/ i = n + 3 \/ i = n + 4
      OBVIOUS
    <3>7. QED
      BY <3>6, <3>1, <3>2, <3>3, <3>4, <3>5
  <2>8. QED
    BY <2>6, <2>7
<1>3. QED
  BY <1>1, <1>2

LEMMA TalkFields ==
    ASSUME NEW w \in Talk
    PROVE  /\ w.chat \in AnyChat /\ w.turn \in TurnId /\ w.part \in Nat
           /\ w.chunks \in Nat /\ w.chunks # 0 /\ Last(w) = w.chunks + 5 /\ Last(w) \in Nat
           /\ w.blanks \in Nat /\ w.blanks < w.chunks
           /\ Solid(w) \in Nat /\ Solid(w) # 0 /\ Solid(w) = w.chunks - w.blanks
BY DEF Talk, Last, Solid

\* The goroutines that are in another turn do not matter
LEMMA ToPublishKept ==
    ASSUME NEW w, NEW b, ToPublish(w, b),
           \A a \in Agent : \/ turn'[a] = turn[a]
                            \/ /\ ~(Active(a) /\ turn[a].id = w.turn)
                               /\ ~(Active(a)' /\ turn'[a].id = w.turn)
    PROVE  ToPublish(w, b)'
<1>1. ASSUME NEW a \in Agent, Active(a)', turn'[a].id = w.turn
      PROVE  turn'[a] = turn[a] /\ Active(a) /\ turn[a].id = w.turn
  BY <1>1 DEF Active
<1>2. ASSUME NEW a \in Agent, Active(a), turn[a].id = w.turn
      PROVE  turn'[a] = turn[a] /\ Active(a)' /\ turn'[a].id = w.turn
  BY <1>2 DEF Active
<1>3. b < Last(w) => \E a \in Agent : Active(a)' /\ turn'[a].id = w.turn
  BY <1>2 DEF ToPublish
<1>4. ASSUME NEW a \in Agent, Active(a)', turn'[a].id = w.turn
      PROVE  /\ turn'[a].chat = w.chat /\ turn'[a].stage \in {"finish", "reply"}
             /\ Len(turn'[a].queue) = (IF turn'[a].stage = "finish" THEN Last(w) - 1 ELSE Last(w)) - b
             /\ \A i \in 1 .. Len(turn'[a].queue) : turn'[a].queue[i] = Line(w, b + i)
  <2>1. turn'[a] = turn[a] /\ Active(a) /\ turn[a].id = w.turn
    BY <1>1, <1>4
  <2>2. /\ turn[a].chat = w.chat /\ turn[a].stage \in {"finish", "reply"}
        /\ Len(turn[a].queue) = (IF turn[a].stage = "finish" THEN Last(w) - 1 ELSE Last(w)) - b
        /\ \A i \in 1 .. Len(turn[a].queue) : turn[a].queue[i] = Line(w, b + i)
    BY <2>1 DEF ToPublish
  <2>3. QED
    BY <2>1, <2>2
<1>5. QED
  BY <1>3, <1>4 DEF ToPublish, Last, Line

\* More messages, and states that have none, change nothing of what has been received
LEMMA ReceivedKept ==
    ASSUME Types, NEW w, NEW h, Received(w, h), finished' = finished,
           faults > 0 => faults' > 0,
           DOMAIN shown \subseteq DOMAIN shown', \A m \in DOMAIN shown : shown'[m] = shown[m],
           \A d \in Chat : states'[d] = states[d] \/ (states[d] = None /\ states'[d] = NewState)
    PROVE  Received(w, h)'
<1>1. DOMAIN shown = 1 .. Len(shown) /\ Len(shown) \in Nat
  BY LenProperties DEF Types, Display
<1>2. \A d \in Chat : states[d] # None =>
        states'[d] = states[d] /\ (states[d].message # 0 => states[d].message \in DOMAIN shown)
  BY <1>1 DEF Types, Display, StateOf
<1>3. ASSUME w.chat \in Chat, InState(w, h) PROVE InState(w, h)'
  <2> DEFINE s == states[w.chat]
  <2>1. s # None => states'[w.chat] = s /\ (s.message # 0 => s.message \in DOMAIN shown)
    BY <1>2, <1>3
  <2>2. \A n : Written(s, w.part, n) => s # None /\ Written(states'[w.chat], w.part, n)
    BY <2>1 DEF Written
  <2>3. s # None /\ s.message # 0 /\ Displayed(s.message, w) =>
          /\ shown'[states'[w.chat].message].turn = w.turn
          /\ Len(shown'[states'[w.chat].message].text) >= Least(Solid(w), Limit)
    BY <2>1 DEF Displayed
  <2>4. h \in 2 .. w.chunks + 2 => Written(states'[w.chat], w.part, h - 2)
    BY <1>3, <2>2 DEF InState
  <2>5. ASSUME h \in w.chunks + 3 .. w.chunks + 4
        PROVE  /\ Written(states'[w.chat], w.part, Solid(w)) /\ states'[w.chat].current = None
               /\ states'[w.chat].message # 0 /\ Displayed(states[w.chat].message, w)'
    <3>1. /\ Written(s, w.part, Solid(w)) /\ s.current = None
          /\ s.message # 0 /\ Displayed(s.message, w)
      BY <1>3, <2>5 DEF InState
    <3>2. s # None
      BY <2>2, <3>1
    <3>3. QED
      BY <2>1, <2>2, <2>3, <3>1, <3>2 DEF Displayed
  <2> HIDE DEF s
  <2>6. QED
    BY <2>4, <2>5 DEF InState, Written, Displayed
<1>4. ASSUME Ended(w) PROVE Ended(w)'
  <2>1. PICK m \in DOMAIN shown :
          /\ Displayed(m, w) /\ Complete(shown[m].form, faults)
          /\ \A d \in Chat : states[d] # None => states[d].message # m
    BY <1>4 DEF Ended
  <2>2. m \in DOMAIN shown' /\ shown'[m] = shown[m] /\ m # 0 /\ NewState.message = 0
    BY <1>1, NoneInNewState
  <2>3. ASSUME NEW d \in Chat, states'[d] # None PROVE states'[d].message # m
    BY <2>1, <2>2, <2>3
  <2>4. QED
    BY <2>1, <2>2, <2>3 DEF Ended, Displayed, Complete
<1>5. QED
  BY <1>3, <1>4 DEF Received, Last

LEMMA SettledKept ==
    ASSUME Types, NEW t \in TurnId, Settled(t), stream' = stream, finished' = finished,
           faults > 0 => faults' > 0,
           DOMAIN shown \subseteq DOMAIN shown', \A m \in DOMAIN shown : shown'[m] = shown[m],
           \A d \in Chat : states'[d] = states[d] \/ (states[d] = None /\ states'[d] = NewState),
           answer'[t] = answer[t],
           \A a \in Agent : \/ turn'[a] = turn[a]
                            \/ /\ ~(Active(a) /\ turn[a].id = t)
                               /\ ~(Active(a)' /\ turn'[a].id = t)
    PROVE  Settled(t)'
<1>1. CASE Before(t)
  <2>1. Unended(t)'
    BY <1>1 DEF Before, Unended
  <2>2. ASSUME NEW a \in Agent, Active(a)', turn'[a].id = t
        PROVE  turn'[a].stage = "iterate"
    <3>1. turn'[a] = turn[a] /\ Active(a) /\ turn[a].id = t
      BY <2>2 DEF Active
    <3>2. QED
      BY <1>1, <3>1 DEF Before
  <2>3. QED
    BY <2>1, <2>2 DEF Settled, Before
<1>2. CASE answer[t] \in {Default, Failure, <<>>}
  BY <1>2 DEF Settled, Default, Failure
<1>3. CASE Accounted(t)
  <2>1. PICK w \in Talk, h \in Nat, b \in Nat :
          /\ w.turn = t /\ answer[t] = Chunks(t, w.part, Solid(w))
          /\ h <= b /\ b <= Last(w) /\ Underway(w, h, b)
    BY <1>3 DEF Accounted
  <2>2. Underway(w, h, b)'
    <3>1. ToPublish(w, b)'
      BY <2>1, ToPublishKept DEF Underway
    <3>2. Received(w, h)'
      BY <2>1, ReceivedKept DEF Underway
    <3>3. PICK pos : Leads(stream, w, h, b, pos)
      BY <2>1 DEF Underway
    <3>4. Leads(stream', w, h, b, pos)
      BY <3>3
    <3>5. QED
      BY <3>1, <3>2, <3>4 DEF Underway
  <2>3. Accounted(t)'
    <3>1. answer'[t] = Chunks(t, w.part, Solid(w))
      BY <2>1
    <3>2. QED
      BY <2>1, <2>2, <3>1 DEF Accounted, Last, Chunks
  <2>4. QED
    BY <2>3 DEF Settled
<1>4. QED
  BY <1>1, <1>2, <1>3 DEF Settled

LEMMA SettledBegin ==
    ASSUME Types, Delivered, NEW a \in Agent, NEW t \in TurnId, NEW c,
           ~Active(a), Begin(a, t, c), Unused(t), UNCHANGED <<stream, finished, faults, states, shown, answer>>
    PROVE  Delivered'
<1>1. /\ turn'[a].id = t /\ turn'[a].stage = "iterate"
      /\ \A b \in Agent \ {a} : turn'[b] = turn[b]
  BY BeginStep
<1>2. ASSUME NEW u \in TurnId, u # t PROVE Settled(u)'
  <2>1. Settled(u)
    BY DEF Delivered
  <2>2. \A b \in Agent : \/ turn'[b] = turn[b]
                         \/ /\ ~(Active(b) /\ turn[b].id = u)
                            /\ ~(Active(b)' /\ turn'[b].id = u)
    BY <1>1, <1>2
  <2>3. QED
    BY <2>1, <2>2, SettledKept
<1>3. Before(t)'
  <2>1. Unended(t)'
    BY DEF Unused, Unended
  <2>2. ASSUME NEW b \in Agent, Active(b)', turn'[b].id = t PROVE turn'[b].stage = "iterate"
    BY <1>1, <2>2 DEF Unused, Active
  <2>3. QED
    BY <2>1, <2>2 DEF Before
<1>4. QED
  BY <1>2, <1>3 DEF Delivered, Settled

\* The turn of a goroutine whose loop is under way has not reached its end
LEMMA IteratingBefore ==
    ASSUME RunningOnce, Iterating, NEW a \in Agent, turn[a].stage = "iterate"
    PROVE  Before(turn[a].id)
BY DEF RunningOnce, Iterating, Before, Active

\* The turn has its answer
LEMMA AnswerGiven ==
    ASSUME ConstantsAssumption, Types, RunningOnce, Iterating, NEW a \in Agent, NEW w \in Talk,
           turn[a].id = w.turn, turn[a].chat = w.chat,
           turn[a].stage = "iterate", turn'[a].stage = "finish", turn'[a].id = turn[a].id,
           turn'[a].chat = turn[a].chat, \A b \in Agent \ {a} : turn'[b] = turn[b],
           UNCHANGED <<stream, finished>>, NEW outcome,
           answer'[w.turn] = Chunks(w.turn, w.part, Solid(w)),
           turn'[a].queue = AnswerEvents(w, turn[a], outcome)
    PROVE  Accounted(w.turn)'
<1> DEFINE pos == [k \in 1 .. 0 |-> 0]
<1>1. Last(w) \in Nat /\ Last(w) = w.chunks + 5 /\ w.turn \in TurnId /\ w.chunks \in Nat
  BY TalkFields
<1>2. /\ Len(turn'[a].queue) = w.chunks + 4
      /\ \A i \in 1 .. w.chunks + 4 : turn'[a].queue[i] = Line(w, i)
  BY AnswerQueue
<1>3. Before(w.turn)
  BY IteratingBefore
<1>4. Leads(stream, w, 0, 0, pos)
  <2>1. 0 + 1 .. 0 = {} /\ 1 .. 0 = {}
    OBVIOUS
  <2>2. \A i \in 1 .. Len(stream) :
          stream[i].turn = w.turn => stream[i].chat = w.chat /\ stream[i].type \notin Terminals
    <3>1. DOMAIN stream = 1 .. Len(stream)
      BY LenProperties DEF Types, Streaming
    <3>2. QED
      BY <1>3, <3>1 DEF Before, Unended, Iterating
  <2>3. \A k \in 0 + 1 .. 0 : FALSE
    BY <2>1
  <2>4. pos \in [0 + 1 .. 0 -> 1 .. Len(stream)]
    BY <2>1
  <2> HIDE DEF pos
  <2>5. QED
    BY <2>2, <2>3, <2>4 DEF Leads
<1>5. ToPublish(w, 0)'
  <2>1. Active(a)' /\ turn'[a].id = w.turn
    BY DEF Active
  <2>2. ASSUME NEW b \in Agent, Active(b)', turn'[b].id = w.turn PROVE b = a
    <3>1. Active(a) /\ (b # a => Active(b) /\ turn[b].id = turn[a].id)
      BY <2>2 DEF Active
    <3>2. QED
      BY <3>1 DEF RunningOnce
  <2>3. Len(turn'[a].queue) = (Last(w) - 1) - 0
        /\ \A i \in 1 .. Len(turn'[a].queue) : turn'[a].queue[i] = Line(w, 0 + i)
    BY <1>1, <1>2
  <2>4. /\ turn'[a].chat = w.chat /\ turn'[a].stage \in {"finish", "reply"}
        /\ Len(turn'[a].queue) = (IF turn'[a].stage = "finish" THEN Last(w) - 1 ELSE Last(w)) - 0
    BY <2>3
  <2>5. QED
    BY <2>1, <2>2, <2>3, <2>4 DEF ToPublish
<1>6. Received(w, 0)'
  <2>1. 0 \notin 2 .. w.chunks + 2 /\ 0 \notin w.chunks + 3 .. w.chunks + 4 /\ 0 # Last(w)
    BY <1>1
  <2>2. w.turn \notin finished'
    BY <1>3 DEF Before, Unended
  <2>3. InState(w, 0)'
    BY <2>1 DEF InState
  <2>4. QED
    BY <2>1, <2>2, <2>3 DEF Received
<1>7. Underway(w, 0, 0)'
  BY <1>4, <1>5, <1>6 DEF Underway
<1>8. 0 \in Nat /\ 0 <= 0 /\ 0 <= Last(w)
  BY <1>1
<1> HIDE DEF pos
<1>9. QED
  BY <1>7, <1>8 DEF Accounted

LEMMA SettledTurn ==
    ASSUME ConstantsAssumption, Types, Numbered, Delivered, NEW a \in Agent,
           Iterate(a) \/ LlmFails(a) \/ IterationsExhausted(a)
    PROVE  Delivered'
<1>1. PICK t \in TurnId : turn[a].id = t
  <2>1. turn[a].stage # "idle"
    BY DEF Iterate, LlmFails, IterationsExhausted
  <2>2. QED
    BY <2>1, Turn DEF Types
<1>7. /\ turn[a].stage = "iterate" /\ turn'[a].id = t /\ turn'[a].chat = turn[a].chat
      /\ turn'[a].stage # "idle"
      /\ \A b \in Agent \ {a} : turn'[b] = turn[b]
      /\ UNCHANGED <<stream, finished, faults, states, shown>>
  <2>1. turn[a].stage = "iterate"
    BY DEF Iterate, LlmFails, IterationsExhausted
  <2>2. /\ turn'[a].stage # "idle" /\ turn'[a].chat = turn[a].chat /\ turn'[a].id = turn[a].id
        /\ \A b \in Agent \ {a} : turn'[b] = turn[b]
        /\ UNCHANGED <<arriving, inbound, outbound, stream, turns, chatVars>>
    BY TurnStep
  <2>3. QED
    BY <1>1, <2>1, <2>2 DEF chatVars
<1>2. answer \in [TurnId -> Text \cup {None}]
  BY DEF Types, Counted
<1>3. ASSUME NEW u \in TurnId, u # t PROVE Settled(u)'
  <2>1. Settled(u)
    BY DEF Delivered
  <2>2. answer'[u] = answer[u]
    BY <1>1, <1>2, <1>3 DEF Iterate, LlmFails, IterationsExhausted
  <2>3. \A b \in Agent : \/ turn'[b] = turn[b]
                         \/ /\ ~(Active(b) /\ turn[b].id = u)
                            /\ ~(Active(b)' /\ turn'[b].id = u)
    BY <1>1, <1>7, <1>3
  <2>4. QED
    BY <1>7, <2>1, <2>2, <2>3, SettledKept
<1>4. CASE LlmFails(a) \/ IterationsExhausted(a)
  <2>1. answer'[t] \in {Default, Failure}
    BY <1>1, <1>2, <1>4 DEF LlmFails, IterationsExhausted
  <2>2. Settled(t)'
    BY <2>1 DEF Settled, Default, Failure
  <2>3. QED
    BY <1>3, <2>2 DEF Delivered
<1>5. CASE Iterate(a)
  <2>1. PICK r \in Replies, outcome \in {"tool-result", "tool-error"} :
             LET textPart == IF r.chunks = 0 THEN turn[a].part ELSE turn[a].part + 1
             IN
             /\ textPart \in Nat
             /\ turn'[a].stage = IF r.calls = 0 THEN "finish" ELSE "iterate"
             /\ turn'[a].queue = <<Event("start-step", turn[a], 0)>>
                                 \o TextEvents(turn[a], textPart, r.chunks, r.blanks)
                                 \o ToolEvents(turn[a], textPart, r.calls, outcome)
                                 \o <<Event("finish-step", turn[a], 0)>>
             /\ answer' = IF r.calls = 0
                          THEN [answer EXCEPT ![turn[a].id] =
                                  IF r.chunks = 0 THEN Default
                                  ELSE Chunks(turn[a].id, textPart, r.chunks - r.blanks)]
                          ELSE answer
    BY <1>5, IterateStep
  <2> DEFINE part == IF r.chunks = 0 THEN turn[a].part ELSE turn[a].part + 1
  <2>2. Settled(t)'
    <3>1. CASE r.calls # 0
      <4>1. turn'[a].stage = "iterate"
        BY <2>1, <3>1
      <4>2. Before(t)
        BY <1>1, <1>7, IteratingBefore DEF Numbered
      <4>3. Unended(t)'
        BY <1>7, <4>2 DEF Before, Unended
      <4>4. ASSUME NEW b \in Agent, Active(b)', turn'[b].id = t PROVE turn'[b].stage = "iterate"
        BY <1>1, <1>7, <4>1, <4>2, <4>4 DEF Before, Active
      <4>5. Before(t)'
        BY <4>3, <4>4 DEF Before
      <4>6. QED
        BY <4>5 DEF Settled
    <3>2. CASE r.calls = 0 /\ r.chunks = 0
      <4>1. answer'[t] = Default
        BY <1>1, <1>2, <2>1, <3>2
      <4>2. QED
        BY <4>1 DEF Settled, Default, Failure
    <3>5. CASE r.calls = 0 /\ r.chunks # 0 /\ r.blanks = r.chunks
      <4>1. answer'[t] = Chunks(t, part, 0)
        BY <1>1, <1>2, <2>1, <3>5 DEF Replies
      <4>2. Chunks(t, part, 0) = <<>>
        <5>1. 1 .. 0 = {}
          OBVIOUS
        <5>2. QED
          BY <5>1 DEF Chunks
      <4>3. QED
        BY <4>1, <4>2 DEF Settled, Default, Failure
    <3>3. CASE r.calls = 0 /\ r.chunks # 0 /\ r.blanks # r.chunks
      <4>1. /\ part \in Nat /\ r.chunks \in Nat /\ r.blanks \in Nat /\ r.blanks < r.chunks
            /\ turn'[a].stage = "finish"
        BY <2>1, <3>3 DEF Replies
      <4>2. answer'[t] = Chunks(t, part, r.chunks - r.blanks)
        BY <1>1, <1>2, <2>1, <3>3
      <4>3. turn'[a].queue = <<Event("start-step", turn[a], 0)>>
                             \o TextEvents(turn[a], part, r.chunks, r.blanks)
                             \o ToolEvents(turn[a], part, 0, outcome)
                             \o <<Event("finish-step", turn[a], 0)>>
        BY <2>1, <3>3
      <4> HIDE DEF part
      <4>6. turn[a].chat \in AnyChat
        BY <1>7, Turn DEF Types
      <4>4. PICK w \in Talk : /\ w.chat = turn[a].chat /\ w.turn = t
                              /\ w.part = part /\ w.chunks = r.chunks /\ w.blanks = r.blanks
        <5> DEFINE x == [chat |-> turn[a].chat, turn |-> t, part |-> part,
                         chunks |-> r.chunks, blanks |-> r.blanks]
        <5>1. x \in Talk /\ x.chat = turn[a].chat /\ x.turn = t /\ x.part = part
              /\ x.chunks = r.chunks /\ x.blanks = r.blanks
          BY <4>1, <4>6 DEF Talk
        <5> HIDE DEF x
        <5>2. QED
          BY <5>1
      <4>9. answer'[w.turn] = Chunks(w.turn, w.part, Solid(w))
        BY <4>2, <4>4 DEF Solid
      <4>8. turn'[a].queue = AnswerEvents(w, turn[a], outcome)
        BY <4>3, <4>4 DEF AnswerEvents
      <4>7. Accounted(w.turn)'
        BY <1>1, <1>7, <4>1, <4>9, <4>8, <4>4, AnswerGiven DEF Numbered
      <4>5. QED
        BY <4>4, <4>7 DEF Settled
    <3>4. QED
      BY <3>1, <3>2, <3>3, <3>5
  <2>3. QED
    BY <1>3, <2>2 DEF Delivered
<1>6. QED
  BY <1>4, <1>5

LEMMA SettledEnd ==
    ASSUME ConstantsAssumption, Types, Numbered, Delivered, NEW a \in Agent,
           Finish(a) \/ Return(a)
    PROVE  Delivered'
<1>1. PICK t \in TurnId : turn[a].id = t
  <2>1. turn[a].stage # "idle"
    BY DEF Finish, Return
  <2>2. QED
    BY <2>1, Turn DEF Types
<1>2. /\ \A b \in Agent \ {a} : turn'[b] = turn[b]
      /\ turn[a].stage \in {"finish", "reply"} /\ turn[a].queue = <<>>
      /\ UNCHANGED <<stream, states, shown, finished, faults, answer>>
      /\ turn'[a].stage = "idle" \/ turn'[a].id = t
      /\ DOMAIN turn = Agent
  BY <1>1 DEF Finish, Return, chatVars, Types, Running, TurnOf, Idle
<1>3. ASSUME NEW u \in TurnId, u # t PROVE Settled(u)'
  <2>1. Settled(u)
    BY DEF Delivered
  <2>2. \A b \in Agent : \/ turn'[b] = turn[b]
                         \/ /\ ~(Active(b) /\ turn[b].id = u)
                            /\ ~(Active(b)' /\ turn'[b].id = u)
    BY <1>1, <1>2, <1>3 DEF Active
  <2>3. QED
    BY <1>2, <2>1, <2>2, SettledKept
<1>4. Active(a) /\ ~Before(t)
  BY <1>1, <1>2 DEF Before, Active
<1>5. CASE answer[t] \in {Default, Failure, <<>>}
  <2>1. Settled(t)'
    BY <1>2, <1>5 DEF Settled, Default, Failure
  <2>2. QED
    BY <1>3, <2>1 DEF Delivered
<1>6. CASE Accounted(t)
  <2>1. PICK w \in Talk, h \in Nat, b \in Nat :
          /\ w.turn = t /\ answer[t] = Chunks(t, w.part, Solid(w))
          /\ h <= b /\ b <= Last(w) /\ Underway(w, h, b)
    BY <1>6 DEF Accounted
  <2>2. /\ Last(w) \in Nat /\ Last(w) = w.chunks + 5 /\ w.chunks \in Nat
        /\ w.chunks # 0 /\ w.turn \in TurnId
    BY TalkFields
  <2>3. /\ turn[a].chat = w.chat
        /\ 0 = (IF turn[a].stage = "finish" THEN Last(w) - 1 ELSE Last(w)) - b
    BY <1>1, <1>2, <1>4, <2>1 DEF Underway, ToPublish
  <2>4. ASSUME NEW c \in Agent, Active(c)', turn'[c].id = t PROVE c = a
    <3>1. c # a => Active(c) /\ turn[c].id = turn[a].id
      BY <1>1, <1>2, <2>4 DEF Active
    <3>2. QED
      BY <1>4, <3>1 DEF Numbered, RunningOnce
  <2>5. ToPublish(w, b)'
    <3>1. CASE Finish(a)
      <4>1. /\ turn'[a].stage = "reply" /\ turn'[a].chat = turn[a].chat /\ turn'[a].id = t
            /\ turn'[a].queue = <<Event("finish", turn[a], 0)>> /\ turn[a].stage = "finish"
        BY <1>1, <1>2, <3>1 DEF Finish, Types, Running, TurnOf
      <4>2. b = Last(w) - 1 /\ b + 1 = Last(w)
        BY <2>2, <2>3, <4>1
      <4>3. Line(w, b + 1) = Event("finish", turn[a], 0)
        <5>1. /\ b + 1 # 1 /\ b + 1 # 2 /\ ~(b + 1 <= w.chunks + 2) /\ b + 1 # w.chunks + 3
              /\ b + 1 # w.chunks + 4 /\ b + 1 \notin 2 .. w.chunks + 3
          BY <2>2, <4>2
        <5>2. QED
          BY <1>1, <2>1, <2>3, <5>1 DEF Line, Event
      <4>4. /\ Len(turn'[a].queue) = Last(w) - b
            /\ \A i \in 1 .. Len(turn'[a].queue) : turn'[a].queue[i] = Line(w, b + i)
        <5>1. Len(turn'[a].queue) = 1 /\ turn'[a].queue[1] = Line(w, b + 1)
          BY <4>1, <4>3
        <5>2. \A i \in 1 .. 1 : i = 1
          OBVIOUS
        <5>3. QED
          BY <2>2, <4>2, <5>1, <5>2
      <4>5. Active(a)' /\ turn'[a].id = w.turn
        BY <2>1, <4>1 DEF Active
      <4>6. turn'[a].chat = w.chat /\ turn'[a].stage \in {"finish", "reply"}
            /\ turn'[a].stage # "finish"
        BY <2>3, <4>1
      <4>7. QED
        BY <2>1, <2>4, <4>4, <4>5, <4>6 DEF ToPublish
    <3>2. CASE Return(a)
      <4>1. turn'[a].stage = "idle" /\ turn[a].stage = "reply"
        BY <1>2, <3>2 DEF Return, Idle
      <4>2. ~(b < Last(w))
        BY <2>2, <2>3, <4>1
      <4>3. \A c \in Agent : ~(Active(c)' /\ turn'[c].id = w.turn)
        BY <2>1, <2>4, <4>1 DEF Active
      <4>4. QED
        BY <4>2, <4>3 DEF ToPublish
    <3>3. QED
      BY <3>1, <3>2
  <2>6. Received(w, h)'
    BY <1>2, <2>1, ReceivedKept DEF Underway
  <2>7. Underway(w, h, b)'
    BY <1>2, <2>1, <2>5, <2>6 DEF Underway
  <2>8. answer'[t] = Chunks(t, w.part, Solid(w))
    BY <1>2, <2>1
  <2>9. Settled(t)'
    BY <2>1, <2>7, <2>8 DEF Settled, Accounted
  <2>10. QED
    BY <1>3, <2>9 DEF Delivered
<1>7. QED
  BY <1>4, <1>5, <1>6 DEF Delivered, Settled

\* Another turn publishes an event
LEMMA SettledOtherPublish ==
    ASSUME ConstantsAssumption, Types, Disjoint, Numbered, NEW a \in Agent, PublishStream(a),
           NEW t \in TurnId, t # turn[a].id, Settled(t)
    PROVE  Settled(t)'
<1> DEFINE e == Head(turn[a].queue)
<1>1. /\ e \in EventOf(turns) /\ e.chat = turn[a].chat /\ e.turn = turn[a].id /\ e.chat \in AnyChat
      /\ stream \in Seq(EventOf(turns)) /\ stream' = Append(stream, e)
      /\ turn'[a].id = turn[a].id /\ \A b \in Agent \ {a} : turn'[b] = turn[b]
      /\ UNCHANGED <<answer, states, shown, finished, faults>>
  BY PublishStep DEF chatVars
<1> HIDE DEF e
<1>2. CASE Before(t)
  <2>1. Unended(t)'
    <3>1. /\ DOMAIN stream = 1 .. Len(stream) /\ DOMAIN stream' = 1 .. Len(stream) + 1
          /\ stream'[Len(stream) + 1] = e /\ \A i \in 1 .. Len(stream) : stream'[i] = stream[i]
          /\ Len(stream) \in Nat
      BY <1>1, Appended
    <3>2. \A i \in 1 .. Len(stream) + 1 : i \in 1 .. Len(stream) \/ i = Len(stream) + 1
      BY <3>1
    <3>3. QED
      BY <1>1, <1>2, <3>1, <3>2 DEF Before, Unended
  <2>2. \A b \in Agent : Active(b)' /\ turn'[b].id = t => turn'[b].stage = "iterate"
    BY <1>1, <1>2 DEF Before, Active
  <2>3. QED
    BY <2>1, <2>2 DEF Settled, Before
<1>3. CASE answer[t] \in {Default, Failure, <<>>}
  BY <1>1, <1>3 DEF Settled, Default, Failure
<1>4. CASE Accounted(t)
  <2>1. PICK w \in Talk, h \in Nat, b \in Nat :
          /\ w.turn = t /\ answer[t] = Chunks(t, w.part, Solid(w))
          /\ h <= b /\ b <= Last(w) /\ Underway(w, h, b)
    BY <1>4 DEF Accounted
  <2>2. Last(w) \in Nat
    BY TalkFields
  <2>3. PICK pos : Leads(stream, w, h, b, pos)
    BY <2>1 DEF Underway
  <2>4. e.chat = w.chat => b = Last(w)
    <3> SUFFICES ASSUME e.chat = w.chat, b < Last(w) PROVE FALSE
      BY <2>1, <2>2
    <3>1. PICK c \in Agent : Active(c) /\ turn[c].id = w.turn
      BY <2>1 DEF Underway, ToPublish
    <3>2. turn[c].chat = w.chat
      BY <2>1, <3>1 DEF Underway, ToPublish
    <3>3. turn[a].chat = turn[c].chat /\ turn[a].chat # None
      BY <1>1, <3>2, Constants
    <3>4. a = c
      BY <3>3, OneServes
    <3>5. QED
      BY <2>1, <3>1, <3>4
  <2>5. e.turn # w.turn
    BY <1>1, <2>1
  <2>6. Leads(stream', w, h, b, pos)
    BY <1>1, <2>3, <2>4, <2>5, LeadsBeside
  <2>7. ToPublish(w, b)'
    <3>1. \A c \in Agent : \/ turn'[c] = turn[c]
                           \/ /\ ~(Active(c) /\ turn[c].id = w.turn)
                              /\ ~(Active(c)' /\ turn'[c].id = w.turn)
      BY <1>1, <2>1
    <3>2. QED
      BY <2>1, <3>1, ToPublishKept DEF Underway
  <2>8. Received(w, h)'
    BY <1>1, <2>1, ReceivedKept DEF Underway
  <2>9. Underway(w, h, b)'
    BY <2>6, <2>7, <2>8 DEF Underway
  <2>10. answer'[t] = Chunks(t, w.part, Solid(w))
    BY <1>1, <2>1
  <2>11. QED
    BY <2>1, <2>9, <2>10 DEF Settled, Accounted
<1>5. QED
  BY <1>2, <1>3, <1>4 DEF Settled

\* A turn publishes the next event of its answer
LEMMA SettledOwnPublish ==
    ASSUME ConstantsAssumption, Types, Numbered, Numbered', NEW a \in Agent, PublishStream(a),
           NEW t \in TurnId, t = turn[a].id, Settled(t)
    PROVE  Settled(t)'
<1> DEFINE e == Head(turn[a].queue)
<1>1. /\ e \in EventOf(turns) /\ turn[a].stage # "idle"
      /\ stream \in Seq(EventOf(turns)) /\ stream' = Append(stream, e)
      /\ turn'[a].stage = turn[a].stage /\ turn'[a].chat = turn[a].chat
      /\ turn'[a].id = t /\ \A b \in Agent \ {a} : turn'[b] = turn[b]
      /\ UNCHANGED <<answer, states, shown, finished, faults>>
  BY PublishStep DEF chatVars
<1>2. /\ turn[a].queue # <<>> /\ turn'[a].queue = Tail(turn[a].queue)
      /\ turn[a].queue \in Seq(EventOf(turns))
  BY Turn DEF PublishStream, Types, Running, TurnOf
<1>3. ASSUME NEW c \in Agent, Active(c)', turn'[c].id = t PROVE c = a
  <2>1. Active(a) /\ Active(c) /\ turn[c].id = turn[a].id
    BY <1>1, <1>3 DEF Active
  <2>2. QED
    BY <2>1 DEF Numbered, RunningOnce
<1>4. CASE Before(t)
  <2>1. turn[a].stage = "iterate"
    BY <1>1, <1>4 DEF Before, Active
  <2>2. Unended(t)'
    BY <1>1, <2>1 DEF Numbered, Iterating
  <2>3. QED
    BY <1>1, <1>3, <2>1, <2>2 DEF Settled, Before
<1>5. CASE answer[t] \in {Default, Failure, <<>>}
  BY <1>1, <1>5 DEF Settled, Default, Failure
<1>6. CASE Accounted(t)
  <2>1. PICK w \in Talk, h \in Nat, b \in Nat :
          /\ w.turn = t /\ answer[t] = Chunks(t, w.part, Solid(w))
          /\ h <= b /\ b <= Last(w) /\ Underway(w, h, b)
    BY <1>6 DEF Accounted
  <2>2. Last(w) \in Nat
    BY TalkFields
  <2>3. PICK pos : Leads(stream, w, h, b, pos)
    BY <2>1 DEF Underway
  <2> DEFINE q == turn[a].queue
             all == IF turn[a].stage = "finish" THEN Last(w) - 1 ELSE Last(w)
  <2>4. /\ turn[a].chat = w.chat /\ turn[a].stage \in {"finish", "reply"}
        /\ Len(q) = all - b /\ \A i \in 1 .. Len(q) : q[i] = Line(w, b + i)
    BY <1>1, <2>1 DEF Underway, ToPublish, Active
  <2>5. /\ Len(q) \in Nat /\ Len(q) > 0 /\ e = q[1] /\ Len(Tail(q)) = Len(q) - 1
        /\ \A i \in 1 .. Len(q) - 1 : Tail(q)[i] = q[i + 1]
    BY <1>2, WithoutHead
  <2> HIDE DEF q, e
  <2>6. b + 1 <= Last(w) /\ b + 1 \in Nat /\ h <= b + 1 /\ b # Last(w) /\ e = Line(w, b + 1)
    <3>1. all \in Int /\ all <= Last(w)
      BY <2>2
    <3> HIDE DEF all
    <3>2. all - b > 0
      BY <2>4, <2>5
    <3>3. b + 1 <= Last(w) /\ b + 1 \in Nat /\ h <= b + 1 /\ b # Last(w)
      BY <2>1, <2>2, <3>1, <3>2
    <3>4. 1 \in 1 .. Len(q)
      BY <2>5
    <3>5. e = Line(w, b + 1)
      BY <2>4, <2>5, <3>4
    <3>6. QED
      BY <3>3, <3>5
  <2>7. \E r : Leads(stream', w, h, b + 1, r)
    <3>1. Line(w, b + 1) \in EventOf(turns) /\ stream' = Append(stream, Line(w, b + 1))
      BY <1>1, <2>6
    <3>2. \E r : Leads(Append(stream, Line(w, b + 1)), w, h, b + 1, r)
      BY <1>1, <2>1, <2>3, <2>6, <3>1, LeadsPublished
    <3>3. QED
      BY <3>1, <3>2
  <2>8. ToPublish(w, b + 1)'
    <3>1. Active(a)' /\ turn'[a].id = w.turn
      BY <1>1, <2>1 DEF Active
    <3>2. Len(turn'[a].queue) = all - (b + 1)
      BY <1>2, <2>2, <2>4, <2>5 DEF q
    <3>3. \A i \in 1 .. Len(turn'[a].queue) : turn'[a].queue[i] = Line(w, (b + 1) + i)
      <4> SUFFICES ASSUME NEW i \in 1 .. Len(q) - 1
                   PROVE  Tail(q)[i] = Line(w, (b + 1) + i)
        BY <1>2, <2>5 DEF q
      <4>1. i + 1 \in 1 .. Len(q) /\ b + (i + 1) = (b + 1) + i
        BY <2>5
      <4>2. QED
        BY <2>4, <2>5, <4>1
    <3>4. /\ turn'[a].chat = w.chat /\ turn'[a].stage \in {"finish", "reply"}
          /\ all = (IF turn'[a].stage = "finish" THEN Last(w) - 1 ELSE Last(w))
      BY <1>1, <2>4
    <3> HIDE DEF all
    <3>5. QED
      BY <1>3, <2>1, <3>1, <3>2, <3>3, <3>4 DEF ToPublish
  <2>9. Received(w, h)'
    BY <1>1, <2>1, ReceivedKept DEF Underway
  <2>10. Underway(w, h, b + 1)'
    BY <2>7, <2>8, <2>9 DEF Underway
  <2>11. answer'[t] = Chunks(t, w.part, Solid(w))
    BY <1>1, <2>1
  <2>12. QED
    BY <2>1, <2>6, <2>10, <2>11 DEF Settled, Accounted
<1>7. QED
  BY <1>4, <1>5, <1>6 DEF Settled

LEMMA SettledPublish ==
    ASSUME ConstantsAssumption, Types, Disjoint, Numbered, Delivered, NEW a \in Agent,
           PublishStream(a)
    PROVE  Delivered'
<1>1. Numbered'
  BY NumberedPublish
<1>2. \A t \in TurnId : Settled(t)
  BY DEF Delivered
<1>3. QED
  BY <1>1, <1>2, SettledOtherPublish, SettledOwnPublish DEF Delivered

-----------------------------------------------------------------------------
\* What the stream goroutine makes of the events of an answer

LEMMA LineFields ==
    ASSUME NEW w \in Talk, NEW k \in 1 .. Last(w)
    PROVE  /\ Line(w, k).chat = w.chat /\ Line(w, k).turn = w.turn
           /\ k = 1 => Line(w, k).type = "start-step"
           /\ k = 2 => Line(w, k).type = "text-start"
           /\ k \in 3 .. w.chunks + 2 => Line(w, k).type = "text-delta"
           /\ k = w.chunks + 3 => Line(w, k).type = "text-end"
           /\ k = w.chunks + 4 => Line(w, k).type = "finish-step"
           /\ k = w.chunks + 5 => Line(w, k).type = "finish"
           /\ k \in 2 .. w.chunks + 3 => Line(w, k).part = w.part
           /\ k = w.chunks + 3 => Line(w, k).blanks = w.blanks
<1>1. w.chunks \in Nat /\ w.chunks # 0 /\ k \in Nat
  BY TalkFields
<1>2. /\ Line(w, k).chat = w.chat /\ Line(w, k).turn = w.turn
      /\ k \in 2 .. w.chunks + 3 => Line(w, k).part = w.part
      /\ k = w.chunks + 3 => Line(w, k).blanks = w.blanks
  BY DEF Line
<1>3. Line(w, k).type = (IF k = 1 THEN "start-step"
              ELSE IF k = 2 THEN "text-start"
              ELSE IF k <= w.chunks + 2 THEN "text-delta"
              ELSE IF k = w.chunks + 3 THEN "text-end"
              ELSE IF k = w.chunks + 4 THEN "finish-step"
              ELSE "finish")
  BY DEF Line
<1>4. QED
  BY <1>1, <1>2, <1>3

LEMMA LineEnds ==
    ASSUME NEW w \in Talk, NEW k \in 1 .. Last(w), Line(w, k).type \in Terminals
    PROVE  k = Last(w)
<1>1. w.chunks \in Nat /\ w.chunks # 0 /\ Last(w) = w.chunks + 5
  BY TalkFields
<1>2. \/ k = 1 \/ k = 2 \/ k \in 3 .. w.chunks + 2
      \/ k = w.chunks + 3 \/ k = w.chunks + 4 \/ k = Last(w)
  BY <1>1
<1>3. QED
  BY <1>1, <1>2, LineFields DEF Terminals

LEMMA FinishedTake ==
    ASSUME ConstantsAssumption, Types, HandleStream
    PROVE  \/ finished' = finished
           \/ /\ finished' = finished \cup {Head(stream).turn}
              /\ Head(stream).type \in Terminals /\ Head(stream).chat \in Chat
<1>1. CASE Head(stream).chat \notin Chat
  BY <1>1, Taken DEF chatVars
<1>2. CASE Head(stream).chat \in Chat
  <2> DEFINE e == Head(stream)
             s == StateGiven(e.chat)
  <2>1. Given(e, s) /\ Handle(e, s) /\ Counted /\ Display /\ e.chat \in Chat
    BY <1>2, Taken DEF Types
  <2> HIDE DEF e, s
  <2>2. finished' = finished \/ (finished' = finished \cup {e.turn} /\ e.type \in Terminals)
    BY <2>1, Evolution, Ending
  <2>3. QED
    BY <2>1, <2>2 DEF e
<1>3. QED
  BY <1>1, <1>2

\* An edit that was refused stays counted
LEMMA FaultsGrow ==
    ASSUME ConstantsAssumption, Types, HandleStream
    PROVE  faults > 0 => faults' > 0
<1>1. faults \in Int
  BY DEF Types, Display
<1>2. faults' = faults \/ faults' = faults + 1
  BY DEF HandleStream, Handle, OnStartStep, OnTextStart, OnTextDelta, OnTextEnd, OnToolInputStart,
         OnTool, OnFinish, OnError, Keep, Update, Done, chatVars
<1>3. QED
  BY <1>1, <1>2

\* Handling an event changes no message but that of the chat's state, and at most adds one,
\* which no state had
LEMMA TakenBeside ==
    ASSUME ConstantsAssumption, Types, Drawn, HandleStream
    PROVE  /\ DOMAIN shown \subseteq DOMAIN shown'
           /\ \A d \in Chat : d # Head(stream).chat => states'[d] = states[d]
           /\ \A m \in DOMAIN shown :
                (\A d \in Chat : d = Head(stream).chat /\ states[d] # None => states[d].message # m)
                  => /\ shown'[m] = shown[m]
                     /\ \A d \in Chat : d = Head(stream).chat /\ states'[d] # None
                                          => states'[d].message # m
<1>1. DOMAIN shown = 1 .. Len(shown) /\ Len(shown) \in Nat
  BY LenProperties DEF Types, Display
<1>2. CASE Head(stream).chat \notin Chat
  BY <1>2, Taken DEF chatVars
<1>3. CASE Head(stream).chat \in Chat
  <2> DEFINE e == Head(stream)
             s == StateGiven(e.chat)
  <2>1. /\ Given(e, s) /\ Handle(e, s) /\ Counted /\ Display /\ e.chat \in Chat
        /\ InProgress(s, shown)
    BY <1>3, Taken, NoneInNewState DEF Types
  <2>2. s.message = 0 \/ (states[e.chat] # None /\ s = states[e.chat])
    BY NoneInNewState DEF StateGiven
  <2> HIDE DEF e, s
  <2>3. /\ Beside(shown, shown', s.message)
        /\ states'[e.chat] # None =>
             \/ states'[e.chat].message = s.message
             \/ states'[e.chat].message = Len(shown') /\ Len(shown') = Len(shown) + 1
    BY <2>1, HandledMessages
  <2>4. \A d \in Chat : d # e.chat => states'[d] = states[d]
    BY <2>1, OthersKept
  <2>5. DOMAIN shown \subseteq DOMAIN shown'
    <3>1. DOMAIN shown' = 1 .. Len(shown') /\ Len(shown') \in {Len(shown), Len(shown) + 1}
      BY <2>3 DEF Beside
    <3>2. CASE Len(shown') = Len(shown)
      BY <1>1, <3>1, <3>2
    <3>3. CASE Len(shown') = Len(shown) + 1
      <4>1. \A n \in Nat : 1 .. n \subseteq 1 .. n + 1
        OBVIOUS
      <4>2. QED
        BY <1>1, <3>1, <3>3, <4>1
    <3>4. QED
      BY <3>1, <3>2, <3>3
  <2>6. ASSUME NEW m \in DOMAIN shown,
               \A d \in Chat : d = e.chat /\ states[d] # None => states[d].message # m
        PROVE  /\ shown'[m] = shown[m]
               /\ \A d \in Chat : d = e.chat /\ states'[d] # None => states'[d].message # m
    <3>1. m # s.message /\ m \in 1 .. Len(shown)
      BY <1>1, <2>1, <2>2, <2>6
    <3>2. shown'[m] = shown[m]
      BY <2>3, <3>1 DEF Beside
    <3>3. states'[e.chat] # None => states'[e.chat].message # m
      BY <1>1, <2>3, <3>1
    <3>4. QED
      BY <3>2, <3>3
  <2>7. QED
    BY <2>4, <2>5, <2>6 DEF e
<1>4. QED
  BY <1>2, <1>3

\* An event that is not of the answer
LEMMA ReceivedBeside ==
    ASSUME ConstantsAssumption, Types, Drawn, HandleStream, NEW w \in Talk, NEW h \in Nat,
           Received(w, h), Head(stream).chat = w.chat => h = 0 \/ h = Last(w),
           Head(stream).turn = w.turn => Head(stream).type \notin Terminals
    PROVE  Received(w, h)'
<1>1. /\ Last(w) = w.chunks + 5 /\ w.chunks \in Nat /\ w.chunks # 0
      /\ DOMAIN shown = 1 .. Len(shown) /\ Len(shown) \in Nat
  BY TalkFields, LenProperties DEF Types, Display
<1>2. w.turn \in finished' => w.turn \in finished
  BY FinishedTake
<1>3. ASSUME w.chat \in Chat PROVE InState(w, h)'
  <2>1. CASE h = 0 \/ h = Last(w)
    <3>1. h \notin 2 .. w.chunks + 2 /\ h \notin w.chunks + 3 .. w.chunks + 4
      BY <1>1, <2>1
    <3>2. QED
      BY <3>1 DEF InState
  <2>2. CASE Head(stream).chat # w.chat
    <3> DEFINE s == states[w.chat]
    <3>1. states'[w.chat] = s /\ InState(w, h)
      BY <1>3, <2>2, TakenBeside DEF Received
    <3>2. \A n : Written(s, w.part, n) => s # None /\ Written(states'[w.chat], w.part, n)
      BY <3>1 DEF Written
    <3>3. s # None /\ s.message # 0 => s.message \in DOMAIN shown
      BY <1>1, <1>3, Fields DEF Types, Display
    <3>4. s # None /\ s.message # 0 => shown'[s.message] = shown[s.message]
      <4> SUFFICES ASSUME s # None, s.message # 0 PROVE shown'[s.message] = shown[s.message]
        OBVIOUS
      <4>1. \A d \in Chat : d = Head(stream).chat /\ states[d] # None => states[d].message # s.message
        BY <1>3, <2>2 DEF Drawn
      <4>2. QED
        BY <3>3, <4>1, TakenBeside
    <3>5. s # None /\ s.message # 0 /\ Displayed(s.message, w) => Displayed(states[w.chat].message, w)'
      BY <3>1, <3>4 DEF Displayed
    <3>6. h \in 2 .. w.chunks + 2 => Written(states'[w.chat], w.part, h - 2)
      BY <3>1, <3>2 DEF InState
    <3>7. h \in w.chunks + 3 .. w.chunks + 4 =>
            /\ Written(states'[w.chat], w.part, Solid(w)) /\ states'[w.chat].current = None
            /\ states'[w.chat].message # 0 /\ Displayed(states[w.chat].message, w)'
      BY <3>1, <3>2, <3>5 DEF InState
    <3> HIDE DEF s
    <3>8. QED
      BY <3>6, <3>7 DEF InState, Written, Displayed
  <2>3. QED
    BY <2>1, <2>2
<1>4. ASSUME Ended(w) PROVE Ended(w)'
  <2>1. PICK m \in DOMAIN shown :
          /\ Displayed(m, w) /\ Complete(shown[m].form, faults)
          /\ \A d \in Chat : states[d] # None => states[d].message # m
    BY <1>4 DEF Ended
  <2>2. /\ m \in DOMAIN shown' /\ shown'[m] = shown[m]
        /\ \A d \in Chat : states'[d] # None => states'[d].message # m
    BY <2>1, TakenBeside
  <2>3. QED
    BY <2>1, <2>2, FaultsGrow DEF Ended, Displayed, Complete
<1>5. QED
  BY <1>2, <1>3, <1>4 DEF Received

LEMMA NotNone ==
    ASSUME NEW m \in Nat, NEW s \in StateOf(m)
    PROVE  s # None
BY NoneAssumption DEF StateOf, StreamStates

LEMMA FinalTextsLong ==
    ASSUME NEW s, NEW part, NEW n \in Nat \ {0}, Written(s, part, n), s.current = None,
           s.parts \subseteq Parts
    PROVE  \A text \in FinalTexts(s) : text # <<>> /\ Len(text) >= n
<1>1. PICK p \in s.parts : p.id = part /\ p.kind = "text" /\ Len(p.text) >= n
  BY DEF Written
<1>2. p.text \in Texts(s)
  <2>1. p.text # <<>>
    <3>1. Len(<<>>) = 0
      OBVIOUS
    <3>2. QED
      BY <1>1, <3>1
  <2>2. QED
    BY <1>1, <2>1 DEF Texts
<1>3. FinalTexts(s) = {x \in Texts(s) : \A y \in Texts(s) : Len(x) >= Len(y)}
  BY <1>2 DEF FinalTexts
<1>4. ASSUME NEW text \in FinalTexts(s) PROVE text # <<>> /\ Len(text) >= n
  <2>1. text \in Texts(s) /\ Len(text) >= Len(p.text)
    BY <1>2, <1>3
  <2>2. Len(p.text) \in Nat /\ Len(text) \in Nat
    BY <1>1, <2>1, LenProperties DEF Texts, Parts, Text
  <2>3. QED
    BY <1>1, <2>1, <2>2 DEF Texts
<1>5. QED
  BY <1>4

\* The text grows by one chunk with every delta
LEMMA DeltaWritten ==
    ASSUME ConstantsAssumption, NEW m \in Nat, NEW s \in StateOf(m), NEW e,
           e.turn \in TurnId, e.part \in Nat, NEW n \in Nat, Written(s, e.part, n)
    PROVE  Written(AddDelta(s, e), e.part, n + 1)
<1>1. PICK p \in s.parts : p.id = e.part /\ p.kind = "text" /\ Len(p.text) >= n
  BY DEF Written
<1>2. /\ s.parts \subseteq Parts /\ \A x, y \in s.parts : x.id = y.id => x = y
      /\ MaxTurns \in Nat
  BY Fields, Constants
<1>3. Addressed(s, e) = p
  BY <1>1, <1>2 DEF Addressed
<1> DEFINE new == Longer(s, e)
<1>4. /\ AddDelta(s, e) \in StateOf(m)
      /\ AddDelta(s, e) = [s EXCEPT !.parts = (s.parts \ {p}) \cup {new},
                                    !.current = IF s.current = p THEN new ELSE s.current]
      /\ new.text = Append(p.text, <<e.turn, e.part>>)
  BY <1>1, <1>2, <1>3, DeltaAdded
<1>5. p \in Parts
  BY <1>1, <1>2
<1>6. new.id = p.id /\ new.kind = p.kind
  BY <1>3, <1>5 DEF Longer, Parts
<1>7. Len(new.text) >= n + 1
  <2>1. p.text \in Seq((0 .. MaxTurns) \X Nat) /\ <<e.turn, e.part>> \in (0 .. MaxTurns) \X Nat
    BY <1>2, <1>5 DEF Parts, Text, TurnId
  <2>2. Len(Append(p.text, <<e.turn, e.part>>)) = Len(p.text) + 1 /\ Len(p.text) \in Nat
    BY <2>1, Appended
  <2>3. QED
    BY <1>1, <1>4, <2>2
<1> HIDE DEF new
<1>8. new \in AddDelta(s, e).parts
  BY <1>4 DEF StateOf
<1>9. AddDelta(s, e) # None
  BY <1>4, NotNone
<1>10. QED
  BY <1>1, <1>6, <1>7, <1>8, <1>9 DEF Written

LEMMA StartHandled ==
    ASSUME ConstantsAssumption, Counted, Display, NEW e, NEW s, Given(e, s), OnTextStart(e, s)
    PROVE  Written(states'[e.chat], e.part, 0)
<1> DEFINE p == [id |-> e.part, turn |-> e.turn, kind |-> "text", text |-> <<>>]
           n == [AddPart(s, p) EXCEPT !.current = p]
<1>1. /\ e.turn \in TurnId /\ e.part \in Nat /\ e.chat \in Chat /\ DOMAIN states = Chat
      /\ s \in StateOf(Len(shown)) /\ Len(shown) \in Nat
  BY GivenFields DEF Given, Display
<1>2. p \in Parts /\ p.id = e.part /\ p.kind = "text" /\ Len(p.text) = 0
  <2>1. <<>> \in Text
    BY DEF Text
  <2>2. QED
    BY <1>1, <2>1 DEF Parts
<1>3. AddPart(s, p) \in StateOf(Len(shown)) /\ n \in StateOf(Len(shown))
  BY <1>1, <1>2, PartAdded, CurrentSet
<1>4. states'[e.chat] = n
  BY <1>1 DEF OnTextStart, Keep
<1>5. p \in n.parts
  <2>1. p \in AddPart(s, p).parts
    BY <1>1 DEF AddPart, StateOf
  <2>2. n.parts = AddPart(s, p).parts
    BY <1>3 DEF StateOf
  <2>3. QED
    BY <2>1, <2>2
<1> HIDE DEF n, p
<1>6. n # None
  BY <1>1, <1>3, NotNone
<1>7. QED
  BY <1>2, <1>4, <1>5, <1>6 DEF Written

LEMMA DeltaHandled ==
    ASSUME ConstantsAssumption, Counted, Display, NEW e, NEW s, Given(e, s), OnTextDelta(e, s),
           NEW n \in Nat, Written(s, e.part, n)
    PROVE  Written(states'[e.chat], e.part, n + 1)
<1>1. /\ e.turn \in TurnId /\ e.part \in Nat /\ e.chat \in Chat /\ DOMAIN states = Chat
      /\ s \in StateOf(Len(shown)) /\ Len(shown) \in Nat
  BY GivenFields DEF Given, Display
<1>2. Keep(e, AddDelta(s, e))
  BY DEF OnTextDelta, Written
<1>3. states'[e.chat] = AddDelta(s, e)
  BY <1>1, <1>2 DEF Keep
<1>4. QED
  BY <1>1, <1>3, DeltaWritten

\* What room there is for a text
LEMMA LongEnough ==
    ASSUME ConstantsAssumption, NEW text \in Text, NEW n \in Nat, Len(text) >= n
    PROVE  Cut(text, Limit) \in Text /\ Len(Cut(text, Limit)) >= Least(n, Limit)
<1>1. Limit \in Nat /\ Len(text) \in Nat
  BY Constants, LenProperties DEF Text
<1>2. Cut(text, Limit) \in Text /\ Len(Cut(text, Limit)) = Least(Limit, Len(text))
  BY <1>1, CutText
<1>3. QED
  BY <1>1, <1>2 DEF Least

LEMMA EndHandled ==
    ASSUME ConstantsAssumption, Counted, Display, NEW e, NEW s, Given(e, s), OnTextEnd(e, s),
           InProgress(s, shown), NEW n \in Nat \ {0}, Written(s, e.part, n + e.blanks)
    PROVE  LET new == states'[e.chat] IN
           /\ Written(new, e.part, n) /\ new.current = None /\ new.message # 0
           /\ Len(shown'[new.message].text) >= Least(n, Limit)
<1> DEFINE x == TextEnded(e, s)
<1>1. /\ e.chat \in Chat /\ DOMAIN states = Chat /\ e.blanks \in Nat
      /\ s \in StateOf(Len(shown)) /\ Len(shown) \in Nat
  BY GivenFields DEF Given, Display
<1>2. /\ x \in StateOf(Len(shown)) /\ x.parts = {Trim(p, e) : p \in s.parts} /\ x.current = None
      /\ x.message = s.message /\ x.tools = s.tools
  BY <1>1, PartsTrimmed
<1>3. Update(e, x)
  BY DEF OnTextEnd, TextEnded
<1> HIDE DEF x
<1>4. Given(e, x) /\ InProgress(x, shown)
  BY <1>2 DEF Given, InProgress, Form
<1>5. Written(x, e.part, n)
  <2>1. PICK p \in s.parts : p.id = e.part /\ p.kind = "text" /\ Len(p.text) >= n + e.blanks
    BY DEF Written
  <2>2. p \in Parts
    BY <1>1, <2>1, Fields
  <2>3. /\ Trim(p, e).id = p.id /\ Trim(p, e).kind = p.kind
        /\ Len(Trim(p, e).text) >= n
    <3>1. /\ Len(Trim(p, e).text) \in Nat /\ Len(p.text) \in Nat
          /\ Len(Trim(p, e).text) >= Len(p.text) - e.blanks
          /\ Trim(p, e).id = p.id /\ Trim(p, e).kind = p.kind
      BY <1>1, <2>2, Trimmed
    <3>2. QED
      BY <1>1, <2>1, <3>1
  <2>4. x # None
    BY <1>1, <1>2, NotNone
  <2>5. QED
    BY <1>2, <2>1, <2>3, <2>4 DEF Written
<1>6. PICK text \in FinalTexts(x), m \in 0 .. Len(shown') :
         /\ states' = [states EXCEPT ![e.chat] = [x EXCEPT !.message = m]]
         /\ text # <<>> => m # 0 /\ shown'[m].text = Cut(text, Limit)
  BY <1>3, <1>4, UpdateShows
<1>7. text # <<>> /\ Len(Cut(text, Limit)) >= Least(n, Limit)
  <2>1. x.parts \subseteq Parts
    BY <1>1, <1>2, Fields
  <2>2. text # <<>> /\ Len(text) >= n
    BY <1>2, <1>5, <1>6, <2>1, FinalTextsLong
  <2>3. text \in Text
    BY <1>1, <1>2, <1>6, FinalTextsTyped
  <2>4. QED
    BY <2>2, <2>3, LongEnough
<1> DEFINE new == [x EXCEPT !.message = m]
<1>8. states'[e.chat] = new
  BY <1>1, <1>6
<1>9. new.message = m /\ new.parts = x.parts /\ new.current = None
  BY <1>2 DEF StateOf
<1>10. new # None
  <2>1. new \in [parts : SUBSET Parts, current : Parts \cup {None},
                 step : BOOLEAN, tools : BOOLEAN, message : Nat]
    BY <1>2, <1>6 DEF StateOf
  <2>2. QED
    BY <2>1, NoneAssumption DEF StreamStates
<1> HIDE DEF new
<1>11. Written(new, e.part, n)
  BY <1>5, <1>9, <1>10 DEF Written
<1>12. QED
  BY <1>6, <1>7, <1>8, <1>9, <1>11

LEMMA FinishHandled ==
    ASSUME ConstantsAssumption, Counted, Display, NEW e, NEW s, Given(e, s), OnFinish(e, s),
           InProgress(s, shown), NEW n \in Nat \ {0}, NEW part, Written(s, part, n),
           s.current = None, s.message # 0, Len(shown[s.message].text) >= Least(n, Limit)
    PROVE  /\ s.message \in DOMAIN shown' /\ Complete(shown'[s.message].form, faults')
           /\ Len(shown'[s.message].text) >= Least(n, Limit)
           /\ shown'[s.message].turn = shown[s.message].turn
<1>1. /\ s \in StateOf(Len(shown)) /\ Len(shown) \in Nat /\ shown \in Seq(Message0)
      /\ DOMAIN shown = 1 .. Len(shown) /\ faults \in Nat
  BY GivenFields, LenProperties DEF Given, Display
<1>2. s.message \in DOMAIN shown /\ s.parts \subseteq Parts
  <2>1. s.message \in 0 .. Len(shown) /\ s.parts \subseteq Parts
    BY <1>1, Fields
  <2>2. QED
    BY <1>1, <2>1
<1>3. shown[s.message] \in Message0
  BY <1>1, <1>2, ElementOfSeq
<1>4. \/ shown' = shown /\ ~s.tools
      \/ shown' = shown /\ s.tools /\ faults' = faults + 1
      \/ \E text \in FinalTexts(s) :
           shown' = [shown EXCEPT ![s.message].text = Cut(text, Limit),
                                  ![s.message].form = "final"]
  BY DEF OnFinish
<1>5. CASE shown' = shown /\ (~s.tools \/ (s.tools /\ faults' = faults + 1))
  <2>1. shown[s.message].form = Form(s)
    BY DEF InProgress
  <2>2. Complete(shown'[s.message].form, faults')
    BY <1>1, <1>5, <2>1 DEF Complete, Form
  <2>3. QED
    BY <1>2, <1>5, <2>2
<1>6. ASSUME NEW text \in FinalTexts(s),
             shown' = [shown EXCEPT ![s.message].text = Cut(text, Limit),
                                    ![s.message].form = "final"]
      PROVE  /\ s.message \in DOMAIN shown' /\ shown'[s.message].form = "final"
             /\ Len(shown'[s.message].text) >= Least(n, Limit)
             /\ shown'[s.message].turn = shown[s.message].turn
  <2>1. Len(Cut(text, Limit)) >= Least(n, Limit)
    <3>1. Len(text) >= n
      BY <1>2, FinalTextsLong
    <3>2. text \in Text
      BY <1>1, FinalTextsTyped
    <3>3. QED
      BY <3>1, <3>2, LongEnough
  <2> DEFINE m == s.message
             y == [shown[m] EXCEPT !.text = Cut(text, Limit), !.form = "final"]
  <2>2. y.text = Cut(text, Limit) /\ y.form = "final" /\ y.turn = shown[m].turn
    BY <1>3 DEF Message0
  <2>3. shown'[m] = y /\ DOMAIN shown' = DOMAIN shown
    BY <1>2, <1>6
  <2> HIDE DEF y, m
  <2>4. QED
    BY <1>2, <2>1, <2>2, <2>3 DEF m
<1>7. QED
  BY <1>4, <1>5, <1>6 DEF Complete

\* The next event of the answer
LEMMA ReceivedNext ==
    ASSUME ConstantsAssumption, Types, Separate, NoMixedText, Drawn, HandleStream,
           NEW w \in Talk, NEW h \in Nat, h < Last(w), Received(w, h),
           Head(stream) = Line(w, h + 1)
    PROVE  Received(w, h + 1)'
<1> DEFINE e == Head(stream)
           c == w.chat
           s == StateGiven(c)
           new == states'[c]
           n == w.chunks
           v == Solid(w)
<1>1. /\ Last(w) = n + 5 /\ Last(w) \in Nat /\ n \in Nat /\ n # 0 /\ h + 1 \in 1 .. Last(w)
      /\ w.turn \in TurnId /\ v \in Nat \ {0} /\ v + w.blanks = n
  BY TalkFields
<1>2. /\ e.chat = c /\ e.turn = w.turn
      /\ h + 1 = 1 => e.type = "start-step"
      /\ h + 1 = 2 => e.type = "text-start"
      /\ h + 1 \in 3 .. n + 2 => e.type = "text-delta"
      /\ h + 1 = n + 3 => e.type = "text-end"
      /\ h + 1 = n + 4 => e.type = "finish-step"
      /\ h + 1 = n + 5 => e.type = "finish"
      /\ h + 1 \in 2 .. n + 3 => e.part = w.part
      /\ h + 1 = n + 3 => e.blanks = w.blanks
  BY <1>1, LineFields
<1>3. w.turn \in finished' => h + 1 = Last(w) /\ c \in Chat
  <2>1. w.turn \notin finished
    BY <1>1 DEF Received
  <2>2. e.type \in Terminals => h + 1 = Last(w)
    BY <1>1, LineEnds
  <2>3. QED
    BY <1>2, <2>1, <2>2, FinishedTake
<1>4. ASSUME c \in Chat
      PROVE  InState(w, h + 1)' /\ (h + 1 = Last(w) => Ended(w)')
  <2>1. /\ Given(e, s) /\ Handle(e, s) /\ Counted /\ Display /\ InProgress(s, shown)
        /\ s \in StateOf(Len(shown)) /\ DOMAIN states = Chat
        /\ s = IF states[c] = None THEN NewState ELSE states[c]
    BY <1>2, <1>4, Taken, NoneInNewState DEF Types, Given, Display, StateGiven
  <2>2. /\ InState(w, h)
        /\ new # None => From(new, w.turn, shown')
    BY <1>2, <1>4, HandledFrom DEF Received, Separate
  <2>3. \A k : Written(states[c], w.part, k) => s = states[c] /\ Written(s, w.part, k)
    BY <2>1 DEF Written
  <2> HIDE DEF e, s
  <2>4. CASE h + 1 = 1
    <3>1. 1 \notin 2 .. n + 2 /\ 1 \notin n + 3 .. n + 4 /\ 1 # Last(w)
      BY <1>1
    <3>2. QED
      BY <2>4, <3>1 DEF InState
  <2>5. ASSUME h + 1 \in 2 .. n + 2, Written(new, w.part, h + 1 - 2)
        PROVE  InState(w, h + 1)' /\ (h + 1 = Last(w) => Ended(w)')
    <3>1. h + 1 \notin n + 3 .. n + 4 /\ h + 1 # Last(w)
      BY <1>1, <2>5
    <3>2. InState(w, h + 1)'
      BY <2>5, <3>1 DEF InState, Written
    <3>3. QED
      BY <3>1, <3>2
  <2>6. ASSUME h + 1 \in n + 3 .. n + 4, Written(new, w.part, v), new.current = None,
               new.message # 0, Displayed(states[c].message, w)'
        PROVE  InState(w, h + 1)' /\ (h + 1 = Last(w) => Ended(w)')
    <3>1. h + 1 \notin 2 .. n + 2 /\ h + 1 # Last(w)
      BY <1>1, <2>6
    <3>2. InState(w, h + 1)'
      BY <2>6, <3>1 DEF InState, Written, Displayed
    <3>3. QED
      BY <3>1, <3>2
  <2>7. CASE h + 1 = 2
    <3>1. OnTextStart(e, s)
      BY <1>2, <2>1, <2>7 DEF Handle
    <3>2. Written(states'[e.chat], e.part, 0)
      BY <2>1, <3>1, StartHandled
    <3>3. h + 1 \in 2 .. n + 2 /\ h + 1 \in 2 .. n + 3 /\ h + 1 - 2 = 0
      BY <1>1, <2>7
    <3>4. QED
      BY <1>2, <2>5, <3>2, <3>3
  <2>8. CASE h + 1 \in 3 .. n + 2
    <3>1. OnTextDelta(e, s)
      BY <1>2, <2>1, <2>8 DEF Handle
    <3>2. /\ h \in 2 .. n + 2 /\ h - 2 \in Nat /\ (h - 2) + 1 = h + 1 - 2
          /\ h + 1 \in 2 .. n + 2 /\ h + 1 \in 2 .. n + 3
      BY <1>1, <2>8
    <3>3. Written(s, e.part, h - 2)
      BY <1>2, <2>2, <2>3, <3>2 DEF InState
    <3>4. Written(states'[e.chat], e.part, (h - 2) + 1)
      BY <2>1, <3>1, <3>2, <3>3, DeltaHandled
    <3>5. QED
      BY <1>2, <2>5, <3>2, <3>4
  <2>9. CASE h + 1 = n + 3
    <3>1. OnTextEnd(e, s)
      BY <1>1, <1>2, <2>1, <2>9 DEF Handle
    <3>2. /\ h \in 2 .. n + 2 /\ h - 2 = n /\ n \in Nat \ {0}
          /\ h + 1 \in n + 3 .. n + 4 /\ h + 1 \in 2 .. n + 3
      BY <1>1, <2>9
    <3>3. Written(s, e.part, v + e.blanks)
      <4>1. Written(s, e.part, n)
        BY <1>2, <2>2, <2>3, <3>2 DEF InState
      <4>2. v + e.blanks = n
        BY <1>1, <1>2, <2>9
      <4>3. QED
        BY <4>1, <4>2
    <3> HIDE DEF n, v
    <3>4. /\ Written(new, e.part, v) /\ new.current = None /\ new.message # 0
          /\ Len(shown'[new.message].text) >= Least(v, Limit)
      BY <1>1, <1>2, <2>1, <3>1, <3>3, EndHandled
    <3>5. new # None
      BY <3>4 DEF Written
    <3>6. shown'[new.message].turn = w.turn
      BY <2>2, <3>4, <3>5 DEF From
    <3>7. Displayed(states[c].message, w)'
      BY <3>4, <3>6 DEF Displayed, v
    <3>8. QED
      BY <1>2, <2>6, <3>2, <3>4, <3>7
  <2>10. ASSUME h \in n + 3 .. n + 4
         PROVE  /\ s = states[c] /\ Written(s, w.part, v) /\ s.current = None /\ s.message # 0
                /\ Displayed(s.message, w)
    BY <2>2, <2>3, <2>10 DEF InState
  <2>11. CASE h + 1 = n + 4
    <3>1. Keep(e, s)
      BY <1>1, <1>2, <2>1, <2>11 DEF Handle
    <3>2. new = s /\ shown' = shown
      BY <1>2, <1>4, <2>1, <3>1 DEF Keep
    <3>3. h \in n + 3 .. n + 4 /\ h + 1 \in n + 3 .. n + 4
      BY <1>1, <2>11
    <3>4. Displayed(states[c].message, w)'
      BY <2>10, <3>2, <3>3 DEF Displayed
    <3>5. QED
      BY <2>6, <2>10, <3>2, <3>3, <3>4
  <2>12. CASE h + 1 = n + 5
    <3>1. OnFinish(e, s) /\ e.type \in Terminals
      BY <1>1, <1>2, <2>1, <2>12 DEF Handle, Terminals
    <3>2. /\ h \in n + 3 .. n + 4 /\ v \in Nat \ {0}
          /\ h + 1 \notin 2 .. n + 2 /\ h + 1 \notin n + 3 .. n + 4
      BY <1>1, <2>12
    <3>3. /\ s = states[c] /\ s # None /\ Written(s, w.part, v) /\ s.current = None
          /\ s.message # 0 /\ shown[s.message].turn = w.turn
          /\ Len(shown[s.message].text) >= Least(v, Limit)
      BY <2>10, <3>2 DEF Displayed, Written
    <3> DEFINE m == s.message
    <3>4. /\ m \in DOMAIN shown' /\ Complete(shown'[m].form, faults')
          /\ Len(shown'[m].text) >= Least(v, Limit) /\ shown'[m].turn = shown[m].turn
      <4> HIDE DEF v
      <4>1. QED
        BY <2>1, <3>1, <3>2, <3>3, FinishHandled
    <3>5. \A d \in Chat : states'[d] # None => states'[d].message # m
      <4>1. states'[c] = None /\ \A d \in Chat \ {c} : states'[d] = states[d]
        BY <1>2, <2>1, <3>1, OthersKept
      <4>2. \A d \in Chat \ {c} : states[d] # None => states[d].message # m
        BY <1>4, <3>3 DEF Drawn
      <4>3. QED
        BY <4>1, <4>2
    <3>6. Ended(w)'
      <4>1. PICK k \in DOMAIN shown' :
              /\ Complete(shown'[k].form, faults')
              /\ Len(shown'[k].text) >= Least(v, Limit) /\ shown'[k].turn = w.turn
              /\ \A d \in Chat : states'[d] # None => states'[d].message # k
        BY <3>3, <3>4, <3>5
      <4>2. QED
        BY <4>1 DEF Ended, Displayed
    <3>7. InState(w, h + 1)'
      BY <3>2 DEF InState
    <3>8. QED
      BY <3>6, <3>7
  <2>13. \/ h + 1 = 1 \/ h + 1 = 2 \/ h + 1 \in 3 .. n + 2
         \/ h + 1 = n + 3 \/ h + 1 = n + 4 \/ h + 1 = n + 5
    BY <1>1
  <2>14. QED
    BY <2>4, <2>7, <2>8, <2>9, <2>11, <2>12, <2>13
<1>5. QED
  BY <1>3, <1>4 DEF Received, Last

LEMMA SettledTake ==
    ASSUME ConstantsAssumption, Types, Separate, NoMixedText, Drawn, Delivered, HandleStream
    PROVE  Delivered'
<1> SUFFICES ASSUME NEW t \in TurnId PROVE Settled(t)'
  BY DEF Delivered
<1>1. /\ stream \in Seq(EventOf(turns)) /\ stream # <<>> /\ stream' = Tail(stream)
      /\ UNCHANGED <<turn, answer>> /\ Head(stream) = stream[1]
      /\ 1 \in DOMAIN stream /\ DOMAIN stream' = 1 .. Len(stream) - 1
      /\ \A i \in DOMAIN stream' : stream'[i] = stream[i + 1] /\ i + 1 \in DOMAIN stream
  BY Taken, TakenIndex
<1>2. Settled(t)
  BY DEF Delivered
<1>3. CASE Before(t)
  <2>1. Unended(t)'
    <3>1. Head(stream).type \in Terminals => Head(stream).turn # t
      BY <1>1, <1>3 DEF Before, Unended
    <3>2. t \notin finished'
      BY <1>3, <3>1, FinishedTake DEF Before, Unended
    <3>3. QED
      BY <1>1, <1>3, <3>2 DEF Before, Unended
  <2>2. Before(t)'
    BY <1>1, <1>3, <2>1 DEF Before, Active
  <2>3. QED
    BY <2>2 DEF Settled
<1>4. CASE answer[t] \in {Default, Failure, <<>>}
  BY <1>1, <1>4 DEF Settled, Default, Failure
<1>5. CASE Accounted(t)
  <2>1. PICK w \in Talk, h \in Nat, b \in Nat :
          /\ w.turn = t /\ answer[t] = Chunks(t, w.part, Solid(w))
          /\ h <= b /\ b <= Last(w) /\ Underway(w, h, b)
    BY <1>5 DEF Accounted
  <2>2. Last(w) \in Nat
    BY TalkFields
  <2>3. PICK pos : Leads(stream, w, h, b, pos)
    BY <2>1 DEF Underway
  <2>4. ToPublish(w, b)'
    BY <1>1, <2>1, ToPublishKept DEF Underway
  <2>5. answer'[t] = Chunks(t, w.part, Solid(w))
    BY <1>1, <2>1
  <2>6. \/ /\ h < b /\ stream[1] = Line(w, h + 1)
           /\ \E r : Leads(Tail(stream), w, h + 1, b, r)
        \/ /\ \E r : Leads(Tail(stream), w, h, b, r)
           /\ stream[1].chat = w.chat => h = 0 \/ h = Last(w)
           /\ stream[1].turn = w.turn => stream[1].type \notin Terminals
    BY <1>1, <2>1, <2>3, LeadsHead
  <2>7. CASE h < b /\ stream[1] = Line(w, h + 1) /\ \E r : Leads(Tail(stream), w, h + 1, b, r)
    <3>1. h < Last(w) /\ h + 1 \in Nat /\ h + 1 <= b
      BY <2>1, <2>2, <2>7
    <3>2. Received(w, h + 1)'
      BY <1>1, <2>1, <2>7, <3>1, ReceivedNext DEF Underway
    <3>3. Underway(w, h + 1, b)'
      BY <1>1, <2>4, <2>7, <3>2 DEF Underway
    <3>4. QED
      BY <2>1, <2>5, <3>1, <3>3 DEF Settled, Accounted
  <2>8. CASE /\ \E r : Leads(Tail(stream), w, h, b, r)
             /\ stream[1].chat = w.chat => h = 0 \/ h = Last(w)
             /\ stream[1].turn = w.turn => stream[1].type \notin Terminals
    <3>1. Received(w, h)'
      BY <1>1, <2>1, <2>8, ReceivedBeside DEF Underway
    <3>2. Underway(w, h, b)'
      BY <1>1, <2>4, <2>8, <3>1 DEF Underway
    <3>3. QED
      BY <2>1, <2>5, <3>2 DEF Settled, Accounted
  <2>9. QED
    BY <2>6, <2>7, <2>8
<1>6. QED
  BY <1>2, <1>3, <1>4, <1>5 DEF Settled

LEMMA DeliveredGoesOn ==
    ASSUME Types, Delivered, UNCHANGED <<stream, turn, answer, finished, faults, shown>>,
           \A d \in Chat : states'[d] = states[d] \/ (states[d] = None /\ states'[d] = NewState)
    PROVE  Delivered'
<1>1. \A t \in TurnId : Settled(t)
  BY DEF Delivered
<1>2. \A a \in Agent : turn'[a] = turn[a]
  OBVIOUS
<1>3. ASSUME NEW t \in TurnId PROVE Settled(t)'
  BY <1>1, <1>2, SettledKept
<1>4. QED
  BY <1>3 DEF Delivered

LEMMA DeliveredInit ==
    ASSUME Init
    PROVE  Drawn /\ Delivered
<1>1. Drawn
  BY DEF Init, Drawn
<1>2. DOMAIN stream = {} /\ finished = {} /\ \A a \in Agent : ~Active(a)
  BY DEF Init, Active, Idle
<1>3. Delivered
  BY <1>2 DEF Delivered, Settled, Before, Unended
<1>4. QED
  BY <1>1, <1>3

LEMMA DeliveredNext ==
    ASSUME ConstantsAssumption, Types, Disjoint, Separate, NoMixedText, Numbered, Drawn, Delivered,
           [Next]_vars
    PROVE  Delivered'
<1>1. CASE UNCHANGED <<stream, turn, answer, finished, faults, shown, states>>
  BY <1>1, DeliveredGoesOn
<1>2. ASSUME NEW c \in UserChats, HandleMessage(c) PROVE Delivered'
  <2>1. \A d \in Chat : states'[d] = states[d] \/ (states[d] = None /\ states'[d] = NewState)
    BY <1>2 DEF HandleMessage, Types, Display
  <2>2. UNCHANGED <<stream, turn, answer, finished, faults, shown>>
    BY <1>2 DEF HandleMessage
  <2>3. QED
    BY <2>1, <2>2, DeliveredGoesOn
<1>3. CASE ConsumeInbound
  <2> DEFINE m == Head(inbound)
  <2>1. /\ Begin("loop", m.id, m.chat) /\ inbound # <<>> /\ ~Active("loop")
        /\ UNCHANGED <<stream, finished, faults, states, shown, answer>>
        /\ inbound \in Seq(Arrived(turns)) /\ "loop" \in Agent
    BY <1>3 DEF ConsumeInbound, chatVars, Types, Waiting, Agent, Active
  <2>2. m = inbound[1] /\ 1 \in DOMAIN inbound /\ m \in Arrived(turns)
    BY <2>1, WithoutHead
  <2> HIDE DEF m
  <2>3. Unused(m.id)
    BY <2>2 DEF Numbered, WaitingOnce
  <2>4. PICK t \in TurnId : t = m.id
    BY <2>2, Constants DEF Arrived, TurnId, Types, Counted
  <2>5. PICK c : c = m.chat
    OBVIOUS
  <2>6. QED
    BY <2>1, <2>3, <2>4, <2>5, SettledBegin
<1>4. ASSUME NEW c \in DirectChats, ProcessDirect(c) PROVE Delivered'
  <2>1. /\ Begin("direct", turns + 1, c) /\ ~Active("direct") /\ "direct" \in Agent
        /\ UNCHANGED <<stream, finished, faults, states, shown, answer>> /\ turns < MaxTurns
    BY <1>4 DEF ProcessDirect, chatVars, Agent, Active
  <2>2. PICK t \in TurnId : t = turns + 1
    BY <2>1, Constants DEF TurnId, Types, Counted
  <2>3. Unused(t)
    BY <2>2, NewNumber
  <2>4. QED
    BY <2>1, <2>2, <2>3, SettledBegin
<1>5. ASSUME NEW a \in Agent, Run(a) PROVE Delivered'
  BY <1>5, SettledPublish, SettledTurn, SettledEnd DEF Run
<1>6. CASE HandleStream
  BY <1>6, SettledTake
<1>7. CASE Dispatch
  <2>1. \A t \in TurnId : Settled(t)
    BY DEF Delivered
  <2>2. /\ UNCHANGED <<stream, turn, states, answer, finished, faults>>
        /\ DOMAIN shown \subseteq DOMAIN shown' /\ \A m \in DOMAIN shown : shown'[m] = shown[m]
    BY <1>7, DrawnDispatch
  <2>3. /\ \A a \in Agent : turn'[a] = turn[a]
        /\ \A d \in Chat : states'[d] = states[d]
    BY <2>2
  <2>4. ASSUME NEW t \in TurnId PROVE Settled(t)'
    BY <2>1, <2>2, <2>3, SettledKept
  <2>5. QED
    BY <2>4 DEF Delivered
<1>8. CASE \/ UNCHANGED vars \/ (\E m \in arriving : PublishInbound(m))
           \/ (\E c \in DirectChats : Deliver(c))
  BY <1>1, <1>8 DEF vars, PublishInbound, Deliver, chatVars
<1>9. QED
  BY <1>2, <1>3, <1>4, <1>5, <1>6, <1>7, <1>8 DEF Next

LEMMA DeliveredShows ==
    ASSUME ConstantsAssumption, Types, Delivered
    PROVE  AnswerIsShown
<1> SUFFICES ASSUME NEW t \in finished, answer[t] \notin {Default, Failure, <<>>}
             PROVE  \E m \in DOMAIN shown :
                      /\ shown[m].turn = t /\ Complete(shown[m].form, faults)
                      /\ Len(shown[m].text) >= Least(Len(answer[t]), Limit)
  BY DEF AnswerIsShown, Complete
<1>1. t \in TurnId
  BY Constants DEF Types, Display, Counted, TurnId
<1>2. ~Before(t)
  BY DEF Before, Unended
<1>3. Accounted(t)
  BY <1>1, <1>2 DEF Delivered, Settled
<1>4. PICK w \in Talk, h \in Nat, b \in Nat :
        /\ w.turn = t /\ answer[t] = Chunks(t, w.part, Solid(w)) /\ Underway(w, h, b)
  BY <1>3 DEF Accounted
<1>5. Ended(w)
  BY <1>4 DEF Underway, Received
<1>6. PICK m \in DOMAIN shown :
        shown[m].turn = t /\ Len(shown[m].text) >= Least(Solid(w), Limit) /\ Complete(shown[m].form, faults)
  BY <1>4, <1>5 DEF Ended, Displayed
<1>7. Len(answer[t]) = Solid(w)
  <2>1. \A n \in Nat : Len(Chunks(t, w.part, n)) = n
    BY DEF Chunks
  <2>2. QED
    BY <1>4, <2>1, TalkFields
<1>8. QED
  BY <1>6, <1>7

\* Where jobs do not report to the chats users write in, a chat that has been given the finish
\* of a turn shows a text of it that is as long as its answer or fills the message, whatever was
\* trimmed or cut: no event is lost or overtaken between the goroutine that streams the turn and
\* the one that writes the messages.  A message may keep its list of tool calls only if Telegram
\* refused an edit.
THEOREM AnswersAreShown ==
    ASSUME UserChats \cap DirectChats = {}
    PROVE  Spec => []AnswerIsShown
<1> DEFINE Inv == Types /\ Closed /\ Separate /\ NoMixedText /\ Numbered /\ Drawn /\ Delivered
<1>1. Disjoint
  BY DEF Disjoint
<1>2. Init => Inv
  BY TypesInit, ClosedInit, SeparateInit, NumberedInit, DeliveredInit, ConstantsAssumption
<1>3. Inv /\ [Next]_vars => Inv'
  BY <1>1, TypesNext, ClosedNext, SeparateNext, NumberedNext, DrawnNext, DeliveredNext,
     ConstantsAssumption
<1>4. Inv => AnswerIsShown
  BY DeliveredShows, ConstantsAssumption
<1> HIDE DEF Inv
<1>5. QED
  BY <1>2, <1>3, <1>4, PTL DEF Spec
=============================================================================
