--------------------------- MODULE AgentToolsProofs ---------------------------
(***************************************************************************)
(* Theorems about AgentTools: for any chats and any number of turns, calls *)
(* and subagents, a turn that none runs beside sends to the chat it came   *)
(* from, or that it was asked to send to, adds jobs for its own chat, and, *)
(* when it is one of the agent loop, leaves a message or an answer.        *)
(***************************************************************************)
EXTENDS AgentTools, SequenceTheorems, TLAPS

Field == {"channel", "id"}
WriteRecord == [tool : Tool, fields : SUBSET Field, reset : BOOLEAN]

TurnPc == {"idle", "think", "call", "sent", "wait", "reply"}
SubPc == {"off", "start", "think", "call", "sent"}

\* The records of turns and subagents when `n' turns have begun: one that runs has a number
TurnRecord(n) ==
    {t \in [pc : TurnPc, id : 0 .. n, addr : Address, writes : Writes,
            tool : Tool \cup {""}, calls : 0 .. MaxCalls] : t.pc # "idle" => t.id > 0}
SubRecord(n) ==
    {s \in [pc : SubPc, id : 0 .. n, addr : Address, writes : Writes,
            calls : 0 .. MaxSubCalls] : s.pc # "off" => s.id > 0}

Fields == context \in [Tool -> Address] /\ sentInRound \in [MessageTool -> BOOLEAN]
Turns(n) == turn \in [Runner -> TurnRecord(n)]
Subs(n) == sub \in [Runner -> [Sub -> SubRecord(n)]]
Begun == turns \in 0 .. MaxTurns /\ origin \in Seq(Chats) /\ Len(origin) = turns
Sent(n) ==
    /\ delivered \subseteq [turn : 1 .. n, by : MessageTool \cup {"answer"},
                            asked : Address, to : Address]
    /\ jobs \subseteq [turn : 1 .. n, to : Address]
    /\ disturbed \subseteq 1 .. n /\ ended \subseteq 1 .. n

Types == Fields /\ Turns(turns) /\ Subs(turns) /\ Begun /\ Sent(turns)

\* A write still to be made will set this field of the tool
ToBeSet(writes, tool, f) ==
    \E k \in DOMAIN writes : writes[k].tool = tool /\ f \in writes[k].fields

\* Each field of a tool, in `ctx', is that of this chat, or these writes will set it
Set(ctx, writes, tool, addr) ==
    \A f \in Field : ToBeSet(writes, tool, f) \/ ctx[tool][f] = addr[f]

\* The tools a turn has set, or is about to set
Uses(t) == {"message", "spawn"} \cup (IF t.pc = "call" THEN {t.tool} ELSE {})

\* No other turn runs, or has run, beside it
Lone(t) == t.id \notin disturbed

\* A turn writes before it calls, and not to the tool of the subagents, and knows its chat; if
\* it is `lone', the tools it uses have its chat, or are about to have it
TurnOk(t, lone, from, ctx) ==
    /\ t.pc \notin {"think", "call"} => t.writes = <<>>
    /\ t.pc = "call" => t.tool \in {"message", "spawn", "cron"}
    /\ \A k \in DOMAIN t.writes : t.writes[k].tool # "submessage"
    /\ t.pc # "idle" =>
         /\ t.addr = from[t.id]
         /\ lone => \A tool \in Uses(t) : Set(ctx, t.writes, tool, t.addr)

\* A subagent does not outlive its turn `t'; it writes, before it calls, to its own message tool
\* only; if its turn is `lone', it has its chat once it began, and its tool has the chat, or is
\* about to have it
SubOk(s, t, lone, ctx) ==
    /\ s.pc # "call" => s.writes = <<>>
    /\ \A k \in DOMAIN s.writes : s.writes[k].tool = "submessage"
    /\ s.pc # "off" => t.pc = "wait" /\ s.id = t.id
    /\ lone /\ s.pc \notin {"off", "start"} => s.addr = t.addr
    /\ lone /\ s.pc = "call" => Set(ctx, s.writes, "submessage", s.addr)

\* What holds of each turn and its subagents; two that run at a time are disturbed
Alone ==
    /\ \A q, r \in Runner :
         q # r /\ turn[q].pc # "idle" /\ turn[r].pc # "idle" => turn[r].id \in disturbed
    /\ \A r \in Runner : TurnOk(turn[r], Lone(turn[r]), origin, context)
    /\ \A r \in Runner, i \in Sub : SubOk(sub[r][i], turn[r], Lone(turn[r]), context)

\* The flag of the message tool is about to be reset
ToBeReset(writes) == \E k \in DOMAIN writes : writes[k].tool = "message" /\ writes[k].reset

Messaged(id, sent) == \E m \in sent : m.turn = id /\ m.by = "message"

\* While the turn runs, the flag of the message tool tells of a message of this turn, or is
\* about to be reset
FlagOk(t, flag, sent) ==
    /\ t.pc # "idle" /\ flag => ToBeReset(t.writes) \/ Messaged(t.id, sent)
    /\ t.pc = "sent" => Messaged(t.id, sent)

FlagIsOurs == Lone(turn["loop"]) => FlagOk(turn["loop"], sentInRound["message"], delivered)

-----------------------------------------------------------------------------
\* The writes a process holds are a sequence of records.
LEMMA WritesAreRecords == Writes = Seq(WriteRecord)
  BY DEF Writes, WriteRecord, Field

\* One write, two of them, and three.
LEMMA FewWrites ==
    ASSUME NEW a \in WriteRecord, NEW b \in WriteRecord, NEW c \in WriteRecord
    PROVE  /\ <<a>> \in Seq(WriteRecord) /\ DOMAIN <<a>> = {1} /\ <<a>>[1] = a
           /\ <<a, b>> \in Seq(WriteRecord) /\ DOMAIN <<a, b>> = {1, 2}
           /\ <<a, b>>[1] = a /\ <<a, b>>[2] = b
           /\ <<a, b>> \o <<c>> \in Seq(WriteRecord) /\ DOMAIN (<<a, b>> \o <<c>>) = {1, 2, 3}
           /\ (<<a, b>> \o <<c>>)[1] = a /\ (<<a, b>> \o <<c>>)[2] = b
           /\ (<<a, b>> \o <<c>>)[3] = c
<1> HIDE DEF WriteRecord
<1>1. /\ <<a>> \in Seq(WriteRecord) /\ Len(<<a>>) = 1 /\ <<a>>[1] = a
      /\ <<c>> \in Seq(WriteRecord) /\ Len(<<c>>) = 1 /\ <<c>>[1] = c
      /\ <<a, b>> \in Seq(WriteRecord) /\ Len(<<a, b>>) = 2
      /\ <<a, b>>[1] = a /\ <<a, b>>[2] = b
  OBVIOUS
<1> DEFINE ab == <<a, b>>
           all == ab \o <<c>>
<1>2. /\ all \in Seq(WriteRecord) /\ Len(all) = Len(ab) + Len(<<c>>)
      /\ \A i \in 1 .. Len(ab) + Len(<<c>>) :
           all[i] = IF i <= Len(ab) THEN ab[i] ELSE <<c>>[i - Len(ab)]
  BY <1>1, ConcatProperties
<1> HIDE DEF ab, all
<1>3. Len(ab) = 2 /\ ab[1] = a /\ ab[2] = b
  BY <1>1 DEF ab
<1>4. Len(all) = 3 /\ all[1] = a /\ all[2] = b /\ all[3] = c
  BY <1>1, <1>2, <1>3
<1>5. DOMAIN all = 1 .. 3 /\ DOMAIN ab = 1 .. 2 /\ DOMAIN <<a>> = 1 .. 1
  BY <1>1, <1>2, <1>4, LenProperties DEF ab
<1>6. 1 .. 3 = {1, 2, 3} /\ 1 .. 2 = {1, 2} /\ 1 .. 1 = {1}
  OBVIOUS
<1>7. QED  BY <1>1, <1>2, <1>4, <1>5, <1>6 DEF ab, all

\* The writes of SetContext are of its tool; they set both fields, and reset a message tool.
LEMMA SetContextSets ==
    ASSUME NEW tool \in Tool
    PROVE  /\ SetContext(tool) \in Seq(WriteRecord)
           /\ \A k \in DOMAIN SetContext(tool) : SetContext(tool)[k].tool = tool
           /\ \A f \in Field : ToBeSet(SetContext(tool), tool, f)
           /\ tool = "message" => ToBeReset(SetContext(tool))
<1> DEFINE both == Put("cron", Field, FALSE)
           first == Put(tool, {"channel"}, FALSE)
           second == Put(tool, {"id"}, FALSE)
           third == Put(tool, {}, TRUE)
<1>1. both \in WriteRecord /\ first \in WriteRecord /\ second \in WriteRecord
        /\ third \in WriteRecord
  BY DEF Put, WriteRecord, Field, Tool, MessageTool
<1>2. /\ both.tool = "cron" /\ both.fields = Field
      /\ first.tool = tool /\ second.tool = tool /\ third.tool = tool
      /\ first.fields = {"channel"} /\ second.fields = {"id"} /\ third.reset = TRUE
  BY DEF Put
<1>3. /\ tool = "cron" => SetContext(tool) = <<both>>
      /\ tool \in MessageTool => SetContext(tool) = <<first, second>> \o <<third>>
      /\ tool = "spawn" => SetContext(tool) = <<first, second>> \o <<>>
  BY DEF SetContext, MessageTool, Field
<1> HIDE DEF both, first, second, third
<1>4. <<first, second>> \in Seq(WriteRecord)
  BY <1>1
<1>5. <<first, second>> \o <<>> = <<first, second>>
  BY <1>4, ConcatEmptySeq
<1>6. CASE tool = "cron"
  BY <1>1, <1>2, <1>3, <1>6, FewWrites DEF ToBeSet
<1>7. CASE tool \in MessageTool
  <2> DEFINE w == SetContext(tool)
  <2> DEFINE v == <<first, second>> \o <<third>>
  <2>0. /\ v \in Seq(WriteRecord) /\ DOMAIN v = {1, 2, 3}
        /\ v[1] = first /\ v[2] = second /\ v[3] = third
    BY <1>1, FewWrites
  <2> HIDE DEF v
  <2>1. /\ w \in Seq(WriteRecord) /\ DOMAIN w = {1, 2, 3}
        /\ w[1] = first /\ w[2] = second /\ w[3] = third
    BY <1>3, <1>7, <2>0 DEF v
  <2> HIDE DEF w
  <2>2. ToBeSet(w, tool, "channel") /\ ToBeSet(w, tool, "id")
    BY <1>2, <2>1 DEF ToBeSet
  <2>3. tool = "message" => ToBeReset(w)
    BY <1>2, <2>1 DEF ToBeReset
  <2>4. \A k \in DOMAIN w : w[k].tool = tool
    BY <1>2, <2>1
  <2>5. QED  BY <2>1, <2>2, <2>3, <2>4 DEF w, Field
<1>8. CASE tool = "spawn"
  <2> DEFINE w == SetContext(tool)
  <2> DEFINE v == <<first, second>>
  <2>0. v \in Seq(WriteRecord) /\ DOMAIN v = {1, 2} /\ v[1] = first /\ v[2] = second
    BY <1>1, FewWrites
  <2> HIDE DEF v
  <2>1. w \in Seq(WriteRecord) /\ DOMAIN w = {1, 2} /\ w[1] = first /\ w[2] = second
    BY <1>3, <1>5, <1>8, <2>0 DEF v
  <2> HIDE DEF w
  <2>2. ToBeSet(w, tool, "channel") /\ ToBeSet(w, tool, "id")
    BY <1>2, <2>1 DEF ToBeSet
  <2>3. \A k \in DOMAIN w : w[k].tool = tool
    BY <1>2, <2>1
  <2>4. QED  BY <1>8, <2>1, <2>2, <2>3 DEF w, Field
<1>9. QED  BY <1>6, <1>7, <1>8 DEF Tool

\* Some writes and then others: each is one of either, and they set what either sets.
LEMMA BothWrites ==
    ASSUME NEW m \in Seq(WriteRecord), NEW s \in Seq(WriteRecord)
    PROVE  /\ \A k \in DOMAIN (m \o s) :
                \/ \E i \in DOMAIN m : (m \o s)[k] = m[i]
                \/ \E i \in DOMAIN s : (m \o s)[k] = s[i]
           /\ \A tool, f : ToBeSet(m, tool, f) \/ ToBeSet(s, tool, f) => ToBeSet(m \o s, tool, f)
           /\ ToBeReset(m) => ToBeReset(m \o s)
<1> HIDE DEF WriteRecord
<1> DEFINE both == m \o s
<1>1. /\ both \in Seq(WriteRecord) /\ Len(both) = Len(m) + Len(s)
      /\ \A i \in 1 .. Len(m) + Len(s) :
           both[i] = IF i <= Len(m) THEN m[i] ELSE s[i - Len(m)]
  BY ConcatProperties
<1> HIDE DEF both
<1>2. /\ Len(m) \in Nat /\ DOMAIN m = 1 .. Len(m)
      /\ Len(s) \in Nat /\ DOMAIN s = 1 .. Len(s) /\ DOMAIN both = 1 .. Len(m) + Len(s)
  BY <1>1, LenProperties
<1>3. \A i \in DOMAIN m : i \in DOMAIN both /\ both[i] = m[i]
  BY <1>1, <1>2
<1>4. ASSUME NEW i \in DOMAIN s
      PROVE  Len(m) + i \in DOMAIN both /\ both[Len(m) + i] = s[i]
  <2>1. i \in 1 .. Len(s)
    BY <1>2
  <2>2. Len(m) + i \in 1 .. Len(m) + Len(s) /\ ~(Len(m) + i <= Len(m)) /\ (Len(m) + i) - Len(m) = i
    BY <1>2, <2>1
  <2>3. QED  BY <1>1, <1>2, <2>2
<1>5. ASSUME NEW k \in DOMAIN both
      PROVE  (\E i \in DOMAIN m : both[k] = m[i]) \/ (\E i \in DOMAIN s : both[k] = s[i])
  <2>1. k \in 1 .. Len(m) + Len(s)
    BY <1>2
  <2>2. CASE k <= Len(m)
    <3>1. k \in DOMAIN m
      BY <1>2, <2>1, <2>2
    <3>2. QED  BY <1>1, <2>1, <2>2, <3>1
  <2>3. CASE ~(k <= Len(m))
    <3>1. k - Len(m) \in DOMAIN s
      BY <1>2, <2>1, <2>3
    <3>2. QED  BY <1>1, <2>1, <2>3, <3>1
  <2>4. QED  BY <2>2, <2>3
<1>6. ASSUME NEW tool, NEW f, ToBeSet(m, tool, f) \/ ToBeSet(s, tool, f)
      PROVE  ToBeSet(both, tool, f)
  BY <1>3, <1>4, <1>6 DEF ToBeSet
<1>7. ToBeReset(m) => ToBeReset(both)
  BY <1>3 DEF ToBeReset
<1>8. QED  BY <1>5, <1>6, <1>7 DEF both

\* When no writes are left, the fields are set.
LEMMA NoneLeft ==
    /\ \A k \in DOMAIN <<>> : FALSE
    /\ \A tool, f : ~ToBeSet(<<>>, tool, f)
    /\ ~ToBeReset(<<>>)
<1>1. \A k \in DOMAIN <<>> : FALSE
  OBVIOUS
<1>2. QED  BY <1>1 DEF ToBeSet, ToBeReset

\* The first of the writes, and the rest of them.
LEMMA FirstWrite ==
    ASSUME NEW s \in Seq(WriteRecord), s # <<>>
    PROVE  /\ Head(s) \in WriteRecord /\ Tail(s) \in Seq(WriteRecord)
           /\ 1 \in DOMAIN s /\ Head(s) = s[1]
           /\ \A k \in DOMAIN Tail(s) : k + 1 \in DOMAIN s /\ Tail(s)[k] = s[k + 1]
           /\ \A k \in DOMAIN s : k = 1 \/ (k - 1 \in DOMAIN Tail(s) /\ Tail(s)[k - 1] = s[k])
<1> HIDE DEF WriteRecord
<1>1. /\ Head(s) \in WriteRecord /\ Tail(s) \in Seq(WriteRecord) /\ Len(Tail(s)) = Len(s) - 1
      /\ \A i \in 1 .. Len(Tail(s)) : Tail(s)[i] = s[i + 1]
  BY HeadTailProperties
<1>2. Len(s) \in Nat /\ Len(s) > 0 /\ DOMAIN s = 1 .. Len(s)
  BY LenProperties, EmptySeq
<1>3. DOMAIN Tail(s) = 1 .. Len(s) - 1
  BY <1>1, LenProperties
<1>4. Head(s) = s[1]
  OBVIOUS
<1>5. ASSUME NEW k \in DOMAIN s, k # 1
      PROVE  k - 1 \in 1 .. Len(s) - 1 /\ (k - 1) + 1 = k
  BY <1>2, <1>5
<1>6. \A k \in 1 .. Len(s) - 1 : k + 1 \in 1 .. Len(s)
  BY <1>2
<1>7. QED  BY <1>1, <1>2, <1>3, <1>4, <1>5, <1>6

\* Chats are addresses, and so are the terminal and what a tool holds at first.
LEMMA ChatsAreAddresses ==
    ASSUME ConstantsAssumption
    PROVE  Chats \cup {NoAddress, Terminal} \subseteq Address
<1> DEFINE All == Chats \cup {NoAddress, Terminal}
<1>1. \A a \in All : a = [channel |-> a.channel, id |-> a.id]
  <2>1. \A a \in Chats : a = [channel |-> a.channel, id |-> a.id]
    BY DEF ConstantsAssumption
  <2>2. NoAddress = [channel |-> NoAddress.channel, id |-> NoAddress.id]
    BY DEF NoAddress
  <2>3. Terminal = [channel |-> Terminal.channel, id |-> Terminal.id]
    BY DEF Terminal
  <2> HIDE DEF NoAddress, Terminal
  <2>4. QED  BY <2>1, <2>2, <2>3
<1>2. Address = [channel : {a.channel : a \in All}, id : {a.id : a \in All}]
  BY DEF Address
<1> HIDE DEF All
<1>3. ASSUME NEW a \in All PROVE a \in Address
  <2>1. a.channel \in {b.channel : b \in All} /\ a.id \in {b.id : b \in All}
    OBVIOUS
  <2>2. [channel |-> a.channel, id |-> a.id] \in Address
    BY <1>2, <2>1
  <2>3. QED  BY <1>1, <2>2
<1>4. QED  BY <1>3 DEF All

\* A write makes an address of an address.
LEMMA WrittenIsAddress ==
    ASSUME NEW old \in Address, NEW addr \in Address, NEW fields \in SUBSET Field
    PROVE  Written(old, fields, addr) \in Address
  BY DEF Written, Address, Field

\* The chat of a message is an address; it is the context's unless the message was asked to go
\* elsewhere.
LEMMA TargetIsAddress ==
    ASSUME NEW asked \in Address, NEW addr \in Address
    PROVE  Target(asked, addr) \in Address /\ Target(NoAddress, addr) = addr
<1>1. Target(asked, addr) \in Address
  BY DEF Target, Address
<1>2. Target(NoAddress, addr) = [f \in {"channel", "id"} |-> addr[f]]
  <2>1. NoAddress["channel"] = "" /\ NoAddress["id"] = ""
    BY DEF NoAddress
  <2> HIDE DEF NoAddress
  <2>2. QED  BY <2>1 DEF Target
<1>3. addr = [channel |-> addr["channel"], id |-> addr["id"]]
  BY DEF Address
<1>4. QED  BY <1>1, <1>2, <1>3

-----------------------------------------------------------------------------
\* The types with numbers are types.
LEMMA TypesAreOK == Types => TypeOK
<1> SUFFICES ASSUME Types PROVE TypeOK
  OBVIOUS
<1>1. turn \in [Runner -> [pc : TurnPc, id : 0 .. turns, addr : Address, writes : Writes,
                           tool : Tool \cup {""}, calls : 0 .. MaxCalls]]
  BY DEF Types, Turns, TurnRecord
<1>2. sub \in [Runner -> [Sub -> [pc : SubPc, id : 0 .. turns, addr : Address, writes : Writes,
                                  calls : 0 .. MaxSubCalls]]]
  BY DEF Types, Subs, SubRecord
<1>3. QED  BY <1>1, <1>2 DEF TypeOK, Types, Fields, Begun, Sent, TurnPc, SubPc

\* The bounds are numbers, and so is what counts up to them.
LEMMA Bounds ==
    ASSUME ConstantsAssumption
    PROVE  /\ MaxTurns \in Nat /\ MaxCalls \in Nat /\ MaxSubs \in Nat /\ MaxSubCalls \in Nat
           /\ 0 \in 0 .. MaxTurns /\ 0 \in 0 .. MaxCalls /\ 0 \in 0 .. MaxSubCalls
           /\ Begun => turns \in Nat
<1>1. MaxTurns \in Nat /\ MaxCalls \in Nat /\ MaxSubs \in Nat /\ MaxSubCalls \in Nat
  BY DEF ConstantsAssumption
<1>2. Begun => turns \in 0 .. MaxTurns
  BY DEF Begun
<1> HIDE DEF ConstantsAssumption, Begun
<1>3. QED  BY ONLY <1>1, <1>2

\* A turn, or a subagent, goes on to another step.
LEMMA GoesOn ==
    ASSUME NEW n \in Nat
    PROVE  /\ \A t \in TurnRecord(n), p \in TurnPc :
                t.pc # "idle" => [t EXCEPT !.pc = p] \in TurnRecord(n)
           /\ \A s \in SubRecord(n), p \in SubPc :
                s.pc # "off" => [s EXCEPT !.pc = p] \in SubRecord(n)
<1> HIDE DEF TurnPc, SubPc, Address, Writes, Tool
<1>1. ASSUME NEW t \in TurnRecord(n), NEW p \in TurnPc, t.pc # "idle"
      PROVE  [t EXCEPT !.pc = p] \in TurnRecord(n)
  BY <1>1 DEF TurnRecord
<1>2. ASSUME NEW s \in SubRecord(n), NEW p \in SubPc, s.pc # "off"
      PROVE  [s EXCEPT !.pc = p] \in SubRecord(n)
  BY <1>2 DEF SubRecord
<1>3. QED  BY <1>1, <1>2

\* A turn becomes a record of a turn.
LEMMA TurnBecomes ==
    ASSUME NEW n \in Nat, Turns(n), NEW r \in Runner, NEW t \in TurnRecord(n)
    PROVE  [turn EXCEPT ![r] = t] \in [Runner -> TurnRecord(n)]
<1> HIDE DEF TurnRecord
<1>1. QED  BY DEF Turns

\* ... and a subagent one of a subagent.
LEMMA SubBecomes ==
    ASSUME NEW n \in Nat, Subs(n), NEW r \in Runner, NEW i \in Sub, NEW s \in SubRecord(n)
    PROVE  [sub EXCEPT ![r][i] = s] \in [Runner -> [Sub -> SubRecord(n)]]
<1> HIDE DEF SubRecord, Sub
<1>1. QED  BY DEF Subs

\* A write leaves the fields of the tools what they are.
LEMMA WriteTypes ==
    ASSUME Fields, NEW w \in WriteRecord, NEW addr \in Address, Write(w, addr)
    PROVE  Fields'
<1>1. w.tool \in Tool /\ w.fields \in SUBSET Field
  BY DEF WriteRecord
<1>2. context[w.tool] \in Address
  BY <1>1 DEF Fields
<1>3. Written(context[w.tool], w.fields, addr) \in Address
  BY <1>1, <1>2, WrittenIsAddress
<1> HIDE DEF Address
<1>4. context' \in [Tool -> Address]
  BY <1>1, <1>3 DEF Write, Fields
<1>5. sentInRound' \in [MessageTool -> BOOLEAN]
  BY DEF Write, Fields
<1>6. QED  BY <1>4, <1>5 DEF Fields

\* A goroutine without a turn, and a task without a goroutine.
LEMMA IdleAndOff ==
    ASSUME ConstantsAssumption, NEW n \in Nat
    PROVE  Idle \in TurnRecord(n) /\ Off \in SubRecord(n)
<1>1. NoAddress \in Address
  BY ChatsAreAddresses
<1>2. <<>> \in Writes
  BY EmptySeq, WritesAreRecords
<1>3. 0 \in 0 .. MaxCalls /\ 0 \in 0 .. MaxSubCalls /\ 0 \in 0 .. n
  <2>1. 0 \in 0 .. n
    BY ONLY n \in Nat
  <2>2. QED  BY <2>1, Bounds
<1> HIDE DEF NoAddress, Address, Writes
<1>4. Idle \in TurnRecord(n)
  BY <1>1, <1>2, <1>3 DEF Idle, TurnRecord, TurnPc
<1>5. Off \in SubRecord(n)
  BY <1>1, <1>2, <1>3 DEF Off, SubRecord, SubPc
<1>6. QED  BY <1>4, <1>5

\* Every variable has its type at the start ...
LEMMA InitTypes == ASSUME ConstantsAssumption PROVE Init => Types
<1> SUFFICES ASSUME Init PROVE Types
  OBVIOUS
<1> USE DEF Init
<1>1. NoAddress \in Address /\ Terminal \in Address
  BY ChatsAreAddresses
<1>2. 0 \in 0 .. MaxTurns
  BY Bounds
<1>3. Idle \in TurnRecord(0) /\ Off \in SubRecord(0)
  BY IdleAndOff
<1> HIDE DEF Idle, Off, TurnRecord, SubRecord, Address, NoAddress, Terminal
<1>4. Fields
  BY <1>1 DEF Fields
<1>5. Turns(0) /\ Subs(0)
  BY <1>3 DEF Turns, Subs
<1>6. Begun
  <2>1. <<>> \in Seq(Chats) /\ Len(<<>>) = 0
    BY EmptySeq
  <2>2. QED  BY <1>2, <2>1 DEF Begun
<1>7. Sent(0)
  BY DEF Sent
<1>8. QED  BY <1>4, <1>5, <1>6, <1>7 DEF Types

\* ... in a step of a turn ...
LEMMA TurnTypes ==
    ASSUME ConstantsAssumption, Types, NEW r \in Runner, TurnStep(r)
    PROVE  Types'
<1> DEFINE t == turn[r]
<1>1. Fields /\ Turns(turns) /\ Subs(turns) /\ Begun /\ Sent(turns)
  BY DEF Types
<1>2. turns \in Nat /\ MaxCalls \in Nat
  BY <1>1, Bounds
<1>3. t \in TurnRecord(turns)
  BY <1>1 DEF Turns
<1>4. \A u \in TurnRecord(turns) :
        turn' = [turn EXCEPT ![r] = u] /\ UNCHANGED turns => Turns(turns)'
  <2> TAKE u \in TurnRecord(turns)
  <2>1. [turn EXCEPT ![r] = u] \in [Runner -> TurnRecord(turns)]
    BY <1>1, <1>2, TurnBecomes
  <2>2. QED  BY <2>1 DEF Turns, TurnRecord
<1>5. UNCHANGED <<sub, turns>> => Subs(turns)'
  BY <1>1 DEF Subs, SubRecord
<1>6. UNCHANGED <<turns, origin>> => Begun'
  BY <1>1 DEF Begun
<1>7. UNCHANGED <<turns, disturbed, delivered, jobs, ended>> => Sent(turns)'
  BY <1>1 DEF Sent
<1>8. UNCHANGED <<context, sentInRound>> => Fields'
  BY <1>1 DEF Fields
<1>9. t.pc # "idle" => t.id \in 1 .. turns
  <2>1. t.id \in 0 .. turns /\ (t.pc # "idle" => t.id > 0)
    BY <1>3 DEF TurnRecord
  <2>2. QED  BY ONLY <2>1, <1>2
<1>  SUFFICES Fields' /\ Turns(turns)' /\ Subs(turns)' /\ Begun' /\ Sent(turns)'
  BY DEF Types
<1> HIDE DEF Address, Writes, MessageTool, Tool
<1>10. CASE TurnWrites(r)
  <2>1. t.writes \in Seq(WriteRecord) /\ t.writes # <<>>
    BY <1>3, <1>10, WritesAreRecords DEF TurnRecord, TurnWrites
  <2>2. Head(t.writes) \in WriteRecord /\ Tail(t.writes) \in Writes
    BY <2>1, FirstWrite, WritesAreRecords
  <2>3. t.addr \in Address /\ Write(Head(t.writes), t.addr)
    BY <1>3, <1>10 DEF TurnRecord, TurnWrites
  <2>4. Fields'
    BY <1>1, <2>2, <2>3, WriteTypes
  <2>5. [t EXCEPT !.writes = Tail(t.writes)] \in TurnRecord(turns)
    BY <1>3, <2>2 DEF TurnRecord
  <2>6. turn' = [turn EXCEPT ![r] = [t EXCEPT !.writes = Tail(t.writes)]]
    BY <1>10 DEF TurnWrites
  <2>7. QED  BY <1>4, <1>5, <1>6, <1>7, <1>10, <2>4, <2>5, <2>6 DEF TurnWrites
<1>11. CASE Refuse(r)
  <2>1. [t EXCEPT !.pc = "think"] \in TurnRecord(turns)
    BY <1>2, <1>3, <1>11, GoesOn DEF Refuse, TurnPc
  <2>2. turn' = [turn EXCEPT ![r] = [t EXCEPT !.pc = "think"]]
    BY <1>11 DEF Refuse
  <2>3. QED  BY <1>4, <1>5, <1>6, <1>7, <1>8, <1>11, <2>1, <2>2 DEF Refuse
<1>12. ASSUME NEW asked \in Targets, SendMessage(r, asked)
       PROVE  Turns(turns)' /\ Fields' /\ Subs(turns)' /\ Begun' /\ Sent(turns)'
  <2> DEFINE m == [turn |-> t.id, by |-> "message", asked |-> asked,
                   to |-> Target(asked, context["message"])]
  <2>1. [t EXCEPT !.pc = "sent"] \in TurnRecord(turns)
    BY <1>2, <1>3, <1>12, GoesOn DEF SendMessage, Calling, TurnPc
  <2>2. turn' = [turn EXCEPT ![r] = [t EXCEPT !.pc = "sent"]]
    BY <1>12 DEF SendMessage
  <2>3. t.id \in 1 .. turns
    BY <1>9, <1>12 DEF SendMessage, Calling
  <2>4. asked \in Address /\ Target(asked, context["message"]) \in Address
    BY <1>1, TargetIsAddress DEF Fields, Tool, MessageTool, ConstantsAssumption
  <2>5. m \in [turn : 1 .. turns, by : MessageTool \cup {"answer"}, asked : Address, to : Address]
    BY <2>3, <2>4 DEF MessageTool
  <2>6. Sent(turns)'
    <3>1. delivered' = delivered \cup {m} /\ UNCHANGED <<turns, disturbed, jobs, ended>>
      BY <1>12 DEF SendMessage, Deliver
    <3> HIDE DEF m
    <3>2. QED  BY <1>1, <2>5, <3>1 DEF Sent
  <2>7. QED  BY <1>4, <1>5, <1>6, <1>8, <1>12, <2>1, <2>2, <2>6 DEF SendMessage
<1>13. CASE MarkSent(r)
  <2>1. [t EXCEPT !.pc = "think"] \in TurnRecord(turns)
    BY <1>2, <1>3, <1>13, GoesOn DEF MarkSent, TurnPc
  <2>2. turn' = [turn EXCEPT ![r] = [t EXCEPT !.pc = "think"]]
    BY <1>13 DEF MarkSent
  <2>3. Fields'
    BY <1>1, <1>13 DEF Fields, MarkSent
  <2>4. QED  BY <1>4, <1>5, <1>6, <1>7, <1>13, <2>1, <2>2, <2>3 DEF MarkSent
<1>14. CASE AddJob(r)
  <2>1. [t EXCEPT !.pc = "think"] \in TurnRecord(turns)
    BY <1>2, <1>3, <1>14, GoesOn DEF AddJob, Calling, TurnPc
  <2>2. turn' = [turn EXCEPT ![r] = [t EXCEPT !.pc = "think"]]
    BY <1>14 DEF AddJob
  <2>3. t.id \in 1 .. turns
    BY <1>9, <1>14 DEF AddJob, Calling
  <2>4. context["cron"] \in Address
    BY <1>1 DEF Fields, Tool
  <2>5. [turn |-> t.id, to |-> context["cron"]] \in [turn : 1 .. turns, to : Address]
    BY <2>3, <2>4
  <2>6. Sent(turns)'
    BY <1>1, <1>14, <2>5 DEF Sent, AddJob
  <2>7. QED  BY <1>4, <1>5, <1>6, <1>8, <1>14, <2>1, <2>2, <2>6 DEF AddJob
<1>15. CASE Join(r)
  <2>1. [t EXCEPT !.pc = "think"] \in TurnRecord(turns)
    BY <1>2, <1>3, <1>15, GoesOn DEF Join, TurnPc
  <2>2. turn' = [turn EXCEPT ![r] = [t EXCEPT !.pc = "think"]]
    BY <1>15 DEF Join
  <2>3. QED  BY <1>4, <1>5, <1>6, <1>7, <1>8, <1>15, <2>1, <2>2 DEF Join
<1>16. CASE Return(r)
  <2> DEFINE u == IF r = "loop" THEN [t EXCEPT !.pc = "reply"] ELSE Idle
  <2>1. [t EXCEPT !.pc = "reply"] \in TurnRecord(turns)
    BY <1>2, <1>3, <1>16, GoesOn DEF Return, TurnPc
  <2>2. Idle \in TurnRecord(turns)
    BY <1>2, IdleAndOff
  <2>3. u \in TurnRecord(turns)
    BY <2>1, <2>2
  <2>4. turn' = [turn EXCEPT ![r] = u]
    BY <1>16 DEF Return
  <2>5. QED  BY <1>4, <1>5, <1>6, <1>7, <1>8, <1>16, <2>3, <2>4 DEF Return
<1>17. ASSUME NEW tool \in {"message", "spawn", "cron"}, CallTool(r, tool)
       PROVE  Turns(turns)' /\ Fields' /\ Subs(turns)' /\ Begun' /\ Sent(turns)'
  <2> DEFINE u == [t EXCEPT !.pc = "call", !.tool = tool, !.writes = SetContext(tool),
                            !.calls = @ - 1]
  <2>1. tool \in Tool
    BY DEF Tool, MessageTool
  <2>2. SetContext(tool) \in Writes
    BY <2>1, SetContextSets, WritesAreRecords
  <2>3. t.calls \in 0 .. MaxCalls /\ t.calls > 0
    BY <1>3, <1>17 DEF CallTool, TurnRecord
  <2>4. t.calls - 1 \in 0 .. MaxCalls
    BY ONLY <1>2, <2>3
  <2>5. t.pc # "idle"
    BY <1>17 DEF CallTool
  <2>6. u \in TurnRecord(turns)
    BY <1>3, <2>1, <2>2, <2>4, <2>5 DEF TurnRecord, TurnPc
  <2>7. turn' = [turn EXCEPT ![r] = u]
    BY <1>17 DEF CallTool
  <2>8. QED  BY <1>4, <1>5, <1>6, <1>7, <1>8, <1>17, <2>6, <2>7 DEF CallTool
<1>18. ASSUME NEW n \in Sub, Spawn(r, n)
       PROVE  Turns(turns)' /\ Fields' /\ Subs(turns)' /\ Begun' /\ Sent(turns)'
  <2> DEFINE s == [Off EXCEPT !.pc = "start", !.id = t.id]
             ss == [i \in Sub |-> IF i <= n THEN s ELSE Off]
  <2>1. [t EXCEPT !.pc = "wait"] \in TurnRecord(turns)
    BY <1>2, <1>3, <1>18, GoesOn DEF Spawn, Calling, TurnPc
  <2>2. turn' = [turn EXCEPT ![r] = [t EXCEPT !.pc = "wait"]]
    BY <1>18 DEF Spawn
  <2>3. t.id \in 0 .. turns /\ t.id > 0
    BY <1>3, <1>18 DEF Spawn, Calling, TurnRecord
  <2>4. Off \in SubRecord(turns)
    BY <1>2, IdleAndOff
  <2>5. s \in SubRecord(turns)
    BY <2>3, <2>4 DEF SubRecord, SubPc
  <2> HIDE DEF s, SubRecord, Sub
  <2>6. ss \in [Sub -> SubRecord(turns)]
    BY <2>4, <2>5
  <2>7. sub' = [sub EXCEPT ![r] = ss]
    BY <1>18 DEF Spawn, s
  <2> HIDE DEF ss
  <2>8. Subs(turns)'
    <3>1. sub' \in [Runner -> [Sub -> SubRecord(turns)]]
      BY <1>1, <2>6, <2>7 DEF Subs
    <3>2. turns' = turns
      BY <1>18 DEF Spawn
    <3>3. QED  BY <3>1, <3>2 DEF Subs, SubRecord
  <2>9. QED  BY <1>4, <1>6, <1>7, <1>8, <1>18, <2>1, <2>2, <2>8 DEF Spawn
<1>19. CASE r = "loop" /\ Reply
  <2>1. Idle \in TurnRecord(turns)
    BY <1>2, IdleAndOff
  <2>2. turn' = [turn EXCEPT ![r] = Idle]
    BY <1>19 DEF Reply
  <2>3. t.id \in 1 .. turns
    BY <1>9, <1>19 DEF Reply
  <2>4. t.addr \in Address
    BY <1>3 DEF TurnRecord
  <2>5. [turn |-> t.id, by |-> "answer", asked |-> NoAddress, to |-> t.addr]
          \in [turn : 1 .. turns, by : MessageTool \cup {"answer"},
               asked : Address, to : Address]
    BY <2>3, <2>4, ChatsAreAddresses
  <2>6. Sent(turns)'
    BY <1>1, <1>19, <2>3, <2>5 DEF Sent, Reply, Deliver
  <2>7. QED  BY <1>4, <1>5, <1>6, <1>8, <1>19, <2>1, <2>2, <2>6 DEF Reply
<1>20. QED
  BY <1>10, <1>11, <1>12, <1>13, <1>14, <1>15, <1>16, <1>17, <1>18, <1>19 DEF TurnStep

\* ... in a step of a subagent ...
LEMMA SubTypes ==
    ASSUME ConstantsAssumption, Types, NEW r \in Runner, NEW i \in Sub, SubStep(r, i)
    PROVE  Types'
<1> DEFINE s == sub[r][i]
<1>1. Fields /\ Turns(turns) /\ Subs(turns) /\ Begun /\ Sent(turns)
  BY DEF Types
<1>2. turns \in Nat /\ MaxSubCalls \in Nat
  BY <1>1, Bounds
<1> HIDE DEF Sub
<1>3. s \in SubRecord(turns)
  BY <1>1 DEF Subs
<1>4. \A u \in SubRecord(turns) :
        sub' = [sub EXCEPT ![r][i] = u] /\ UNCHANGED turns => Subs(turns)'
  <2> TAKE u \in SubRecord(turns)
  <2>1. [sub EXCEPT ![r][i] = u] \in [Runner -> [Sub -> SubRecord(turns)]]
    BY <1>1, <1>2, SubBecomes
  <2>2. QED  BY <2>1 DEF Subs, SubRecord
<1>5. UNCHANGED <<turn, turns>> => Turns(turns)'
  BY <1>1 DEF Turns, TurnRecord
<1>6. UNCHANGED <<turns, origin>> => Begun'
  BY <1>1 DEF Begun
<1>7. UNCHANGED <<turns, disturbed, delivered, jobs, ended>> => Sent(turns)'
  BY <1>1 DEF Sent
<1>8. UNCHANGED <<context, sentInRound>> => Fields'
  BY <1>1 DEF Fields
<1>9. s.pc # "off" => s.id \in 1 .. turns
  <2>1. s.id \in 0 .. turns /\ (s.pc # "off" => s.id > 0)
    BY <1>3 DEF SubRecord
  <2>2. QED  BY ONLY <2>1, <1>2
<1>  SUFFICES Fields' /\ Turns(turns)' /\ Subs(turns)' /\ Begun' /\ Sent(turns)'
  BY DEF Types
<1> HIDE DEF Address, Writes, MessageTool, Tool
<1>10. CASE SubStart(r, i)
  <2> DEFINE u == [s EXCEPT !.pc = "think", !.addr = context["spawn"], !.calls = MaxSubCalls]
  <2>1. context["spawn"] \in Address
    BY <1>1 DEF Fields, Tool
  <2>2. MaxSubCalls \in 0 .. MaxSubCalls
    BY ONLY <1>2
  <2>3. u \in SubRecord(turns)
    BY <1>3, <1>10, <2>1, <2>2 DEF SubStart, SubRecord, SubPc
  <2>4. sub' = [sub EXCEPT ![r][i] = u]
    BY <1>10 DEF SubStart
  <2>5. QED  BY <1>4, <1>5, <1>6, <1>7, <1>8, <1>10, <2>3, <2>4 DEF SubStart
<1>11. CASE SubCall(r, i)
  <2> DEFINE u == [s EXCEPT !.pc = "call", !.calls = @ - 1, !.writes = SetContext("submessage")]
  <2>1. SetContext("submessage") \in Writes
    BY SetContextSets, WritesAreRecords DEF Tool, MessageTool
  <2>2. s.calls \in 0 .. MaxSubCalls /\ s.calls > 0
    BY <1>3, <1>11 DEF SubCall, SubRecord
  <2>3. s.calls - 1 \in 0 .. MaxSubCalls
    BY ONLY <1>2, <2>2
  <2>4. u \in SubRecord(turns)
    BY <1>3, <1>11, <2>1, <2>3 DEF SubCall, SubRecord, SubPc
  <2>5. sub' = [sub EXCEPT ![r][i] = u]
    BY <1>11 DEF SubCall
  <2>6. QED  BY <1>4, <1>5, <1>6, <1>7, <1>8, <1>11, <2>4, <2>5 DEF SubCall
<1>12. CASE SubWrites(r, i)
  <2>1. s.writes \in Seq(WriteRecord) /\ s.writes # <<>>
    BY <1>3, <1>12, WritesAreRecords DEF SubRecord, SubWrites
  <2>2. Head(s.writes) \in WriteRecord /\ Tail(s.writes) \in Writes
    BY <2>1, FirstWrite, WritesAreRecords
  <2>3. s.addr \in Address /\ Write(Head(s.writes), s.addr)
    BY <1>3, <1>12 DEF SubRecord, SubWrites
  <2>4. Fields'
    BY <1>1, <2>2, <2>3, WriteTypes
  <2>5. [s EXCEPT !.writes = Tail(s.writes)] \in SubRecord(turns)
    BY <1>3, <2>2 DEF SubRecord
  <2>6. sub' = [sub EXCEPT ![r][i] = [s EXCEPT !.writes = Tail(s.writes)]]
    BY <1>12 DEF SubWrites
  <2>7. QED  BY <1>4, <1>5, <1>6, <1>7, <1>12, <2>4, <2>5, <2>6 DEF SubWrites
<1>13. ASSUME NEW asked \in Targets, SubSend(r, i, asked)
       PROVE  Turns(turns)' /\ Fields' /\ Subs(turns)' /\ Begun' /\ Sent(turns)'
  <2> DEFINE m == [turn |-> s.id, by |-> "submessage", asked |-> asked,
                   to |-> Target(asked, context["submessage"])]
  <2>1. [s EXCEPT !.pc = "think"] \in SubRecord(turns) /\ [s EXCEPT !.pc = "sent"] \in SubRecord(turns)
    BY <1>2, <1>3, <1>13, GoesOn DEF SubSend, SubPc
  <2>2. sub' = [sub EXCEPT ![r][i] = [s EXCEPT !.pc = "think"]]
          \/ sub' = [sub EXCEPT ![r][i] = [s EXCEPT !.pc = "sent"]]
    BY <1>13 DEF SubSend
  <2>3. s.id \in 1 .. turns
    BY <1>9, <1>13 DEF SubSend
  <2>4. asked \in Address /\ Target(asked, context["submessage"]) \in Address
    BY <1>1, TargetIsAddress DEF Fields, Tool, MessageTool, ConstantsAssumption
  <2>5. m \in [turn : 1 .. turns, by : MessageTool \cup {"answer"}, asked : Address, to : Address]
    BY <2>3, <2>4 DEF MessageTool
  <2>6. Sent(turns)'
    <3>1. /\ delivered' = delivered \/ delivered' = delivered \cup {m}
          /\ UNCHANGED <<turns, disturbed, jobs, ended>>
      BY <1>13 DEF SubSend, Deliver
    <3> HIDE DEF m
    <3>2. QED  BY <1>1, <2>5, <3>1 DEF Sent
  <2>7. QED  BY <1>4, <1>5, <1>6, <1>8, <1>13, <2>1, <2>2, <2>6 DEF SubSend
<1>14. CASE SubMarkSent(r, i)
  <2>1. [s EXCEPT !.pc = "think"] \in SubRecord(turns)
    BY <1>2, <1>3, <1>14, GoesOn DEF SubMarkSent, SubPc
  <2>2. sub' = [sub EXCEPT ![r][i] = [s EXCEPT !.pc = "think"]]
    BY <1>14 DEF SubMarkSent
  <2>3. Fields'
    BY <1>1, <1>14 DEF Fields, SubMarkSent
  <2>4. QED  BY <1>4, <1>5, <1>6, <1>7, <1>14, <2>1, <2>2, <2>3 DEF SubMarkSent
<1>15. CASE SubDone(r, i)
  <2>1. Off \in SubRecord(turns)
    BY <1>2, IdleAndOff
  <2>2. sub' = [sub EXCEPT ![r][i] = Off]
    BY <1>15 DEF SubDone
  <2>3. QED  BY <1>4, <1>5, <1>6, <1>7, <1>8, <1>15, <2>1, <2>2 DEF SubDone
<1>16. QED  BY <1>10, <1>11, <1>12, <1>13, <1>14, <1>15 DEF SubStep

\* ... and when a turn begins.
LEMMA BeginTypes ==
    ASSUME ConstantsAssumption, Types, NEW r \in Runner, NEW addr \in Chats, Begin(r, addr)
    PROVE  Types'
<1>1. Fields /\ Turns(turns) /\ Subs(turns) /\ Begun /\ Sent(turns)
  BY DEF Types
<1>2. turns \in Nat /\ MaxCalls \in Nat /\ MaxTurns \in Nat
  BY <1>1, Bounds
<1>3. turns' = turns + 1 /\ turns < MaxTurns
  BY DEF Begin
<1>4. turns' \in Nat /\ turns' \in 0 .. MaxTurns /\ turns' \in 0 .. turns' /\ turns' > 0
  BY ONLY <1>2, <1>3
<1>5. \A k : (k \in 0 .. turns => k \in 0 .. turns') /\ (k \in 1 .. turns => k \in 1 .. turns')
  BY ONLY <1>2, <1>3
<1>6. addr \in Address
  BY ChatsAreAddresses
<1>7. SetContext("message") \o SetContext("spawn") \in Writes
  <2>1. SetContext("message") \in Seq(WriteRecord) /\ SetContext("spawn") \in Seq(WriteRecord)
    BY SetContextSets DEF Tool, MessageTool
  <2>2. QED  BY <2>1, ConcatProperties, WritesAreRecords
<1>8. MaxCalls \in 0 .. MaxCalls
  BY ONLY <1>2
<1> DEFINE u == [Idle EXCEPT !.pc = "think", !.id = turns', !.addr = addr,
                             !.writes = SetContext("message") \o SetContext("spawn"),
                             !.calls = MaxCalls]
<1>9. u \in TurnRecord(turns')
  <2>1. Idle \in TurnRecord(turns')
    BY <1>4, IdleAndOff
  <2> HIDE DEF Address, Writes, Idle, Tool
  <2>2. QED  BY <1>4, <1>6, <1>7, <1>8, <2>1 DEF TurnRecord, TurnPc
<1>10. turn' = [turn EXCEPT ![r] = u]
  BY <1>3 DEF Begin
<1> HIDE DEF u, Address, Writes, Tool, Sub, MessageTool
<1>11. turn \in [Runner -> TurnRecord(turns')]
  <2>1. \A t \in TurnRecord(turns) : t \in TurnRecord(turns')
    BY <1>5 DEF TurnRecord
  <2> HIDE DEF TurnRecord
  <2>2. QED  BY <1>1, <2>1 DEF Turns
<1>12. Turns(turns)'
  <2>1. turn' \in [Runner -> TurnRecord(turns')]
    <3> HIDE DEF TurnRecord
    <3>1. QED  BY <1>9, <1>10, <1>11
  <2>2. QED  BY <2>1 DEF Turns, TurnRecord
<1>13. Subs(turns)'
  <2>1. \A s \in SubRecord(turns) : s \in SubRecord(turns')
    BY <1>5 DEF SubRecord
  <2>2. sub \in [Runner -> [Sub -> SubRecord(turns')]]
    <3> HIDE DEF SubRecord
    <3>1. QED  BY <1>1, <2>1 DEF Subs
  <2>3. sub' = sub
    BY DEF Begin
  <2>4. QED  BY <2>2, <2>3 DEF Subs, SubRecord
<1>14. Fields'
  BY <1>1 DEF Fields, Begin
<1>15. Begun'
  <2>1. origin' \in Seq(Chats) /\ Len(origin') = turns + 1
    BY <1>1, AppendProperties DEF Begun, Begin
  <2>2. QED  BY <1>3, <1>4, <2>1 DEF Begun
<1>16. Sent(turns)'
  <2>1. delivered' = delivered /\ jobs' = jobs /\ ended' = ended
    BY DEF Begin
  <2>2. delivered \subseteq [turn : 1 .. turns', by : MessageTool \cup {"answer"},
                             asked : Address, to : Address]
    BY <1>1, <1>5 DEF Sent
  <2>3. jobs \subseteq [turn : 1 .. turns', to : Address] /\ ended \subseteq 1 .. turns'
    BY <1>1, <1>5 DEF Sent
  <2>4. disturbed' \subseteq 1 .. turns'
    <3> DEFINE beside == {turn[q].id : q \in {p \in Runner : turn[p].pc # "idle"}}
    <3>1. ASSUME NEW q \in Runner, turn[q].pc # "idle" PROVE turn[q].id \in 1 .. turns'
      <4>1. turn[q] \in TurnRecord(turns)
        BY <1>1 DEF Turns
      <4>2. turn[q].id \in 0 .. turns /\ turn[q].id > 0
        BY <3>1, <4>1 DEF TurnRecord
      <4>3. QED  BY ONLY <1>2, <1>3, <4>2
    <3>2. beside \subseteq 1 .. turns'
      BY <3>1
    <3>3. turns + 1 \in 1 .. turns'
      BY ONLY <1>2, <1>3
    <3>4. disturbed' = disturbed \/ disturbed' = disturbed \cup beside \cup {turns + 1}
      BY DEF Begin
    <3> HIDE DEF beside
    <3>5. disturbed \subseteq 1 .. turns'
      BY <1>1, <1>5 DEF Sent
    <3>6. QED  BY <3>2, <3>3, <3>4, <3>5
  <2>5. QED  BY <2>1, <2>2, <2>3, <2>4 DEF Sent
<1>17. QED  BY <1>12, <1>13, <1>14, <1>15, <1>16 DEF Types

\* Types are kept by every step.
LEMMA TypesKept == ASSUME ConstantsAssumption, Types, [Next]_vars PROVE Types'
<1>1. CASE UNCHANGED vars
  BY <1>1 DEF vars, Types, Fields, Turns, Subs, Begun, Sent, TurnRecord, SubRecord
<1>2. ASSUME NEW a \in Addresses, Begin("loop", a) PROVE Types'
  BY <1>2, BeginTypes DEF Chats, Runner
<1>3. ASSUME NEW a \in JobAddresses, Begin("cron", a) PROVE Types'
  BY <1>3, BeginTypes DEF Chats, Runner
<1>4. QED  BY <1>1, <1>2, <1>3, TurnTypes, SubTypes DEF Next

\* Every variable has its type: turns have numbers up to MaxTurns, no tool and no process holds
\* a chat that is none of a channel and an id that were given to it (message.go, spawn.go,
\* cron.go), and all that is sent is of a turn that began.
THEOREM TypeCorrect == Spec => []TypeOK
<1>1. Init => Types
  BY InitTypes, ConstantsAssumption
<1>2. Types /\ [Next]_vars => Types'
  BY TypesKept, ConstantsAssumption
<1>3. QED  BY <1>1, <1>2, TypesAreOK, PTL DEF Spec

-----------------------------------------------------------------------------
\* Two addresses with the same fields are the same.
LEMMA SameFields ==
    ASSUME NEW a \in Address, NEW b \in Address, \A f \in Field : a[f] = b[f]
    PROVE  a = b
<1>1. a = [channel |-> a["channel"], id |-> a["id"]] /\ b = [channel |-> b["channel"], id |-> b["id"]]
  BY DEF Address
<1>2. QED  BY <1>1 DEF Field

\* The first of some writes of a chat: what was set or to be set still is.
LEMMA SetAfterWrite ==
    ASSUME Fields, NEW s \in Seq(WriteRecord), s # <<>>, NEW addr \in Address,
           NEW tool \in Tool, Set(context, s, tool, addr), Write(Head(s), addr)
    PROVE  Set(context', Tail(s), tool, addr)
<1> SUFFICES ASSUME NEW f \in Field
             PROVE  ToBeSet(Tail(s), tool, f) \/ context'[tool][f] = addr[f]
  BY DEF Set
<1> DEFINE w == Head(s)
<1>1. w \in WriteRecord /\ w = s[1]
  BY FirstWrite
<1>2. w.tool \in Tool
  BY <1>1 DEF WriteRecord
<1>3. context' = [context EXCEPT ![w.tool] = Written(context[w.tool], w.fields, addr)]
  BY DEF Write
<1>4. context'[tool] = IF tool = w.tool THEN Written(context[tool], w.fields, addr)
                       ELSE context[tool]
  BY <1>2, <1>3 DEF Fields
<1>5. Written(context[tool], w.fields, addr)[f] = IF f \in w.fields THEN addr[f]
                                                  ELSE context[tool][f]
  BY DEF Written, Field
<1>6. CASE context[tool][f] = addr[f]
  BY <1>4, <1>5, <1>6
<1>7. CASE ToBeSet(s, tool, f)
  <2>1. PICK k \in DOMAIN s : s[k].tool = tool /\ f \in s[k].fields
    BY <1>7 DEF ToBeSet
  <2>2. k = 1 \/ (k - 1 \in DOMAIN Tail(s) /\ Tail(s)[k - 1] = s[k])
    BY FirstWrite
  <2>3. CASE k = 1
    BY <1>1, <1>4, <1>5, <2>1, <2>3
  <2>4. CASE k - 1 \in DOMAIN Tail(s) /\ Tail(s)[k - 1] = s[k]
    BY <2>1, <2>4 DEF ToBeSet
  <2>5. QED  BY <2>2, <2>3, <2>4
<1>8. QED  BY <1>6, <1>7 DEF Set

\* All but one of the processes stay as they are, without a turn or with a disturbed one: it is
\* enough to look at that one and its subagents.
LEMMA OneProcess ==
    ASSUME Types, Alone, NEW r \in Runner,
           \A q \in Runner \ {r} : turn'[q] = turn[q] /\ sub'[q] = sub[q],
           \A q \in Runner \ {r} : turn[q].pc # "idle" =>
             turn[q].id \in disturbed' /\ (turn'[r].pc # "idle" => turn'[r].id \in disturbed'),
           \A n \in 1 .. turns : origin'[n] = origin[n],
           TurnOk(turn'[r], Lone(turn[r])', origin', context'),
           \A i \in Sub : SubOk(sub'[r][i], turn'[r], Lone(turn[r])', context')
    PROVE  Alone'
<1> HIDE DEF Sub, Runner
<1>1. \A q \in Runner : q = r \/ q \in Runner \ {r}
  OBVIOUS
<1>2. \A p, q \in Runner : p # q /\ turn'[p].pc # "idle" /\ turn'[q].pc # "idle"
        => turn'[q].id \in disturbed'
  BY <1>1
<1>3. ASSUME NEW q \in Runner \ {r} PROVE turn[q].pc # "idle" => turn[q].id \in 1 .. turns
  <2>1. turn[q] \in TurnRecord(turns) /\ turns \in Nat
    BY DEF Types, Turns, Begun
  <2>2. turn[q].id \in 0 .. turns /\ (turn[q].pc # "idle" => turn[q].id > 0)
    BY <2>1 DEF TurnRecord
  <2>3. QED  BY ONLY <2>1, <2>2
<1>4. ASSUME NEW q \in Runner PROVE TurnOk(turn'[q], Lone(turn[q])', origin', context')
  <2>1. CASE q = r
    BY <2>1
  <2>2. CASE q \in Runner \ {r}
    <3>1. turn'[q] = turn[q] /\ TurnOk(turn[q], Lone(turn[q]), origin, context)
      BY <2>2 DEF Alone
    <3>2. turn[q].pc # "idle" => turn[q].id \in disturbed' /\ origin'[turn[q].id] = origin[turn[q].id]
      BY <1>3, <2>2
    <3>3. QED  BY <3>1, <3>2 DEF TurnOk, Lone
  <2>3. QED  BY <1>1, <2>1, <2>2
<1>5. ASSUME NEW q \in Runner, NEW i \in Sub
      PROVE  SubOk(sub'[q][i], turn'[q], Lone(turn[q])', context')
  <2>1. CASE q = r
    BY <2>1
  <2>2. CASE q \in Runner \ {r}
    <3>1. turn'[q] = turn[q] /\ sub'[q][i] = sub[q][i]
            /\ SubOk(sub[q][i], turn[q], Lone(turn[q]), context)
      BY <2>2 DEF Alone
    <3>2. turn[q].pc # "idle" => turn[q].id \in disturbed'
      BY <2>2
    <3>3. QED  BY <3>1, <3>2 DEF SubOk, Lone
  <2>3. QED  BY <1>1, <2>1, <2>2
<1>6. QED  BY <1>2, <1>4, <1>5 DEF Alone

\* While a turn runs, one beside it is disturbed, and so is this.
LEMMA Others ==
    ASSUME Alone, NEW r \in Runner, turn[r].pc # "idle"
    PROVE  \A q \in Runner \ {r} :
             turn[q].pc # "idle" => turn[q].id \in disturbed /\ turn[r].id \in disturbed
  BY DEF Alone

\* When only r moves, and where turns came from stays, the rest of Alone is of r.
LEMMA OnlyOne ==
    ASSUME Types, Alone, NEW r \in Runner, turn[r].pc # "idle",
           \A q \in Runner \ {r} : turn'[q] = turn[q] /\ sub'[q] = sub[q],
           turn'[r].pc # "idle" => turn'[r].id = turn[r].id,
           UNCHANGED <<origin, disturbed>>,
           TurnOk(turn'[r], Lone(turn'[r]), origin, context'),
           \A i \in Sub : SubOk(sub'[r][i], turn'[r], Lone(turn'[r]), context')
    PROVE  Alone'
<1> HIDE DEF Sub
<1>1. Lone(turn[r])' = Lone(turn'[r])
  BY DEF Lone
<1>2. \A q \in Runner \ {r} : turn[q].pc # "idle" =>
        turn[q].id \in disturbed' /\ (turn'[r].pc # "idle" => turn'[r].id \in disturbed')
  BY Others
<1>3. QED  BY <1>1, <1>2, OneProcess

\* A turn that has made its writes, and has no subagents, goes on to something else than a call.
LEMMA TurnMoves ==
    ASSUME Types, Alone, NEW r \in Runner, NEW u,
           turn' = [turn EXCEPT ![r] = u],
           turn[r].pc # "idle", turn[r].writes = <<>>,
           u.pc \in {"think", "sent", "wait", "reply"}, u.writes = <<>>,
           u.id = turn[r].id, u.addr = turn[r].addr,
           \A i \in Sub : sub[r][i].pc = "off",
           UNCHANGED <<context, sub, origin, disturbed>>
    PROVE  Alone'
<1>1. turn'[r] = u /\ \A q \in Runner \ {r} : turn'[q] = turn[q] /\ sub'[q] = sub[q]
  BY DEF Types, Turns
<1>2. TurnOk(turn[r], Lone(turn[r]), origin, context)
  BY DEF Alone
<1>3. TurnOk(u, Lone(u), origin, context)
  <2>1. Lone(u) => Lone(turn[r])
    BY DEF Lone
  <2>2. Uses(u) = {"message", "spawn"} /\ Uses(u) \subseteq Uses(turn[r])
    BY DEF Uses
  <2>3. QED  BY <1>2, <2>1, <2>2, NoneLeft DEF TurnOk
<1>4. ASSUME NEW i \in Sub PROVE SubOk(sub[r][i], u, Lone(u), context)
  <2>1. SubOk(sub[r][i], turn[r], Lone(turn[r]), context) /\ sub[r][i].pc = "off"
    BY DEF Alone
  <2>2. QED  BY <2>1 DEF SubOk
<1>5. QED  BY <1>1, <1>3, <1>4, OnlyOne

\* A turn ends.
LEMMA TurnEnds ==
    ASSUME Types, Alone, NEW r \in Runner,
           turn' = [turn EXCEPT ![r] = Idle], turn[r].pc # "idle",
           \A i \in Sub : sub[r][i].pc = "off",
           UNCHANGED <<context, sub, origin, disturbed>>
    PROVE  Alone'
<1>1. turn'[r] = Idle /\ \A q \in Runner \ {r} : turn'[q] = turn[q] /\ sub'[q] = sub[q]
  BY DEF Types, Turns
<1>2. TurnOk(Idle, Lone(Idle), origin, context)
  <2>1. Idle.pc = "idle" /\ Idle.writes = <<>>
    BY DEF Idle
  <2> HIDE DEF Idle
  <2>2. QED  BY <2>1, NoneLeft DEF TurnOk
<1>3. ASSUME NEW i \in Sub PROVE SubOk(sub[r][i], Idle, Lone(Idle), context)
  <2>1. SubOk(sub[r][i], turn[r], Lone(turn[r]), context) /\ sub[r][i].pc = "off"
    BY DEF Alone
  <2>2. QED  BY <2>1 DEF SubOk
<1>4. Idle.pc = "idle"
  BY DEF Idle
<1> HIDE DEF Idle, Sub
<1>5. QED  BY <1>1, <1>2, <1>3, <1>4, OnlyOne

\* A step of a turn leaves lone turns with their own chats.
LEMMA TurnAlone ==
    ASSUME ConstantsAssumption, Types, Alone, NEW r \in Runner, TurnStep(r)
    PROVE  Alone'
<1> DEFINE t == turn[r]
<1>1. Fields /\ Turns(turns) /\ Subs(turns) /\ turns \in Nat
  BY Bounds DEF Types
<1>2. t \in TurnRecord(turns)
  BY <1>1 DEF Turns
<1>3. TurnOk(t, Lone(t), origin, context) /\ \A i \in Sub : SubOk(sub[r][i], t, Lone(t), context)
  BY DEF Alone
<1>4. t.pc # "wait" => \A i \in Sub : sub[r][i].pc = "off"
  BY <1>3 DEF SubOk
<1> DEFINE On(pc) == [t EXCEPT !.pc = pc]
<1>6. \A pc : /\ On(pc).pc = pc /\ On(pc).id = t.id /\ On(pc).addr = t.addr
              /\ On(pc).writes = t.writes /\ On(pc).tool = t.tool
  <2> TAKE pc
  <2>1. t \in [pc : TurnPc, id : 0 .. turns, addr : Address, writes : Writes,
               tool : Tool \cup {""}, calls : 0 .. MaxCalls]
    BY <1>2 DEF TurnRecord
  <2> HIDE DEF TurnPc, Address, Writes, Tool
  <2>2. QED  BY ONLY <2>1
<1>7. CASE TurnWrites(r)
  <2> DEFINE u == [t EXCEPT !.writes = Tail(t.writes)]
  <2>1. t.writes \in Seq(WriteRecord) /\ t.writes # <<>> /\ t.addr \in Address
    BY <1>2, <1>7, WritesAreRecords DEF TurnRecord, TurnWrites
  <2>2. /\ u.pc = t.pc /\ u.id = t.id /\ u.addr = t.addr /\ u.tool = t.tool
        /\ u.writes = Tail(t.writes)
    BY <1>2 DEF TurnRecord
  <2>3. turn' = [turn EXCEPT ![r] = u]
    BY <1>7 DEF TurnWrites
  <2> HIDE DEF u
  <2>4. turn'[r] = u /\ \A q \in Runner \ {r} : turn'[q] = turn[q] /\ sub'[q] = sub[q]
    BY <1>1, <1>7, <2>3 DEF Turns, TurnWrites
  <2>5. t.pc \in {"think", "call"}
    BY <1>3, <2>1 DEF TurnOk
  <2>6. ASSUME NEW tool \in Tool, Set(context, t.writes, tool, t.addr)
        PROVE  Set(context', u.writes, tool, u.addr)
    BY <1>1, <1>7, <2>1, <2>2, <2>6, SetAfterWrite DEF TurnWrites
  <2>7. \A tool \in Uses(t) : tool \in Tool
    BY <1>3 DEF TurnOk, Uses, Tool, MessageTool
  <2>8. \A k \in DOMAIN u.writes : u.writes[k].tool # "submessage"
    <3>1. \A k \in DOMAIN Tail(t.writes) :
            k + 1 \in DOMAIN t.writes /\ Tail(t.writes)[k] = t.writes[k + 1]
      BY <2>1, FirstWrite
    <3>2. \A k \in DOMAIN t.writes : t.writes[k].tool # "submessage"
      BY <1>3 DEF TurnOk
    <3>3. ASSUME NEW k \in DOMAIN Tail(t.writes) PROVE Tail(t.writes)[k].tool # "submessage"
      BY <3>1, <3>2
    <3>4. QED  BY <2>2, <3>3
  <2>9. Uses(u) = Uses(t)
    BY <2>2 DEF Uses
  <2>10. UNCHANGED <<origin, disturbed>>
    BY <1>7 DEF TurnWrites
  <2>11. TurnOk(u, Lone(u), origin, context')
    BY <1>3, <2>2, <2>5, <2>6, <2>7, <2>8, <2>9, <2>10 DEF TurnOk, Lone
  <2>12. ASSUME NEW i \in Sub PROVE SubOk(sub'[r][i], u, Lone(u), context')
    <3>1. sub' = sub /\ sub[r][i].pc = "off"
      BY <1>4, <1>7, <2>5 DEF TurnWrites
    <3>2. QED  BY <1>3, <3>1 DEF SubOk
  <2>13. QED  BY <2>2, <2>4, <2>5, <2>10, <2>11, <2>12, OnlyOne
<1>8. ASSUME NEW pc \in {"think", "sent", "wait", "reply"}, turn' = [turn EXCEPT ![r] = On(pc)],
             t.pc # "idle", t.writes = <<>>, \A i \in Sub : sub[r][i].pc = "off",
             UNCHANGED <<context, sub, origin, disturbed>>
      PROVE  Alone'
  <2>1. /\ On(pc).pc = pc /\ On(pc).id = t.id /\ On(pc).addr = t.addr
        /\ On(pc).writes = t.writes
    BY <1>6
  <2> HIDE DEF On
  <2>2. QED  BY <1>8, <2>1, TurnMoves
<1>9. CASE Refuse(r)
  <2>1. turn' = [turn EXCEPT ![r] = On("think")]
    BY <1>9 DEF Refuse
  <2>2. QED  BY <1>4, <1>8, <1>9, <2>1 DEF Refuse
<1>10. ASSUME NEW asked \in Targets, SendMessage(r, asked)
       PROVE  Alone'
  <2>1. turn' = [turn EXCEPT ![r] = On("sent")]
    BY <1>10 DEF SendMessage
  <2>2. QED  BY <1>4, <1>8, <1>10, <2>1 DEF SendMessage, Calling
<1>11. CASE MarkSent(r)
  <2>1. turn' = [turn EXCEPT ![r] = On("think")]
    BY <1>11 DEF MarkSent
  <2>2. t.writes = <<>>
    BY <1>3, <1>11 DEF MarkSent, TurnOk
  <2>3. QED  BY <1>4, <1>8, <1>11, <2>1, <2>2 DEF MarkSent
<1>12. CASE AddJob(r)
  <2>1. turn' = [turn EXCEPT ![r] = On("think")]
    BY <1>12 DEF AddJob
  <2>2. QED  BY <1>4, <1>8, <1>12, <2>1 DEF AddJob, Calling
<1>13. CASE Join(r)
  <2>1. turn' = [turn EXCEPT ![r] = On("think")]
    BY <1>13 DEF Join
  <2>2. t.writes = <<>>
    BY <1>3, <1>13 DEF Join, TurnOk
  <2>3. QED  BY <1>8, <1>13, <2>1, <2>2 DEF Join
<1>14. CASE Return(r)
  <2>1. CASE r = "loop"
    <3>1. turn' = [turn EXCEPT ![r] = On("reply")]
      BY <1>14, <2>1 DEF Return
    <3>2. QED  BY <1>4, <1>8, <1>14, <3>1 DEF Return
  <2>2. CASE r # "loop"
    <3>1. turn' = [turn EXCEPT ![r] = Idle]
      BY <1>14, <2>2 DEF Return
    <3>2. QED  BY <1>4, <1>14, <3>1, TurnEnds DEF Return
  <2>3. QED  BY <2>1, <2>2
<1>15. CASE r = "loop" /\ Reply
  BY <1>4, <1>15, TurnEnds DEF Reply
<1>16. ASSUME NEW tool \in {"message", "spawn", "cron"}, CallTool(r, tool)
       PROVE  Alone'
  <2> DEFINE u == [t EXCEPT !.pc = "call", !.tool = tool, !.writes = SetContext(tool),
                            !.calls = @ - 1]
  <2>1. turn' = [turn EXCEPT ![r] = u]
    BY <1>16 DEF CallTool
  <2>2. /\ u.pc = "call" /\ u.id = t.id /\ u.addr = t.addr /\ u.tool = tool
        /\ u.writes = SetContext(tool)
    BY <1>2 DEF TurnRecord
  <2> HIDE DEF u
  <2>3. turn'[r] = u /\ \A q \in Runner \ {r} : turn'[q] = turn[q] /\ sub'[q] = sub[q]
    BY <1>1, <1>16, <2>1 DEF Turns, CallTool
  <2>4. t.pc = "think" /\ t.writes = <<>> /\ UNCHANGED <<context, sub, origin, disturbed>>
    BY <1>16 DEF CallTool
  <2>5. /\ \A k \in DOMAIN SetContext(tool) : SetContext(tool)[k].tool = tool
        /\ \A f \in Field : ToBeSet(SetContext(tool), tool, f)
    BY SetContextSets DEF Tool, MessageTool
  <2>6. Set(context, SetContext(tool), tool, t.addr)
    BY <2>5 DEF Set
  <2>7. ASSUME Lone(t), NEW other \in {"message", "spawn"}
        PROVE  Set(context, SetContext(tool), other, t.addr)
    <3>1. Set(context, <<>>, other, t.addr)
      BY <1>3, <2>4, <2>7 DEF TurnOk, Uses
    <3>2. \A f \in Field : context[other][f] = t.addr[f]
      BY <3>1, NoneLeft DEF Set
    <3>3. QED  BY <3>2 DEF Set
  <2>8. TurnOk(u, Lone(u), origin, context)
    <3>1. Lone(u) => Lone(t)
      BY <2>2 DEF Lone
    <3>2. Uses(u) = {"message", "spawn"} \cup {tool}
      BY <2>2 DEF Uses
    <3>3. Lone(u) => \A x \in Uses(u) : Set(context, u.writes, x, u.addr)
      BY <2>2, <2>6, <2>7, <3>1, <3>2
    <3>4. \A k \in DOMAIN u.writes : u.writes[k].tool # "submessage"
      BY <2>2, <2>5
    <3>5. QED  BY <1>3, <2>2, <2>4, <3>3, <3>4 DEF TurnOk
  <2>9. ASSUME NEW i \in Sub PROVE SubOk(sub[r][i], u, Lone(u), context)
    <3>1. sub[r][i].pc = "off"
      BY <1>4, <2>4
    <3>2. QED  BY <1>3, <3>1 DEF SubOk
  <2>10. QED  BY <2>2, <2>3, <2>4, <2>8, <2>9, OnlyOne
<1>17. ASSUME NEW n \in Sub, Spawn(r, n)
       PROVE  Alone'
  <2> DEFINE u == On("wait")
             s == [Off EXCEPT !.pc = "start", !.id = t.id]
             ss == [i \in Sub |-> IF i <= n THEN s ELSE Off]
  <2>1. turn' = [turn EXCEPT ![r] = u]
    BY <1>17 DEF Spawn
  <2>2. u.pc = "wait" /\ u.id = t.id /\ u.addr = t.addr /\ u.writes = t.writes
    BY <1>6
  <2> HIDE DEF On
  <2>3. sub' = [sub EXCEPT ![r] = ss]
    BY <1>17 DEF Spawn
  <2>4. /\ s.pc = "start" /\ s.id = t.id /\ s.writes = <<>>
        /\ Off.pc = "off" /\ Off.writes = <<>>
    BY DEF Off
  <2> HIDE DEF s, Off, Sub
  <2>5. \A i \in Sub : ss[i] = s \/ ss[i] = Off
    OBVIOUS
  <2> HIDE DEF ss
  <2>6. /\ turn'[r] = u /\ sub'[r] = ss
        /\ \A q \in Runner \ {r} : turn'[q] = turn[q] /\ sub'[q] = sub[q]
    BY <1>1, <2>1, <2>3 DEF Turns, Subs
  <2>7. t.pc = "call" /\ t.writes = <<>> /\ UNCHANGED <<context, origin, disturbed>>
    BY <1>17 DEF Spawn, Calling
  <2>8. TurnOk(u, Lone(u), origin, context)
    BY <1>3, <2>2, <2>7 DEF TurnOk, Uses, Lone
  <2>9. SubOk(s, u, Lone(u), context) /\ SubOk(Off, u, Lone(u), context)
    BY <2>2, <2>4, NoneLeft DEF SubOk
  <2>10. \A i \in Sub : SubOk(sub'[r][i], u, Lone(u), context)
    BY <2>5, <2>6, <2>9
  <2>11. QED  BY <2>2, <2>6, <2>7, <2>8, <2>10, OnlyOne
<1>18. QED
  BY <1>7, <1>9, <1>10, <1>11, <1>12, <1>13, <1>14, <1>15, <1>16, <1>17 DEF TurnStep

\* ... and so does a step of a subagent ...
LEMMA SubAlone ==
    ASSUME ConstantsAssumption, Types, Alone, NEW r \in Runner, NEW i \in Sub, SubStep(r, i)
    PROVE  Alone'
<1> DEFINE t == turn[r]
           s == sub[r][i]
<1>1. Fields /\ Turns(turns) /\ Subs(turns) /\ turns \in Nat
  BY Bounds DEF Types
<1> HIDE DEF Sub
<1>2. s \in SubRecord(turns) /\ t \in TurnRecord(turns)
  BY <1>1 DEF Subs, Turns
<1>3. TurnOk(t, Lone(t), origin, context) /\ \A j \in Sub : SubOk(sub[r][j], t, Lone(t), context)
  BY DEF Alone
<1>4. t.pc = "wait"
  <2>1. s.pc # "off"
    <3>1. s.writes # <<>> => s.pc = "call"
      BY <1>3 DEF SubOk
    <3>2. QED
      BY <3>1 DEF SubStep, SubStart, SubCall, SubWrites, SubSend, SubMarkSent, SubDone
  <2>2. QED  BY <1>3, <2>1 DEF SubOk
<1>5. UNCHANGED <<turn, turns, origin, disturbed>>
  BY DEF SubStep, SubStart, SubCall, SubWrites, SubSend, SubMarkSent, SubDone
<1> DEFINE On(pc) == [s EXCEPT !.pc = pc]
\* It is enough to look at the subagent, when the tools keep their fields
<1>6. ASSUME NEW v, sub' = [sub EXCEPT ![r][i] = v], SubOk(v, t, Lone(t), context), UNCHANGED context
      PROVE  Alone'
  <2>1. /\ \A j \in Sub : sub'[r][j] = IF j = i THEN v ELSE sub[r][j]
        /\ \A q \in Runner \ {r} : turn'[q] = turn[q] /\ sub'[q] = sub[q]
        /\ turn'[r] = t
    BY <1>1, <1>5, <1>6 DEF Subs
  <2>2. \A j \in Sub : SubOk(sub'[r][j], turn'[r], Lone(turn'[r]), context')
    BY <1>3, <1>6, <2>1
  <2>3. QED  BY <1>3, <1>4, <1>5, <1>6, <2>1, <2>2, OnlyOne
<1>7. ASSUME NEW pc \in {"think", "sent"}, s.pc \notin {"off", "start"}, s.writes = <<>>,
             sub' = [sub EXCEPT ![r][i] = On(pc)], UNCHANGED context
      PROVE  Alone'
  <2>1. On(pc).pc = pc /\ On(pc).id = s.id /\ On(pc).addr = s.addr /\ On(pc).writes = s.writes
    BY <1>2 DEF SubRecord
  <2> HIDE DEF On
  <2>2. SubOk(On(pc), t, Lone(t), context)
    BY <1>3, <1>7, <2>1 DEF SubOk
  <2>3. QED  BY <1>6, <1>7, <2>2
<1>8. CASE SubStart(r, i)
  <2> DEFINE v == [s EXCEPT !.pc = "think", !.addr = context["spawn"], !.calls = MaxSubCalls]
  <2>1. /\ v.pc = "think" /\ v.id = s.id /\ v.addr = context["spawn"] /\ v.writes = s.writes
    BY <1>2 DEF SubRecord
  <2>2. sub' = [sub EXCEPT ![r][i] = v]
    BY <1>8 DEF SubStart
  <2> HIDE DEF v
  <2>3. Lone(t) => Set(context, <<>>, "spawn", t.addr)
    BY <1>3, <1>4 DEF TurnOk, Uses
  <2>4. Lone(t) => \A f \in Field : context["spawn"][f] = t.addr[f]
    BY <2>3, NoneLeft DEF Set
  <2>5. context["spawn"] \in Address /\ t.addr \in Address
    BY <1>1, <1>2 DEF Fields, Tool, TurnRecord
  <2>6. Lone(t) => context["spawn"] = t.addr
    BY <2>4, <2>5, SameFields
  <2>7. SubOk(v, t, Lone(t), context)
    BY <1>3, <1>4, <1>8, <2>1, <2>6 DEF SubOk, SubStart
  <2>8. QED  BY <1>6, <1>8, <2>2, <2>7 DEF SubStart
<1>9. CASE SubCall(r, i)
  <2> DEFINE v == [s EXCEPT !.pc = "call", !.calls = @ - 1, !.writes = SetContext("submessage")]
  <2>1. /\ v.pc = "call" /\ v.id = s.id /\ v.addr = s.addr
        /\ v.writes = SetContext("submessage")
    BY <1>2 DEF SubRecord
  <2>2. sub' = [sub EXCEPT ![r][i] = v]
    BY <1>9 DEF SubCall
  <2> HIDE DEF v
  <2>3. /\ \A k \in DOMAIN SetContext("submessage") :
             SetContext("submessage")[k].tool = "submessage"
        /\ \A f \in Field : ToBeSet(SetContext("submessage"), "submessage", f)
    BY SetContextSets DEF Tool, MessageTool
  <2>4. SubOk(v, t, Lone(t), context)
    BY <1>3, <1>4, <1>9, <2>1, <2>3 DEF SubOk, SubCall, Set
  <2>5. QED  BY <1>6, <1>9, <2>2, <2>4 DEF SubCall
<1>10. ASSUME NEW asked \in Targets, SubSend(r, i, asked)
       PROVE  Alone'
  <2>1. sub' = [sub EXCEPT ![r][i] = On("think")] \/ sub' = [sub EXCEPT ![r][i] = On("sent")]
    BY <1>10 DEF SubSend
  <2>2. QED  BY <1>7, <1>10, <2>1 DEF SubSend
<1>11. CASE SubMarkSent(r, i)
  <2>1. sub' = [sub EXCEPT ![r][i] = On("think")]
    BY <1>11 DEF SubMarkSent
  <2>2. s.writes = <<>>
    BY <1>3, <1>11 DEF SubOk, SubMarkSent
  <2>3. QED  BY <1>7, <1>11, <2>1, <2>2 DEF SubMarkSent
<1>12. CASE SubDone(r, i)
  <2>1. Off.pc = "off" /\ Off.writes = <<>>
    BY DEF Off
  <2>2. sub' = [sub EXCEPT ![r][i] = Off] /\ UNCHANGED context
    BY <1>12 DEF SubDone
  <2> HIDE DEF Off
  <2>3. SubOk(Off, t, Lone(t), context)
    BY <2>1, NoneLeft DEF SubOk
  <2>4. QED  BY <1>6, <2>2, <2>3
<1>13. CASE SubWrites(r, i)
  <2> DEFINE v == [s EXCEPT !.writes = Tail(s.writes)]
             w == Head(s.writes)
  <2>1. s.writes \in Seq(WriteRecord) /\ s.writes # <<>> /\ s.addr \in Address
    BY <1>2, <1>13, WritesAreRecords DEF SubRecord, SubWrites
  <2>2. v.pc = s.pc /\ v.id = s.id /\ v.addr = s.addr /\ v.writes = Tail(s.writes)
    BY <1>2 DEF SubRecord
  <2>3. sub' = [sub EXCEPT ![r][i] = v] /\ Write(w, s.addr)
    BY <1>13 DEF SubWrites
  <2>4. s.pc = "call"
    BY <1>3, <2>1 DEF SubOk
  <2>5. w.tool = "submessage" /\ w \in WriteRecord
    <3>1. w \in WriteRecord /\ 1 \in DOMAIN s.writes /\ w = s.writes[1]
      BY <2>1, FirstWrite
    <3>2. \A k \in DOMAIN s.writes : s.writes[k].tool = "submessage"
      BY <1>3 DEF SubOk
    <3> HIDE DEF w
    <3>3. QED  BY <3>1, <3>2
  <2>6. \A k \in DOMAIN v.writes : v.writes[k].tool = "submessage"
    <3>1. \A k \in DOMAIN Tail(s.writes) :
            k + 1 \in DOMAIN s.writes /\ Tail(s.writes)[k] = s.writes[k + 1]
      BY <2>1, FirstWrite
    <3>2. \A k \in DOMAIN s.writes : s.writes[k].tool = "submessage"
      BY <1>3 DEF SubOk
    <3>3. ASSUME NEW k \in DOMAIN Tail(s.writes) PROVE Tail(s.writes)[k].tool = "submessage"
      BY <3>1, <3>2
    <3>4. QED  BY <2>2, <3>3
  <2> HIDE DEF v, w
  <2>7. /\ context'["submessage"] = Written(context["submessage"], w.fields, s.addr)
        /\ \A tool \in {"message", "spawn"} : context'[tool] = context[tool]
    BY <1>1, <2>3, <2>5 DEF Write, Fields, Tool, MessageTool
  <2>8. TurnOk(t, Lone(t), origin, context')
    <3>1. Lone(t) => \A tool \in Uses(t) : Set(context', t.writes, tool, t.addr)
      <4>1. \A tool \in Uses(t) : context'[tool] = context[tool]
        BY <1>4, <2>7 DEF Uses
      <4>2. Lone(t) => \A tool \in Uses(t) : Set(context, t.writes, tool, t.addr)
        BY <1>3, <1>4 DEF TurnOk
      <4>3. QED  BY <4>1, <4>2 DEF Set
    <3>2. QED  BY <1>3, <3>1 DEF TurnOk
  <2>9. SubOk(v, t, Lone(t), context')
    <3>1. Lone(t) => Set(context', Tail(s.writes), "submessage", s.addr)
      <4>1. Lone(t) => Set(context, s.writes, "submessage", s.addr)
        BY <1>3, <2>4 DEF SubOk
      <4>2. QED  BY <1>1, <2>1, <2>3, <4>1, SetAfterWrite DEF w, Tool, MessageTool
    <3>2. QED  BY <1>3, <2>2, <2>4, <2>6, <3>1 DEF SubOk
  <2>10. ASSUME NEW j \in Sub, j # i PROVE SubOk(sub[r][j], t, Lone(t), context')
    <3>1. SubOk(sub[r][j], t, Lone(t), context)
      BY <1>3
    <3>2. CASE sub[r][j].pc = "call" /\ Lone(t)
      <4>1. sub[r][j].addr = s.addr
        BY <1>3, <2>4, <3>1, <3>2 DEF SubOk
      <4>2. \A f \in Field :
              context'["submessage"][f] = s.addr[f]
                \/ context'["submessage"][f] = context["submessage"][f]
        BY <2>7 DEF Written, Field
      <4>3. Set(context', sub[r][j].writes, "submessage", s.addr)
        BY <3>1, <3>2, <4>1, <4>2 DEF SubOk, Set
      <4>4. QED  BY <3>1, <4>1, <4>3 DEF SubOk
    <3>3. CASE ~(sub[r][j].pc = "call" /\ Lone(t))
      BY <3>1, <3>3 DEF SubOk
    <3>4. QED  BY <3>2, <3>3
  <2>11. /\ \A j \in Sub : sub'[r][j] = IF j = i THEN v ELSE sub[r][j]
         /\ \A q \in Runner \ {r} : turn'[q] = turn[q] /\ sub'[q] = sub[q]
         /\ turn'[r] = t
    BY <1>1, <1>5, <2>3 DEF Subs
  <2>12. \A j \in Sub : SubOk(sub'[r][j], turn'[r], Lone(turn'[r]), context')
    BY <2>9, <2>10, <2>11
  <2>13. QED  BY <1>4, <1>5, <2>8, <2>11, <2>12, OnlyOne
<1>14. QED  BY <1>8, <1>9, <1>10, <1>11, <1>12, <1>13 DEF SubStep

\* ... and a turn that begins: one beside it becomes disturbed, and so does this.
LEMMA BeginAlone ==
    ASSUME ConstantsAssumption, Types, Alone, NEW r \in Runner, NEW addr \in Chats,
           Begin(r, addr)
    PROVE  Alone'
<1>1. /\ turn[r].pc = "idle"
      /\ \A q \in Runner : turn[q].pc # "idle" =>
           turn[q].id \in disturbed' /\ turns + 1 \in disturbed'
  <2> DEFINE beside == {turn[q].id : q \in {p \in Runner : turn[p].pc # "idle"}}
  <2>1. /\ turn[r].pc = "idle"
        /\ disturbed' = IF beside = {} THEN disturbed ELSE disturbed \cup beside \cup {turns + 1}
    BY DEF Begin
  <2>2. \A q \in Runner : turn[q].pc # "idle" => turn[q].id \in beside
    OBVIOUS
  <2> HIDE DEF beside
  <2>3. QED  BY <2>1, <2>2
<1>2. Turns(turns) /\ Begun /\ turns \in Nat
  BY Bounds DEF Types
<1> DEFINE both == SetContext("message") \o SetContext("spawn")
           u == [Idle EXCEPT !.pc = "think", !.id = turns + 1, !.addr = addr,
                             !.writes = both, !.calls = MaxCalls]
<1>3. turn' = [turn EXCEPT ![r] = u]
  BY DEF Begin
<1>4. u.pc = "think" /\ u.id = turns + 1 /\ u.addr = addr /\ u.writes = both
  BY DEF Idle
<1> HIDE DEF u
<1>5. turn'[r] = u /\ \A q \in Runner \ {r} : turn'[q] = turn[q] /\ sub'[q] = sub[q]
  BY <1>2, <1>3 DEF Turns, Begin
<1>6. sub' = sub /\ context' = context /\ turns' = turns + 1 /\ origin' = Append(origin, addr)
  BY DEF Begin
<1>7. turns' > 0 /\ origin'[turns'] = addr /\ \A n \in 1 .. turns : origin'[n] = origin[n]
  <2>1. origin'[Len(origin) + 1] = addr
    BY <1>2, <1>6, AppendProperties DEF Begun
  <2>2. Len(origin) + 1 = turns' /\ turns' > 0
    <3>1. Len(origin) = turns
      BY <1>2 DEF Begun
    <3>2. QED  BY ONLY <1>2, <1>6, <3>1
  <2>3. \A n \in 1 .. turns : origin'[n] = origin[n]
    <3>1. origin \in Seq(Chats) /\ Len(origin) = turns
      BY <1>2 DEF Begun
    <3>2. QED  BY ONLY <1>6, <3>1, AppendProperties, addr \in Chats
  <2>4. QED  BY <2>1, <2>2, <2>3
<1>8. /\ \A k \in DOMAIN both : both[k].tool \in {"message", "spawn"}
      /\ \A tool \in {"message", "spawn"}, f \in Field : ToBeSet(both, tool, f)
  <2> DEFINE m == SetContext("message")
             s == SetContext("spawn")
  <2>1. /\ m \in Seq(WriteRecord) /\ \A k \in DOMAIN m : m[k].tool = "message"
        /\ \A f \in Field : ToBeSet(m, "message", f)
    BY SetContextSets DEF Tool, MessageTool
  <2>2. /\ s \in Seq(WriteRecord) /\ \A k \in DOMAIN s : s[k].tool = "spawn"
        /\ \A f \in Field : ToBeSet(s, "spawn", f)
    BY SetContextSets DEF Tool, MessageTool
  <2> HIDE DEF m, s
  <2>3. \A k \in DOMAIN (m \o s) : (\E i \in DOMAIN m : (m \o s)[k] = m[i])
                                   \/ (\E i \in DOMAIN s : (m \o s)[k] = s[i])
    BY <2>1, <2>2, BothWrites
  <2>4. \A k \in DOMAIN (m \o s) : (m \o s)[k].tool \in {"message", "spawn"}
    <3> TAKE k \in DOMAIN (m \o s)
    <3> DEFINE w == (m \o s)[k]
    <3>1. (\E i \in DOMAIN m : w = m[i]) \/ (\E i \in DOMAIN s : w = s[i])
      BY <2>3
    <3> HIDE DEF w
    <3>2. w.tool \in {"message", "spawn"}
      BY <2>1, <2>2, <3>1
    <3>3. QED  BY <3>2 DEF w
  <2>5. \A tool, f : ToBeSet(m, tool, f) \/ ToBeSet(s, tool, f) => ToBeSet(m \o s, tool, f)
    BY <2>1, <2>2, BothWrites
  <2>6. \A tool \in {"message", "spawn"}, f \in Field : ToBeSet(m \o s, tool, f)
    BY <2>1, <2>2, <2>5
  <2>7. QED  BY <2>4, <2>6 DEF m, s
<1> HIDE DEF both
<1>9. TurnOk(u, Lone(turn[r])', origin', context')
  <2>1. \A tool \in Uses(u) : Set(context', both, tool, addr)
    BY <1>4, <1>8 DEF Uses, Set
  <2>2. \A k \in DOMAIN both : both[k].tool # "submessage"
    BY <1>8
  <2>3. QED  BY <1>4, <1>6, <1>7, <2>1, <2>2 DEF TurnOk
<1>10. ASSUME NEW i \in Sub PROVE SubOk(sub'[r][i], u, Lone(turn[r])', context')
  <2>1. SubOk(sub[r][i], turn[r], Lone(turn[r]), context) /\ turn[r].pc = "idle"
    BY <1>1 DEF Alone
  <2>2. QED  BY <1>6, <2>1 DEF SubOk
<1>11. \A q \in Runner \ {r} : turn[q].pc # "idle" =>
         turn[q].id \in disturbed' /\ turn'[r].id \in disturbed'
  BY <1>1, <1>4, <1>5
<1>12. QED  BY <1>5, <1>7, <1>9, <1>10, <1>11, OneProcess

\* Every step leaves lone turns with their own chats.
LEMMA AloneKept ==
    ASSUME ConstantsAssumption, Types, Alone, [Next]_vars
    PROVE  Alone'
<1>1. CASE UNCHANGED vars
  BY <1>1 DEF vars, Alone, Lone
<1>2. ASSUME NEW a \in Addresses, Begin("loop", a) PROVE Alone'
  BY <1>2, BeginAlone DEF Chats, Runner
<1>3. ASSUME NEW a \in JobAddresses, Begin("cron", a) PROVE Alone'
  BY <1>3, BeginAlone DEF Chats, Runner
<1>4. QED  BY <1>1, <1>2, <1>3, TurnAlone, SubAlone DEF Next

\* At the start nothing runs.
LEMMA AloneAtStart == ASSUME Init PROVE Alone
<1>1. Idle.pc = "idle" /\ Idle.writes = <<>> /\ Off.pc = "off" /\ Off.writes = <<>>
  BY DEF Idle, Off
<1> HIDE DEF Idle, Off, Sub
<1>2. TurnOk(Idle, Lone(Idle), origin, context) /\ SubOk(Off, Idle, Lone(Idle), context)
  BY <1>1, NoneLeft DEF TurnOk, SubOk
<1>3. /\ \A r \in Runner : turn[r] = Idle
      /\ \A r \in Runner, i \in Sub : sub[r][i] = Off
  BY DEF Init
<1>4. QED  BY <1>1, <1>2, <1>3 DEF Alone

\* The invariant of turns and their subagents
LEMMA AloneAlways == Spec => [](Types /\ Alone)
<1>1. Init => Types /\ Alone
  BY InitTypes, AloneAtStart, ConstantsAssumption
<1>2. Types /\ Alone /\ [Next]_vars => (Types /\ Alone)'
  BY TypesKept, AloneKept, ConstantsAssumption
<1>3. QED  BY <1>1, <1>2, PTL DEF Spec

-----------------------------------------------------------------------------
\* Only a beginning changes where turns came from, and which are disturbed.
LEMMA OriginStays ==
    ASSUME ConstantsAssumption, Types, [Next]_vars
    PROVE  /\ \A n \in 1 .. turns : origin'[n] = origin[n]
           /\ disturbed \subseteq disturbed'
<1> DEFINE Same == UNCHANGED <<origin, disturbed>>
           Kept == /\ \A n \in 1 .. turns : origin'[n] = origin[n]
                   /\ disturbed \subseteq disturbed'
<1>1. ASSUME NEW r \in Runner, TurnStep(r) PROVE Same
  <2>1. TurnWrites(r) \/ Refuse(r) \/ MarkSent(r) \/ AddJob(r) => Same
    BY DEF TurnWrites, Refuse, MarkSent, AddJob
  <2>2. Join(r) \/ Return(r) \/ Reply => Same
    BY DEF Join, Return, Reply
  <2>3. \A x : CallTool(r, x) \/ Spawn(r, x) \/ SendMessage(r, x) => Same
    BY DEF CallTool, Spawn, SendMessage
  <2> HIDE DEF Same
  <2>4. QED  BY <1>1, <2>1, <2>2, <2>3 DEF TurnStep
<1>2. ASSUME NEW r \in Runner, NEW i \in Sub, SubStep(r, i) PROVE Same
  BY <1>2 DEF SubStep, SubStart, SubCall, SubWrites, SubSend, SubMarkSent, SubDone
<1>3. ASSUME NEW r \in Runner, NEW a \in Chats, Begin(r, a)
      PROVE  Kept
  <2>1. origin \in Seq(Chats) /\ Len(origin) = turns
    BY DEF Types, Begun
  <2>2. origin' = Append(origin, a) /\ disturbed \subseteq disturbed'
    BY <1>3 DEF Begin
  <2>3. \A n \in 1 .. turns : origin'[n] = origin[n]
    BY ONLY <2>1, <2>2, AppendProperties, a \in Chats
  <2>4. QED  BY <2>2, <2>3
<1>4. ASSUME NEW a \in Addresses, Begin("loop", a) PROVE Kept
  BY <1>3, <1>4 DEF Chats, Runner
<1>5. ASSUME NEW a \in JobAddresses, Begin("cron", a) PROVE Kept
  BY <1>3, <1>5 DEF Chats, Runner
<1>6. UNCHANGED vars => Same
  BY DEF vars
<1>7. Same => Kept
  OBVIOUS
<1> HIDE DEF Same, Kept
<1>8. Kept
  BY <1>1, <1>2, <1>4, <1>5, <1>6, <1>7 DEF Next
<1>9. QED  BY <1>8 DEF Kept

\* A message, or a job, of a lone turn is for the chat the turn came from; a message may be asked
\* to go elsewhere.
MessageHome(m) == Lone([id |-> m.turn]) => m.to = Target(m.asked, origin[m.turn])
JobHome(j) == Lone([id |-> j.turn]) => j.to = origin[j.turn]

\* What is sent, and which jobs are added, in a step.
LEMMA SentInAStep ==
    ASSUME ConstantsAssumption, Types, Alone, [Next]_vars
    PROVE  /\ delivered \subseteq delivered'
           /\ \A m \in delivered' : m \in delivered \/ MessageHome(m)
           /\ \A j \in jobs' : j \in jobs \/ JobHome(j)
           /\ UNCHANGED <<delivered, jobs>> \/ UNCHANGED <<origin, disturbed>>
<1>1. Fields /\ Turns(turns) /\ Subs(turns)
  BY DEF Types
\* A tool with the chat of the turn, when no writes are left
<1>2. ASSUME NEW a \in Address, NEW tool \in Tool, Set(context, <<>>, tool, a)
      PROVE  context[tool] = a
  <2>1. context[tool] \in Address
    BY <1>1 DEF Fields
  <2>2. \A f \in Field : context[tool][f] = a[f]
    BY <1>2, NoneLeft DEF Set
  <2>3. QED  BY <2>1, <2>2, SameFields
<1>3. ASSUME NEW r \in Runner, turn[r].pc # "idle"
      PROVE  /\ turn[r].addr = origin[turn[r].id] /\ turn[r].addr \in Address
             /\ \A tool \in Uses(turn[r]) :
                  Lone(turn[r]) /\ turn[r].writes = <<>> /\ tool \in Tool
                    => context[tool] = turn[r].addr
  <2>1. TurnOk(turn[r], Lone(turn[r]), origin, context) /\ turn[r] \in TurnRecord(turns)
    BY <1>1 DEF Alone, Turns
  <2>2. turn[r].addr \in Address
    BY <2>1 DEF TurnRecord
  <2>3. QED  BY <1>2, <1>3, <2>1, <2>2 DEF TurnOk
<1> DEFINE Good == /\ delivered \subseteq delivered'
                   /\ \A m \in delivered' : m \in delivered \/ MessageHome(m)
                   /\ \A j \in jobs' : j \in jobs \/ JobHome(j)
                   /\ UNCHANGED <<delivered, jobs>> \/ UNCHANGED <<origin, disturbed>>
<1>4. ASSUME NEW r \in Runner, NEW asked \in Targets, SendMessage(r, asked) PROVE Good
  <2> DEFINE m == [turn |-> turn[r].id, by |-> "message", asked |-> asked,
                   to |-> Target(asked, context["message"])]
  <2>1. turn[r].pc = "call" /\ turn[r].tool = "message" /\ turn[r].writes = <<>>
    BY <1>4 DEF SendMessage, Calling
  <2>2. delivered' = delivered \cup {m} /\ UNCHANGED <<jobs, origin, disturbed>>
    BY <1>4 DEF SendMessage, Deliver
  <2>3. Lone(turn[r]) => context["message"] = origin[turn[r].id]
    BY <1>3, <2>1 DEF Uses, Tool, MessageTool
  <2>4. MessageHome(m)
    BY <2>3 DEF MessageHome, Lone
  <2> HIDE DEF m, MessageHome
  <2>5. QED  BY <2>2, <2>4
<1>5. ASSUME NEW r \in Runner, AddJob(r) PROVE Good
  <2> DEFINE j == [turn |-> turn[r].id, to |-> context["cron"]]
  <2>1. turn[r].pc = "call" /\ turn[r].tool = "cron" /\ turn[r].writes = <<>>
    BY <1>5 DEF AddJob, Calling
  <2>2. jobs' = jobs \cup {j} /\ UNCHANGED <<delivered, origin, disturbed>>
    BY <1>5 DEF AddJob
  <2>3. Lone(turn[r]) => context["cron"] = origin[turn[r].id]
    BY <1>3, <2>1 DEF Uses, Tool
  <2>4. JobHome(j)
    BY <2>3 DEF JobHome, Lone
  <2> HIDE DEF j, JobHome
  <2>5. QED  BY <2>2, <2>4
<1>6. ASSUME Reply PROVE Good
  <2> DEFINE m == [turn |-> turn["loop"].id, by |-> "answer", asked |-> NoAddress,
                   to |-> turn["loop"].addr]
  <2>1. turn["loop"].pc = "reply" /\ "loop" \in Runner
    BY <1>6 DEF Reply, Runner
  <2>2. /\ delivered' = delivered \/ delivered' = delivered \cup {m}
        /\ UNCHANGED <<jobs, origin, disturbed>>
    BY <1>6 DEF Reply, Deliver
  <2>3. turn["loop"].addr = origin[turn["loop"].id] /\ turn["loop"].addr \in Address
    BY <1>3, <2>1
  <2>4. Target(NoAddress, turn["loop"].addr) = turn["loop"].addr
    BY <2>3, TargetIsAddress, ChatsAreAddresses
  <2>5. MessageHome(m)
    BY <2>3, <2>4 DEF MessageHome
  <2> HIDE DEF m, MessageHome
  <2>6. QED  BY <2>2, <2>5
<1>7. ASSUME NEW r \in Runner, NEW i \in Sub, NEW asked \in Targets, SubSend(r, i, asked)
      PROVE  Good
  <2> HIDE DEF Sub
  <2> DEFINE m == [turn |-> sub[r][i].id, by |-> "submessage", asked |-> asked,
                   to |-> Target(asked, context["submessage"])]
  <2>1. sub[r][i].pc = "call" /\ sub[r][i].writes = <<>>
    BY <1>7 DEF SubSend
  <2>2. /\ delivered' = delivered \/ delivered' = delivered \cup {m}
        /\ UNCHANGED <<jobs, origin, disturbed>>
    BY <1>7 DEF SubSend, Deliver
  <2>3. SubOk(sub[r][i], turn[r], Lone(turn[r]), context)
    BY DEF Alone
  <2>4. turn[r].pc = "wait" /\ sub[r][i].id = turn[r].id
    BY <2>1, <2>3 DEF SubOk
  <2>5. Lone(turn[r]) => sub[r][i].addr = turn[r].addr
                           /\ Set(context, <<>>, "submessage", turn[r].addr)
    BY <2>1, <2>3 DEF SubOk
  <2>6. turn[r].addr = origin[turn[r].id] /\ turn[r].addr \in Address
    BY <1>3, <2>4
  <2>7. Lone(turn[r]) => context["submessage"] = origin[sub[r][i].id]
    BY <1>2, <2>4, <2>5, <2>6 DEF Tool, MessageTool
  <2>8. MessageHome(m)
    BY <2>4, <2>7 DEF MessageHome, Lone
  <2> HIDE DEF m, MessageHome
  <2>9. QED  BY <2>2, <2>8
<1>8. ASSUME UNCHANGED <<delivered, jobs>> PROVE Good
  BY <1>8
<1>9. ASSUME NEW r \in Runner, TurnStep(r) PROVE Good
  <2>1. TurnWrites(r) \/ Refuse(r) \/ MarkSent(r) \/ Join(r) \/ Return(r)
          => UNCHANGED <<delivered, jobs>>
    BY DEF TurnWrites, Refuse, MarkSent, Join, Return
  <2>2. \A x : CallTool(r, x) \/ Spawn(r, x) => UNCHANGED <<delivered, jobs>>
    BY DEF CallTool, Spawn
  <2> HIDE DEF Good
  <2>3. QED  BY <1>4, <1>5, <1>6, <1>8, <1>9, <2>1, <2>2 DEF TurnStep
<1>10. ASSUME NEW r \in Runner, NEW i \in Sub, SubStep(r, i) PROVE Good
  <2>1. SubStart(r, i) \/ SubCall(r, i) \/ SubWrites(r, i) \/ SubMarkSent(r, i) \/ SubDone(r, i)
          => UNCHANGED <<delivered, jobs>>
    BY DEF SubStart, SubCall, SubWrites, SubMarkSent, SubDone
  <2> HIDE DEF Good
  <2>2. QED  BY <1>7, <1>8, <1>10, <2>1 DEF SubStep
<1>11. \A r, a : Begin(r, a) => UNCHANGED <<delivered, jobs>>
  BY DEF Begin
<1>12. UNCHANGED vars => UNCHANGED <<delivered, jobs>>
  BY DEF vars
<1> HIDE DEF Good
<1>13. Good
  BY <1>8, <1>9, <1>10, <1>11, <1>12 DEF Next
<1>14. QED  BY <1>13 DEF Good

\* All that a turn, its message tool or its subagents send goes to the chat that the model named,
\* or else to the one the turn came from, although the tools are shared (message.go, spawn.go,
\* registry.go:58), unless another turn ran beside it.
THEOREM EverythingToItsChat == Spec => []OwnChat
<1>1. Init => OwnChat
  BY DEF Init, OwnChat
<1>2. ASSUME Types, Alone, OwnChat, [Next]_vars PROVE OwnChat'
  <2>1. \A m \in delivered : m.turn \in 1 .. turns
    BY <1>2 DEF Types, Sent
  <2>2. /\ \A m \in delivered' : m \in delivered \/ MessageHome(m)
        /\ UNCHANGED delivered \/ UNCHANGED <<origin, disturbed>>
    BY <1>2, SentInAStep, ConstantsAssumption
  <2>3. /\ \A n \in 1 .. turns : origin'[n] = origin[n]
        /\ disturbed \subseteq disturbed'
    BY <1>2, OriginStays, ConstantsAssumption
  <2>4. ASSUME NEW m \in delivered', m.turn \notin disturbed'
        PROVE  m.to = Target(m.asked, origin'[m.turn])
    <3>1. CASE m \in delivered
      BY <1>2, <2>1, <2>3, <2>4, <3>1 DEF OwnChat
    <3>2. CASE m \notin delivered
      BY <2>2, <2>4, <3>2 DEF MessageHome, Lone
    <3>3. QED  BY <3>1, <3>2
  <2>5. QED  BY <2>4 DEF OwnChat, Target
<1>3. QED  BY <1>1, <1>2, AloneAlways, PTL DEF Spec

\* ... and a job reports to the chat of the turn that added it (cron.go), with the same exception.
THEOREM JobsToTheirChat == Spec => []JobsReportToTheirChat
<1>1. Init => JobsReportToTheirChat
  BY DEF Init, JobsReportToTheirChat
<1>2. ASSUME Types, Alone, JobsReportToTheirChat, [Next]_vars PROVE JobsReportToTheirChat'
  <2>1. \A j \in jobs : j.turn \in 1 .. turns
    BY <1>2 DEF Types, Sent
  <2>2. /\ \A j \in jobs' : j \in jobs \/ JobHome(j)
        /\ UNCHANGED jobs \/ UNCHANGED <<origin, disturbed>>
    BY <1>2, SentInAStep, ConstantsAssumption
  <2>3. /\ \A n \in 1 .. turns : origin'[n] = origin[n]
        /\ disturbed \subseteq disturbed'
    BY <1>2, OriginStays, ConstantsAssumption
  <2>4. ASSUME NEW j \in jobs', j.turn \notin disturbed' PROVE j.to = origin'[j.turn]
    <3>1. CASE j \in jobs
      BY <1>2, <2>1, <2>3, <2>4, <3>1 DEF JobsReportToTheirChat
    <3>2. CASE j \notin jobs
      BY <2>2, <2>4, <3>2 DEF JobHome, Lone
    <3>3. QED  BY <3>1, <3>2
  <2>5. QED  BY <2>4 DEF JobsReportToTheirChat
<1>3. QED  BY <1>1, <1>2, AloneAlways, PTL DEF Spec

-----------------------------------------------------------------------------
\* The first of some writes: a flag that is not reset by it is as it was, and one that is to be
\* reset is reset or still to be.
LEMMA FlagAfterWrite ==
    ASSUME Fields, NEW s \in Seq(WriteRecord), s # <<>>, NEW addr, Write(Head(s), addr)
    PROVE  /\ sentInRound'["message"] => sentInRound["message"]
           /\ ToBeReset(s) => ToBeReset(Tail(s)) \/ ~sentInRound'["message"]
<1> DEFINE w == Head(s)
<1>1. w \in WriteRecord /\ w = s[1]
  BY FirstWrite
<1>2. w.tool \in Tool /\ w.reset \in BOOLEAN
  BY <1>1 DEF WriteRecord
<1>3. sentInRound' = IF w.reset THEN [sentInRound EXCEPT ![w.tool] = FALSE] ELSE sentInRound
  BY DEF Write
<1> HIDE DEF w
<1>4. sentInRound'["message"] => sentInRound["message"]
  BY <1>2, <1>3 DEF Fields, MessageTool
<1>5. w.reset /\ w.tool = "message" => ~sentInRound'["message"]
  BY <1>3 DEF Fields, MessageTool
<1>6. ASSUME ToBeReset(s) PROVE ToBeReset(Tail(s)) \/ ~sentInRound'["message"]
  <2>1. PICK k \in DOMAIN s : s[k].tool = "message" /\ s[k].reset
    BY <1>6 DEF ToBeReset
  <2>2. k = 1 \/ (k - 1 \in DOMAIN Tail(s) /\ Tail(s)[k - 1] = s[k])
    BY FirstWrite
  <2>3. CASE k = 1
    BY <1>1, <1>5, <2>1, <2>3
  <2>4. CASE k - 1 \in DOMAIN Tail(s) /\ Tail(s)[k - 1] = s[k]
    BY <2>1, <2>4 DEF ToBeReset
  <2>5. QED  BY <2>2, <2>3, <2>4
<1>7. QED  BY <1>4, <1>6

\* What a step of the turn of the agent loop does to its flag.
LEMMA FlagInTurn ==
    ASSUME ConstantsAssumption, Types, Alone, FlagIsOurs, TurnStep("loop"), Lone(turn["loop"])
    PROVE  FlagIsOurs'
<1> DEFINE r == "loop"
           t == turn[r]
           flag == sentInRound["message"]
<1>1. Fields /\ Turns(turns) /\ r \in Runner
  BY DEF Types, Runner
<1>2. t \in TurnRecord(turns) /\ TurnOk(t, Lone(t), origin, context)
  BY <1>1 DEF Turns, Alone
<1>3. FlagOk(t, flag, delivered)
  BY DEF FlagIsOurs
<1> HIDE DEF r
<1> DEFINE On(pc) == [t EXCEPT !.pc = pc]
<1>4. \A pc : On(pc).pc = pc /\ On(pc).id = t.id /\ On(pc).writes = t.writes
  <2> TAKE pc
  <2>1. t \in [pc : TurnPc, id : 0 .. turns, addr : Address, writes : Writes,
               tool : Tool \cup {""}, calls : 0 .. MaxCalls]
    BY <1>2 DEF TurnRecord
  <2> HIDE DEF TurnPc, Address, Writes, Tool
  <2>2. QED  BY ONLY <2>1
<1>5. \A u : turn' = [turn EXCEPT ![r] = u] => turn'[r] = u
  BY <1>1 DEF Turns
<1>6. SUFFICES FlagOk(turn'[r], sentInRound'["message"], delivered')
  BY DEF FlagIsOurs, r
\* A turn that goes on, and says no more
<1>7. ASSUME NEW pc \in {"think", "reply", "wait"}, turn' = [turn EXCEPT ![r] = On(pc)],
             t.pc # "idle", UNCHANGED <<sentInRound, delivered>>
      PROVE  FlagOk(turn'[r], sentInRound'["message"], delivered')
  <2>1. turn'[r] = On(pc)
    BY <1>5, <1>7
  <2>2. On(pc).pc = pc /\ On(pc).id = t.id /\ On(pc).writes = t.writes
    BY <1>4
  <2> HIDE DEF On
  <2>3. QED  BY <1>3, <1>7, <2>1, <2>2 DEF FlagOk
<1>8. CASE TurnWrites(r)
  <2> DEFINE u == [t EXCEPT !.writes = Tail(t.writes)]
  <2>1. t.writes \in Seq(WriteRecord) /\ t.writes # <<>>
    BY <1>2, <1>8, WritesAreRecords DEF TurnRecord, TurnWrites
  <2>2. u.pc = t.pc /\ u.id = t.id /\ u.writes = Tail(t.writes)
    BY <1>2 DEF TurnRecord
  <2>3. turn'[r] = u /\ delivered' = delivered
    BY <1>5, <1>8 DEF TurnWrites
  <2> HIDE DEF u
  <2>4. t.pc # "sent"
    BY <1>2, <2>1 DEF TurnOk
  <2>5. /\ sentInRound'["message"] => flag
        /\ ToBeReset(t.writes) => ToBeReset(Tail(t.writes)) \/ ~sentInRound'["message"]
    BY <1>1, <1>8, <2>1, FlagAfterWrite DEF TurnWrites
  <2>6. QED  BY <1>3, <2>2, <2>3, <2>4, <2>5 DEF FlagOk
<1>9. CASE Refuse(r)
  <2>1. turn' = [turn EXCEPT ![r] = On("think")]
    BY <1>9 DEF Refuse
  <2>2. QED  BY <1>7, <1>9, <2>1 DEF Refuse
<1>10. ASSUME NEW asked \in Targets, SendMessage(r, asked)
       PROVE  FlagOk(turn'[r], sentInRound'["message"], delivered')
  <2> DEFINE m == [turn |-> t.id, by |-> "message", asked |-> asked,
                   to |-> Target(asked, context["message"])]
  <2>1. turn'[r] = On("sent")
    <3>1. turn' = [turn EXCEPT ![r] = On("sent")]
      BY <1>10 DEF SendMessage
    <3>2. QED  BY <1>5, <3>1
  <2>2. delivered' = delivered \cup {m}
    BY <1>10 DEF SendMessage, Deliver
  <2>3. m.turn = t.id /\ m.by = "message"
    OBVIOUS
  <2> HIDE DEF m, On
  <2>4. Messaged(t.id, delivered')
    BY <2>2, <2>3 DEF Messaged
  <2>5. QED  BY <1>4, <2>1, <2>4 DEF FlagOk
<1>11. CASE MarkSent(r)
  <2>1. turn'[r] = On("think")
    <3>1. turn' = [turn EXCEPT ![r] = On("think")]
      BY <1>11 DEF MarkSent
    <3>2. QED  BY <1>5, <3>1
  <2>2. Messaged(t.id, delivered) /\ delivered' = delivered
    BY <1>3, <1>11 DEF MarkSent, FlagOk
  <2> HIDE DEF On
  <2>3. QED  BY <1>4, <2>1, <2>2 DEF FlagOk
<1>12. CASE AddJob(r)
  <2>1. turn' = [turn EXCEPT ![r] = On("think")]
    BY <1>12 DEF AddJob
  <2>2. QED  BY <1>7, <1>12, <2>1 DEF AddJob, Calling
<1>13. CASE Join(r)
  <2>1. turn' = [turn EXCEPT ![r] = On("think")]
    BY <1>13 DEF Join
  <2>2. QED  BY <1>7, <1>13, <2>1 DEF Join
<1>14. CASE Return(r)
  <2>1. turn' = [turn EXCEPT ![r] = On("reply")]
    BY <1>14 DEF Return, r
  <2>2. QED  BY <1>7, <1>14, <2>1 DEF Return
<1>15. CASE Reply
  <2>1. turn'[r] = Idle
    BY <1>5, <1>15 DEF Reply, r
  <2>2. Idle.pc = "idle"
    BY DEF Idle
  <2> HIDE DEF Idle
  <2>3. QED  BY <2>1, <2>2 DEF FlagOk
<1>16. ASSUME NEW tool \in {"message", "spawn", "cron"}, CallTool(r, tool)
       PROVE  FlagOk(turn'[r], sentInRound'["message"], delivered')
  <2> DEFINE u == [t EXCEPT !.pc = "call", !.tool = tool, !.writes = SetContext(tool),
                            !.calls = @ - 1]
  <2>1. turn' = [turn EXCEPT ![r] = u]
    BY <1>16 DEF CallTool
  <2>2. u.pc = "call" /\ u.id = t.id /\ u.writes = SetContext(tool)
    BY <1>2 DEF TurnRecord
  <2> HIDE DEF u
  <2>3. turn'[r] = u
    BY <1>5, <2>1
  <2>4. t.pc = "think" /\ t.writes = <<>> /\ UNCHANGED <<sentInRound, delivered>>
    BY <1>16 DEF CallTool
  <2>5. flag => Messaged(t.id, delivered)
    BY <1>3, <2>4, NoneLeft DEF FlagOk
  <2>6. QED  BY <2>2, <2>3, <2>4, <2>5 DEF FlagOk
<1>17. ASSUME NEW n \in Sub, Spawn(r, n)
       PROVE  FlagOk(turn'[r], sentInRound'["message"], delivered')
  <2>1. turn' = [turn EXCEPT ![r] = On("wait")]
    BY <1>17 DEF Spawn
  <2>2. QED  BY <1>7, <1>17, <2>1 DEF Spawn, Calling
<1>18. QED
  BY <1>8, <1>9, <1>10, <1>11, <1>12, <1>13, <1>14, <1>15, <1>16, <1>17 DEF TurnStep, r

\* The loop's turn keeps its number, and becomes another only when it ends.
LEMMA LoopStays ==
    ASSUME Types, TurnStep("loop")
    PROVE  turn'["loop"].pc = "idle" \/ turn'["loop"].id = turn["loop"].id
<1> DEFINE r == "loop"
           Goal == turn'[r].pc = "idle" \/ turn'[r].id = turn[r].id
<1>1. turn \in [Runner -> TurnRecord(turns)] /\ r \in Runner
  BY DEF Types, Turns, Runner
<1>2. turn[r] \in TurnRecord(turns)
  BY <1>1
<1>3. \A u : turn' = [turn EXCEPT ![r] = u] => turn'[r] = u
  BY <1>1
<1>4. Idle.pc = "idle"
  BY DEF Idle
<1> HIDE DEF r, Idle
<1>5. TurnWrites(r) => Goal
  BY <1>2, <1>3 DEF TurnWrites, TurnRecord
<1>6. Refuse(r) \/ MarkSent(r) \/ AddJob(r) \/ Join(r) => Goal
  BY <1>2, <1>3 DEF Refuse, MarkSent, AddJob, Join, TurnRecord
<1>7. Return(r) \/ Reply => Goal
  <2>1. Return(r) => Goal
    <3>1. [turn[r] EXCEPT !.pc = "reply"].id = turn[r].id
      BY <1>2 DEF TurnRecord
    <3>2. Return(r) => turn' = [turn EXCEPT ![r] = [turn[r] EXCEPT !.pc = "reply"]]
      BY DEF Return, r
    <3>3. QED  BY <1>3, <3>1, <3>2
  <2>2. Reply => turn' = [turn EXCEPT ![r] = Idle]
    BY DEF Reply, r
  <2>3. QED  BY <1>3, <1>4, <2>1, <2>2
<1>8. ASSUME NEW x, CallTool(r, x) PROVE Goal
  <2> DEFINE u == [turn[r] EXCEPT !.pc = "call", !.tool = x, !.writes = SetContext(x),
                                  !.calls = @ - 1]
  <2>1. u.id = turn[r].id
    BY <1>2 DEF TurnRecord
  <2>2. turn' = [turn EXCEPT ![r] = u]
    BY <1>8 DEF CallTool
  <2> HIDE DEF u
  <2>3. QED  BY <1>3, <2>1, <2>2
<1>9. \A x : Spawn(r, x) \/ SendMessage(r, x) => Goal
  BY <1>2, <1>3 DEF Spawn, SendMessage, TurnRecord
<1>10. TurnStep(r)
  BY DEF r
<1> HIDE DEF Goal
<1>11. Goal
  BY <1>5, <1>6, <1>7, <1>8, <1>9, <1>10 DEF TurnStep
<1>12. QED  BY <1>11 DEF Goal, r

\* The flag is kept by every step: a subagent leaves it alone, and the turn of a job is not beside
\* a lone turn of the agent loop.
LEMMA FlagKept ==
    ASSUME ConstantsAssumption, Types, Alone, FlagIsOurs, [Next]_vars
    PROVE  FlagIsOurs'
<1> DEFINE t == turn["loop"]
<1> SUFFICES ASSUME Lone(turn["loop"])' PROVE FlagIsOurs'
  BY DEF FlagIsOurs
<1>1. Fields /\ Turns(turns) /\ Subs(turns)
  BY DEF Types
<1>2. turn'["loop"] = t => FlagOk(t, sentInRound["message"], delivered)
  <2>1. disturbed \subseteq disturbed'
    BY OriginStays
  <2>2. QED  BY <2>1 DEF FlagIsOurs, Lone
<1>3. CASE UNCHANGED vars
  BY <1>3 DEF vars, FlagIsOurs, Lone
<1>4. ASSUME NEW r \in Runner, NEW a, Begin(r, a) PROVE FlagIsOurs'
  <2> DEFINE both == SetContext("message") \o SetContext("spawn")
             u == [Idle EXCEPT !.pc = "think", !.id = turns + 1, !.addr = a,
                               !.writes = both, !.calls = MaxCalls]
  <2>1. turn' = [turn EXCEPT ![r] = u] /\ UNCHANGED <<sentInRound, delivered>>
    BY <1>4 DEF Begin
  <2>2. u.pc = "think" /\ u.writes = both
    BY DEF Idle
  <2> HIDE DEF u
  <2>3. ToBeReset(both)
    BY SetContextSets, BothWrites DEF Tool, MessageTool
  <2>4. turn'["loop"] = u \/ turn'["loop"] = t
    BY <1>1, <2>1 DEF Turns, Runner
  <2>5. FlagOk(turn'["loop"], sentInRound'["message"], delivered')
    BY <1>2, <2>1, <2>2, <2>3, <2>4 DEF FlagOk
  <2>6. QED  BY <2>5 DEF FlagIsOurs
<1>5. ASSUME TurnStep("cron") PROVE FlagIsOurs'
  <2>1. turn["cron"].pc # "idle"
    <3>1. TurnOk(turn["cron"], Lone(turn["cron"]), origin, context)
      BY DEF Alone, Runner
    <3>2. turn["cron"].writes # <<>> => turn["cron"].pc # "idle"
      BY <3>1 DEF TurnOk
    <3>3. QED
      BY <1>5, <3>2 DEF TurnStep, TurnWrites, Refuse, SendMessage, MarkSent, AddJob, Join,
                        Return, CallTool, Spawn, Calling
  <2>2. \E u : turn' = [turn EXCEPT !["cron"] = u]
    <3>1. ASSUME NEW p, TurnWrites(p) \/ Refuse(p) \/ MarkSent(p) \/ AddJob(p)
                          \/ Join(p) \/ Return(p)
          PROVE  \E u : turn' = [turn EXCEPT ![p] = u]
      BY <3>1 DEF TurnWrites, Refuse, MarkSent, AddJob, Join, Return
    <3>2. ASSUME NEW p, NEW x, CallTool(p, x) \/ Spawn(p, x) \/ SendMessage(p, x)
          PROVE  \E u : turn' = [turn EXCEPT ![p] = u]
      BY <3>2 DEF CallTool, Spawn, SendMessage
    <3>3. QED  BY <1>5, <3>1, <3>2 DEF TurnStep
  <2>3. turn'["loop"] = t
    BY <1>1, <2>2 DEF Turns, Runner
  <2>4. t.pc = "idle"
    <3>1. t.pc # "idle" => t.id \in disturbed
      BY <2>1 DEF Alone, Runner
    <3>2. disturbed \subseteq disturbed'
      BY OriginStays
    <3>3. QED  BY <2>3, <3>1, <3>2 DEF Lone
  <2>5. FlagOk(turn'["loop"], sentInRound'["message"], delivered')
    BY <2>3, <2>4 DEF FlagOk
  <2>6. QED  BY <2>5 DEF FlagIsOurs
<1>6. ASSUME NEW r \in Runner, NEW i \in Sub, SubStep(r, i) PROVE FlagIsOurs'
  <2> HIDE DEF Sub
  <2>1. turn' = turn
    BY <1>6 DEF SubStep, SubStart, SubCall, SubWrites, SubSend, SubMarkSent, SubDone
  <2>2. delivered \subseteq delivered' /\ FlagOk(t, sentInRound["message"], delivered)
    BY <1>2, <2>1, SentInAStep
  <2>3. sentInRound'["message"] => sentInRound["message"]
    <3>1. CASE SubWrites(r, i)
      <4>1. sub[r][i] \in SubRecord(turns)
        BY <1>1 DEF Subs
      <4>2. sub[r][i].writes \in Seq(WriteRecord) /\ sub[r][i].writes # <<>>
        BY <3>1, <4>1, WritesAreRecords DEF SubRecord, SubWrites
      <4>3. QED  BY <1>1, <3>1, <4>2, FlagAfterWrite DEF SubWrites
    <3>2. CASE SubMarkSent(r, i)
      BY <1>1, <3>2 DEF SubMarkSent, Fields, MessageTool
    <3>3. CASE SubStart(r, i) \/ SubCall(r, i) \/ SubDone(r, i)
      BY <3>3 DEF SubStart, SubCall, SubDone
    <3>4. ASSUME NEW asked, SubSend(r, i, asked)
          PROVE  sentInRound'["message"] => sentInRound["message"]
      BY <3>4 DEF SubSend
    <3>5. QED  BY <1>6, <3>1, <3>2, <3>3, <3>4 DEF SubStep
  <2>4. Messaged(t.id, delivered) => Messaged(t.id, delivered')
    BY <2>2 DEF Messaged
  <2>5. FlagOk(turn'["loop"], sentInRound'["message"], delivered')
    BY <2>1, <2>2, <2>3, <2>4 DEF FlagOk
  <2>6. QED  BY <2>5 DEF FlagIsOurs
<1>7. ASSUME TurnStep("loop") PROVE FlagIsOurs'
  <2>1. CASE turn'["loop"].pc = "idle"
    <3>1. FlagOk(turn'["loop"], sentInRound'["message"], delivered')
      BY <2>1 DEF FlagOk
    <3>2. QED  BY <3>1 DEF FlagIsOurs
  <2>2. CASE turn'["loop"].id = t.id
    <3>1. Lone(t)
      BY <2>2, OriginStays DEF Lone
    <3>2. QED  BY <1>7, <3>1, FlagInTurn
  <2>3. QED  BY <1>7, <2>1, <2>2, LoopStays
<1>8. QED  BY <1>3, <1>4, <1>5, <1>6, <1>7 DEF Next, Runner

\* A turn of the agent loop that no other ran beside leaves its chat with a message or an answer,
\* or has sent a message where the model named the chat: the answer is withheld only if the message
\* tool has sent something in this turn (loop.go:188-201).
THEOREM TurnsSpeak == Spec => []EveryTurnSpeaks
<1> DEFINE Said(n, m) == /\ m.turn = n /\ m.by \in {"message", "answer"}
                         /\ m.to = origin[n] \/ m.asked # NoAddress
<1>1. Init => FlagIsOurs /\ EveryTurnSpeaks
  <2>1. Idle.pc = "idle"
    BY DEF Idle
  <2> HIDE DEF Idle
  <2>2. QED  BY <2>1 DEF Init, FlagIsOurs, FlagOk, EveryTurnSpeaks, Runner
<1>2. ASSUME Types, Alone, FlagIsOurs, [Next]_vars PROVE FlagIsOurs'
  BY <1>2, FlagKept, ConstantsAssumption
<1>3. ASSUME Types, Alone, OwnChat, FlagIsOurs, EveryTurnSpeaks, [Next]_vars
      PROVE  EveryTurnSpeaks'
  <2> SUFFICES ASSUME ~StreamMode, NEW n \in ended', n \notin disturbed'
               PROVE  \E m \in delivered' : /\ m.turn = n /\ m.by \in {"message", "answer"}
                                            /\ m.to = origin'[n] \/ m.asked # NoAddress
    BY DEF EveryTurnSpeaks
  <2>1. /\ delivered \subseteq delivered' /\ disturbed \subseteq disturbed'
        /\ \A k \in 1 .. turns : origin'[k] = origin[k]
    BY <1>3, SentInAStep, OriginStays, ConstantsAssumption
  <2>2. CASE n \in ended
    <3>1. PICK m \in delivered : Said(n, m)
      BY <1>3, <2>1, <2>2 DEF EveryTurnSpeaks
    <3>2. n \in 1 .. turns
      BY <1>3, <2>2 DEF Types, Sent
    <3>3. QED  BY <2>1, <3>1, <3>2
  <2>3. CASE Reply /\ n = turn["loop"].id
    <3> DEFINE t == turn["loop"]
               m == [turn |-> t.id, by |-> "answer", asked |-> NoAddress, to |-> t.addr]
    <3>1. t.pc = "reply" /\ TurnOk(t, Lone(t), origin, context) /\ Lone(t)
      BY <1>3, <2>1, <2>3 DEF Reply, Alone, Runner, Lone
    <3>2. t.writes = <<>> /\ t.addr = origin[n]
      BY <2>3, <3>1 DEF TurnOk
    <3>3. origin' = origin
      BY <2>3 DEF Reply
    <3>4. CASE sentInRound["message"]
      <4>1. PICK x \in delivered : x.turn = n /\ x.by = "message"
        BY <1>3, <2>3, <3>1, <3>2, <3>4, NoneLeft DEF FlagIsOurs, FlagOk, Messaged
      <4>2. CASE x.asked = NoAddress
        <5>1. x.to = Target(NoAddress, origin[n])
          BY <1>3, <2>1, <4>1, <4>2 DEF OwnChat
        <5>2. t.addr \in Address
          BY <1>3 DEF Types, Turns, TurnRecord, Runner
        <5>3. Target(NoAddress, t.addr) = t.addr
          BY <5>2, TargetIsAddress, ChatsAreAddresses, ConstantsAssumption
        <5>4. x.to = origin'[n]
          BY <3>2, <3>3, <5>1, <5>3
        <5>5. QED  BY <2>1, <4>1, <5>4
      <4>3. QED  BY <2>1, <4>1, <4>2
    <3>5. CASE ~sentInRound["message"]
      <4>1. delivered' = delivered \cup {m}
        BY <2>3, <3>5 DEF Reply, Deliver
      <4>2. m.turn = n /\ m.by = "answer" /\ m.to = origin'[n]
        BY <2>3, <3>2, <3>3
      <4> HIDE DEF m
      <4>3. QED  BY <4>1, <4>2
    <3>6. QED  BY <3>4, <3>5
  <2>4. ended' = ended \/ Reply
    <3>1. ASSUME NEW r \in Runner, TurnStep(r) PROVE ended' = ended \/ Reply
      <4>1. TurnWrites(r) \/ Refuse(r) \/ MarkSent(r) \/ AddJob(r) \/ Join(r)
              \/ Return(r) => ended' = ended
        BY DEF TurnWrites, Refuse, MarkSent, AddJob, Join, Return
      <4>2. \A x : CallTool(r, x) \/ Spawn(r, x) \/ SendMessage(r, x) => ended' = ended
        BY DEF CallTool, Spawn, SendMessage
      <4>3. QED  BY <3>1, <4>1, <4>2 DEF TurnStep
    <3>2. ASSUME NEW r \in Runner, NEW i \in Sub, SubStep(r, i) PROVE ended' = ended
      BY <3>2 DEF SubStep, SubStart, SubCall, SubWrites, SubSend, SubMarkSent, SubDone
    <3>3. \A r, a : Begin(r, a) => ended' = ended
      BY DEF Begin
    <3>4. UNCHANGED vars => ended' = ended
      BY DEF vars
    <3>5. QED  BY <1>3, <3>1, <3>2, <3>3, <3>4 DEF Next
  <2>5. Reply => ended' = ended \cup {turn["loop"].id}
    BY DEF Reply
  <2>6. QED  BY <2>2, <2>3, <2>4, <2>5
<1>4. QED  BY <1>1, <1>2, <1>3, AloneAlways, EverythingToItsChat, PTL DEF Spec

=============================================================================
