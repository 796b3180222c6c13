------------------------ MODULE SessionHistoryProofs ------------------------
(***************************************************************************)
(* Proofs about SessionHistory for all thresholds and bounds.              *)
(***************************************************************************)
EXTENDS SessionHistory, SequenceTheorems, WellFoundedInduction, TLAPS

USE ConstantsAssumption DEF ConstantsAssumption

-----------------------------------------------------------------------------
\* Histories: which identifiers the operations on them keep.

\* The identifiers of the tool results of a history
ToolIds(h) == {h[i].id : i \in {k \in DOMAIN h : h[k].role = "tool"}}

\* A non-empty set of positions has a first one.
LEMMA FirstPosition ==
    ASSUME NEW S \in SUBSET Nat, S # {}
    PROVE  \E i \in S : \A k \in S : i <= k
<1> DEFINE R == {p \in Nat \X Nat : p[1] < p[2]}
<1>1. IsWellFoundedOn(R, Nat)
  BY NatLessThanWellFounded DEF OpToRel
<1>2. PICK i \in S : \A k \in S : <<k, i>> \notin R
  <2> HIDE DEF R
  <2> QED
    BY <1>1, WFMin
<1>3. \A k \in S : ~(k < i)
  BY <1>2
<1>4. QED
  BY <1>3

LEMMA SubSeqIds ==
    ASSUME NEW h \in Seq(Message), NEW m \in Nat \ {0}, NEW n \in Nat, n <= Len(h)
    PROVE  /\ SubSeq(h, m, n) \in Seq(Message)
           /\ Spoken(SubSeq(h, m, n)) \subseteq Spoken(h)
           /\ ToolIds(SubSeq(h, m, n)) \subseteq ToolIds(h)
<1> DEFINE s == SubSeq(h, m, n)
<1>1. \A i \in m .. n : i \in DOMAIN h /\ h[i] \in Message
  BY LenProperties, ElementOfSeq
<1>2. /\ s \in Seq(Message)
      /\ Len(s) = IF m <= n THEN n - m + 1 ELSE 0
      /\ \A i \in 1 .. n - m + 1 : s[i] = h[m + i - 1]
  BY <1>1, SubSeqProperties
<1>3. DOMAIN s = 1 .. Len(s)
  BY <1>2, LenProperties
<1>4. \A i \in DOMAIN s : m + i - 1 \in DOMAIN h /\ s[i] = h[m + i - 1]
  <2> HIDE DEF s
  <2> TAKE i \in DOMAIN s
  <2>1. i \in 1 .. n - m + 1 /\ m + i - 1 \in m .. n
    BY <1>2, <1>3
  <2>2. QED
    BY <2>1, <1>1, <1>2
<1>5. QED
  <2> HIDE DEF s
  <2>1. Spoken(s) \subseteq Spoken(h) /\ ToolIds(s) \subseteq ToolIds(h)
    BY <1>4 DEF Spoken, ToolIds
  <2>2. QED
    BY <1>2, <2>1 DEF s

\* TruncateHistory's cut
LEMMA LastIds ==
    ASSUME NEW h \in Seq(Message)
    PROVE  /\ Last(h, Keep) \in Seq(Message)
           /\ Spoken(Last(h, Keep)) \subseteq Spoken(h)
           /\ ToolIds(Last(h, Keep)) \subseteq ToolIds(h)
<1>1. Len(h) \in Nat
  BY LenProperties
<1>2. Len(h) > Keep => Len(h) - Keep + 1 \in Nat \ {0}
  BY <1>1
<1>3. QED
  BY <1>1, <1>2, SubSeqIds DEF Last

LEMMA AppendIds ==
    ASSUME NEW h \in Seq(Message), NEW e \in Message
    PROVE  /\ Append(h, e) \in Seq(Message)
           /\ e.role # "tool" => /\ Spoken(Append(h, e)) = Spoken(h) \cup {e.id}
                                 /\ ToolIds(Append(h, e)) = ToolIds(h)
           /\ e.role = "tool" => /\ Spoken(Append(h, e)) = Spoken(h)
                                 /\ ToolIds(Append(h, e)) = ToolIds(h) \cup {e.id}
<1> DEFINE s == Append(h, e)
<1>1. Len(h) \in Nat /\ DOMAIN h = 1 .. Len(h)
  BY LenProperties
<1>2. /\ s \in Seq(Message)
      /\ Len(s) = Len(h) + 1
      /\ \A i \in 1 .. Len(h) : s[i] = h[i]
      /\ s[Len(h) + 1] = e
  BY AppendProperties
<1>3. DOMAIN s = DOMAIN h \cup {Len(h) + 1}
  <2>1. DOMAIN s = 1 .. Len(s)
    BY <1>2, LenProperties
  <2> HIDE DEF s
  <2>2. QED
    BY <1>1, <1>2, <2>1
<1> HIDE DEF s
<1>4. e.role # "tool" => Spoken(s) = Spoken(h) \cup {e.id} /\ ToolIds(s) = ToolIds(h)
  BY <1>1, <1>2, <1>3 DEF Spoken, ToolIds
<1>5. e.role = "tool" => Spoken(s) = Spoken(h) /\ ToolIds(s) = ToolIds(h) \cup {e.id}
  BY <1>1, <1>2, <1>3 DEF Spoken, ToolIds
<1>6. QED
  BY <1>2, <1>4, <1>5 DEF s

\* What BuildMessages drops at the head of the history are tool results only.
LEMMA StripIds ==
    ASSUME NEW h \in Seq(Message)
    PROVE  /\ StripOrphans(h) \in Seq(Message)
           /\ Spoken(StripOrphans(h)) = Spoken(h)
           /\ ToolIds(StripOrphans(h)) \subseteq ToolIds(h)
<1> DEFINE kept == {i \in DOMAIN h : h[i].role # "tool"}
<1>1. Len(h) \in Nat /\ DOMAIN h = 1 .. Len(h)
  BY LenProperties
<1>2. CASE kept = {}
  <2>1. StripOrphans(h) = <<>>
    BY <1>2 DEF StripOrphans
  <2>2. Spoken(h) = {} /\ Spoken(<<>>) = {} /\ ToolIds(<<>>) = {}
    BY <1>2 DEF Spoken, ToolIds
  <2>3. QED
    BY <2>1, <2>2
<1>3. CASE kept # {}
  <2> DEFINE first == CHOOSE i \in kept : \A k \in kept : i <= k
  <2>1. first \in kept /\ \A k \in kept : first <= k
    <3>1. kept \in SUBSET Nat
      BY <1>1
    <3>2. \E i \in kept : \A k \in kept : i <= k
      <4> HIDE DEF kept
      <4> QED
        BY <1>3, <3>1, FirstPosition
    <3>3. QED
      BY <3>2
  <2>2. StripOrphans(h) = SubSeq(h, first, Len(h))
    BY <1>3 DEF StripOrphans
  <2> HIDE DEF first
  <2>3. first \in Nat \ {0} /\ first <= Len(h)
    BY <1>1, <2>1
  <2>4. /\ StripOrphans(h) \in Seq(Message)
        /\ Spoken(StripOrphans(h)) \subseteq Spoken(h)
        /\ ToolIds(StripOrphans(h)) \subseteq ToolIds(h)
    BY <1>1, <2>2, <2>3, SubSeqIds
  <2>5. Spoken(h) \subseteq Spoken(StripOrphans(h))
    <3> DEFINE s == SubSeq(h, first, Len(h))
    <3>1. \A i \in first .. Len(h) : h[i] \in Message
      BY <1>1, <2>3, ElementOfSeq
    <3>2. /\ Len(s) = Len(h) - first + 1
          /\ \A i \in 1 .. Len(h) - first + 1 : s[i] = h[first + i - 1]
          /\ s \in Seq(Message)
      BY <1>1, <2>3, <3>1, SubSeqProperties
    <3>3. DOMAIN s = 1 .. Len(h) - first + 1
      BY <3>2, LenProperties
    <3> HIDE DEF s
    <3>4. \A k \in kept : k - first + 1 \in DOMAIN s /\ s[k - first + 1] = h[k]
      <4> TAKE k \in kept
      <4>1. k - first + 1 \in 1 .. Len(h) - first + 1 /\ first + (k - first + 1) - 1 = k
        BY <1>1, <2>1, <2>3
      <4>2. QED
        BY <3>2, <3>3, <4>1
    <3>5. Spoken(h) \subseteq Spoken(s)
      BY <3>4 DEF Spoken
    <3>6. QED
      BY <2>2, <3>5 DEF s
  <2>6. QED
    BY <2>4, <2>5
<1>4. QED
  BY <1>2, <1>3

\* A new summary tells of nothing but what the old one and the summarized messages say.
LEMMA NewSummariesIds ==
    ASSUME NEW h, NEW text \in NewSummaries(h)
    PROVE  text \subseteq summary \cup Spoken(h)
BY DEF NewSummaries

-----------------------------------------------------------------------------
\* Types.  An identifier that is a tool result's anywhere (in the session, the file, a
\* prompt, a snapshot) is nowhere a spoken message's and in no summary.

TurnRecord ==
    [pc : {"idle", "history", "prompted", "llm", "tools", "save", "write", "finish"},
     iteration : 0 .. MaxIterations, left : 0 .. MaxCalls, prompt : Snapshot, snap : Snapshot]
SummarizerRecord ==
    [pc : {"off", "start", "llm", "summary", "cut", "save", "write"},
     history : Seq(Message), text : SUBSET Nat, snap : Snapshot]

Talk ==
    UNION {Spoken(messages), Spoken(file.messages), Spoken(turn.prompt.messages),
           Spoken(turn.snap.messages), Spoken(summarizer.history),
           Spoken(summarizer.snap.messages),
           summary, file.summary, turn.prompt.summary, turn.snap.summary,
           summarizer.text, summarizer.snap.summary, dialogue}
Results ==
    UNION {ToolIds(messages), ToolIds(file.messages), ToolIds(turn.prompt.messages),
           ToolIds(turn.snap.messages), ToolIds(summarizer.history),
           ToolIds(summarizer.snap.messages)}

TInv ==
    /\ TypeOK
    /\ turn.pc = "tools" => turn.left # 0
    /\ Talk \cap Results = {}
    /\ Talk \cup Results \subseteq 1 .. count

LEMMA EmptyIds ==
    /\ Empty \in Snapshot
    /\ Spoken(<<>>) = {} /\ ToolIds(<<>>) = {} /\ Ids(<<>>) = {}
BY DEF Empty, Snapshot, Spoken, ToolIds, Ids

LEMMA IdsSplit == ASSUME NEW h PROVE Ids(h) = Spoken(h) \cup ToolIds(h)
BY DEF Ids, Spoken, ToolIds

\* A step that adds no message keeps Talk and Results apart if it only copies and drops.
LEMMA CopyingKeepsApart ==
    ASSUME TInv, count' = count, Talk' \subseteq Talk, Results' \subseteq Results
    PROVE  Talk' \cap Results' = {} /\ Talk' \cup Results' \subseteq 1 .. count'
BY DEF TInv

\* The effect of adding a message to the session.
LEMMA AddEffect ==
    ASSUME TInv, NEW role \in Role, NEW calls \in 0 .. MaxCalls, Add(role, calls)
    PROVE  /\ count \in Nat /\ count' = count + 1 /\ count' \in 0 .. MaxMessages
           /\ messages' \in Seq(Message)
           /\ role # "tool" => /\ Spoken(messages') = Spoken(messages) \cup {count'}
                               /\ ToolIds(messages') = ToolIds(messages)
                               /\ dialogue' = dialogue \cup {count'}
           /\ role = "tool" => /\ Spoken(messages') = Spoken(messages)
                               /\ ToolIds(messages') = ToolIds(messages) \cup {count'}
                               /\ dialogue' = dialogue
<1> DEFINE e == [id |-> count + 1, role |-> role, calls |-> calls]
<1>1. count \in Nat /\ count' = count + 1 /\ count' \in 0 .. MaxMessages
  BY DEF Add, TInv, TypeOK
<1>2. e \in Message /\ e.role = role /\ e.id = count'
  BY <1>1 DEF Message
<1>3. messages' = Append(messages, e) /\ messages \in Seq(Message)
  BY DEF Add, TInv, TypeOK
<1>4. dialogue' = IF role = "tool" THEN dialogue ELSE dialogue \cup {count'}
  BY <1>1 DEF Add
<1> HIDE DEF e
<1>5. QED
  BY <1>1, <1>2, <1>3, <1>4, AppendIds

\* Adding one fresh identifier to one of the two sets keeps them apart.
LEMMA AddingKeepsApart ==
    ASSUME TInv, count \in Nat, count' = count + 1,
           \/ Talk' \subseteq Talk \cup {count'} /\ Results' \subseteq Results
           \/ Talk' \subseteq Talk /\ Results' \subseteq Results \cup {count'}
    PROVE  Talk' \cap Results' = {} /\ Talk' \cup Results' \subseteq 1 .. count'
<1>1. count' \notin 1 .. count /\ 1 .. count \subseteq 1 .. count' /\ count' \in 1 .. count'
  OBVIOUS
<1>2. QED
  BY <1>1 DEF TInv

\* TInv of the next state, from its parts.
LEMMA NextTInv ==
    ASSUME messages' \in Seq(Message), summary' \subseteq Nat, file' \in Snapshot,
           turn' \in TurnRecord, summarizer' \in SummarizerRecord,
           count' \in 0 .. MaxMessages, forgotten' \subseteq 1 .. count',
           crashes' \in 0 .. MaxCrashes, turn'.pc = "tools" => turn'.left # 0,
           Talk' \cap Results' = {}, Talk' \cup Results' \subseteq 1 .. count'
    PROVE  TInv'
<1>1. dialogue' \subseteq 1 .. count'
  BY DEF Talk
<1>2. TypeOK'
  BY <1>1 DEF TypeOK, TurnRecord, SummarizerRecord
<1>3. QED
  BY <1>2 DEF TInv

\* What TInv says, with the two records named.
LEMMA TInvParts ==
    ASSUME TInv
    PROVE  /\ messages \in Seq(Message) /\ summary \subseteq Nat /\ file \in Snapshot
           /\ turn \in TurnRecord /\ summarizer \in SummarizerRecord
           /\ count \in 0 .. MaxMessages /\ forgotten \subseteq 1 .. count
           /\ crashes \in 0 .. MaxCrashes
           /\ turn.pc = "tools" => turn.left # 0
BY DEF TInv, TypeOK, TurnRecord, SummarizerRecord

-----------------------------------------------------------------------------
\* Each action keeps TInv.

LEMMA InitType == Init => TInv
<1> SUFFICES ASSUME Init PROVE TInv
  OBVIOUS
<1>1. messages \in Seq(Message) /\ file \in Snapshot
  BY EmptyIds DEF Init, Empty, Snapshot
<1>2. turn \in TurnRecord /\ summarizer \in SummarizerRecord
  BY EmptyIds DEF Init, IdleTurn, NoSummarizer, TurnRecord, SummarizerRecord
<1>3. TypeOK
  BY <1>1, <1>2 DEF Init, TypeOK, TurnRecord, SummarizerRecord
<1>4. Talk = {} /\ Results = {}
  BY EmptyIds DEF Init, IdleTurn, NoSummarizer, Empty, Talk, Results
<1>5. QED
  BY <1>3, <1>4 DEF TInv, Init, IdleTurn

LEMMA AddType ==
    ASSUME TInv, AddUserMessage \/ (\E k \in 1 .. MaxCalls : CallTools(k)) \/ ToolResult \/ Answer
    PROVE  TInv'
<1>1. turn \in TurnRecord /\ 0 \in 0 .. MaxCalls
  BY DEF TInv, TypeOK, TurnRecord
<1>0. count' = count + 1 /\ count \in Nat => 1 .. count \subseteq 1 .. count'
  OBVIOUS
<1>2. CASE AddUserMessage
  <2>1. Add("user", 0) /\ "user" \in Role
    BY <1>2 DEF AddUserMessage, Role
  <2>2. turn' \in TurnRecord /\ turn'.pc = "llm" /\ turn'.prompt = Empty /\ turn'.snap = turn.snap
    BY <1>1, <1>2, EmptyIds DEF AddUserMessage, TurnRecord
  <2>3. /\ messages' \in Seq(Message) /\ count \in Nat /\ count' = count + 1
        /\ count' \in 0 .. MaxMessages /\ dialogue' = dialogue \cup {count'}
        /\ Spoken(messages') = Spoken(messages) \cup {count'}
        /\ ToolIds(messages') = ToolIds(messages)
    BY <1>1, <2>1, AddEffect
  <2>4. Talk' \subseteq Talk \cup {count'} /\ Results' \subseteq Results
    BY <1>2, <2>2, <2>3, EmptyIds DEF AddUserMessage, Talk, Results, Empty
  <2>5. Talk' \cap Results' = {} /\ Talk' \cup Results' \subseteq 1 .. count'
    BY <2>3, <2>4, AddingKeepsApart
  <2>6. /\ UNCHANGED <<summary, file, summarizer, forgotten, crashes>>
        /\ turn'.pc = "tools" => turn'.left # 0
    BY <1>2, <2>2 DEF AddUserMessage
  <2>7. QED
    BY <1>1, <1>0, <2>2, <2>3, <2>5, <2>6, TInvParts, NextTInv
<1>3. CASE \E k \in 1 .. MaxCalls : CallTools(k)
  <2>0. PICK k \in 1 .. MaxCalls : CallTools(k)
    BY <1>3
  <2>1. Add("assistant", k) /\ "assistant" \in Role
    BY <2>0 DEF CallTools, Role
  <2>2. /\ turn' \in TurnRecord /\ turn'.pc = "tools" /\ turn'.left = k
        /\ turn'.prompt = turn.prompt /\ turn'.snap = turn.snap
    <3>0. turn.iteration \in 0 .. MaxIterations /\ turn.iteration < MaxIterations
      BY <1>1, <2>0 DEF CallTools, TurnRecord
    <3>1. turn.iteration + 1 \in 0 .. MaxIterations /\ k \in 0 .. MaxCalls
      BY <3>0
    <3>2. turn' = [pc |-> "tools", iteration |-> turn.iteration + 1, left |-> k,
                   prompt |-> turn.prompt, snap |-> turn.snap]
      BY <1>1, <2>0 DEF CallTools, TurnRecord
    <3>3. turn.prompt \in Snapshot /\ turn.snap \in Snapshot
      BY <1>1 DEF TurnRecord
    <3>4. QED
      BY <3>1, <3>2, <3>3 DEF TurnRecord
  <2>3. /\ messages' \in Seq(Message) /\ count \in Nat /\ count' = count + 1
        /\ count' \in 0 .. MaxMessages /\ dialogue' = dialogue \cup {count'}
        /\ Spoken(messages') = Spoken(messages) \cup {count'}
        /\ ToolIds(messages') = ToolIds(messages)
    BY <2>1, AddEffect
  <2>4. Talk' \subseteq Talk \cup {count'} /\ Results' \subseteq Results
    <3>1. UNCHANGED <<summary, file, summarizer>>
      BY <2>0 DEF CallTools
    <3>2. QED
      BY <2>2, <2>3, <3>1 DEF Talk, Results
  <2>5. Talk' \cap Results' = {} /\ Talk' \cup Results' \subseteq 1 .. count'
    BY <2>3, <2>4, AddingKeepsApart
  <2>6. /\ UNCHANGED <<summary, file, summarizer, forgotten, crashes>>
        /\ turn'.pc = "tools" => turn'.left # 0
    <3>1. k # 0
      OBVIOUS
    <3>2. QED
      BY <2>0, <2>2, <3>1 DEF CallTools
  <2>7. QED
    BY <1>1, <1>0, <2>2, <2>3, <2>5, <2>6, TInvParts, NextTInv
<1>4. CASE ToolResult
  <2>1. Add("tool", 0) /\ "tool" \in Role
    BY <1>4 DEF ToolResult, Role
  <2>2. /\ turn' \in TurnRecord /\ (turn'.pc = "tools" => turn'.left # 0)
        /\ turn'.prompt = turn.prompt /\ turn'.snap = turn.snap
    <3>1. turn.left \in 1 .. MaxCalls
      BY <1>1, <1>4 DEF ToolResult, TInv, TurnRecord
    <3>2. PICK pc \in {"llm", "tools"} :
             /\ turn' = [pc |-> pc, iteration |-> turn.iteration, left |-> turn.left - 1,
                         prompt |-> turn.prompt, snap |-> turn.snap]
             /\ pc = "tools" => turn.left # 1
      BY <1>1, <1>4 DEF ToolResult, TurnRecord
    <3>3. /\ turn.prompt \in Snapshot /\ turn.snap \in Snapshot
          /\ turn.iteration \in 0 .. MaxIterations
      BY <1>1 DEF TurnRecord
    <3>4. turn.left - 1 \in 0 .. MaxCalls /\ (turn.left # 1 => turn.left - 1 # 0)
      BY <3>1
    <3>5. turn' \in TurnRecord
      BY <3>2, <3>3, <3>4 DEF TurnRecord
    <3>6. QED
      BY <3>2, <3>4, <3>5
  <2>3. /\ messages' \in Seq(Message) /\ count \in Nat /\ count' = count + 1
        /\ count' \in 0 .. MaxMessages /\ dialogue' = dialogue
        /\ Spoken(messages') = Spoken(messages)
        /\ ToolIds(messages') = ToolIds(messages) \cup {count'}
    BY <1>1, <2>1, AddEffect
  <2>4. Talk' \subseteq Talk /\ Results' \subseteq Results \cup {count'}
    BY <1>4, <2>2, <2>3 DEF ToolResult, Talk, Results
  <2>5. Talk' \cap Results' = {} /\ Talk' \cup Results' \subseteq 1 .. count'
    BY <2>3, <2>4, AddingKeepsApart
  <2>6. /\ UNCHANGED <<summary, file, summarizer, forgotten, crashes>>
        /\ turn'.pc = "tools" => turn'.left # 0
    BY <1>4, <2>2 DEF ToolResult
  <2>7. QED
    BY <1>1, <1>0, <2>2, <2>3, <2>5, <2>6, TInvParts, NextTInv
<1>5. CASE Answer
  <2>1. Add("assistant", 0) /\ "assistant" \in Role
    BY <1>5 DEF Answer, Role
  <2>2. /\ turn' \in TurnRecord /\ turn'.pc = "save"
        /\ turn'.prompt = turn.prompt /\ turn'.snap = turn.snap
    BY <1>1, <1>5 DEF Answer, TurnRecord
  <2>3. /\ messages' \in Seq(Message) /\ count \in Nat /\ count' = count + 1
        /\ count' \in 0 .. MaxMessages /\ dialogue' = dialogue \cup {count'}
        /\ Spoken(messages') = Spoken(messages) \cup {count'}
        /\ ToolIds(messages') = ToolIds(messages)
    BY <1>1, <2>1, AddEffect
  <2>4. Talk' \subseteq Talk \cup {count'} /\ Results' \subseteq Results
    BY <1>5, <2>2, <2>3 DEF Answer, Talk, Results
  <2>5. Talk' \cap Results' = {} /\ Talk' \cup Results' \subseteq 1 .. count'
    BY <2>3, <2>4, AddingKeepsApart
  <2>6. /\ UNCHANGED <<summary, file, summarizer, forgotten, crashes>>
        /\ turn'.pc = "tools" => turn'.left # 0
    BY <1>5, <2>2 DEF Answer
  <2>7. QED
    BY <1>1, <1>0, <2>2, <2>3, <2>5, <2>6, TInvParts, NextTInv
<1>6. QED
  BY <1>2, <1>3, <1>4, <1>5

LEMMA TurnType ==
    ASSUME TInv, ReadHistory \/ ReadSummary \/ LlmFails \/ TurnSnapshot \/ TurnWrite \/ FinishTurn
    PROVE  TInv'
<1>1. turn \in TurnRecord /\ summarizer \in SummarizerRecord /\ file \in Snapshot
  BY DEF TInv, TypeOK, TurnRecord, SummarizerRecord
<1>2. CASE ReadHistory
  <2>1. /\ StripOrphans(messages) \in Seq(Message)
        /\ Spoken(StripOrphans(messages)) = Spoken(messages)
        /\ ToolIds(StripOrphans(messages)) \subseteq ToolIds(messages)
    BY StripIds DEF TInv, TypeOK
  <2>2. /\ turn' \in TurnRecord /\ turn'.pc = "history"
        /\ turn'.prompt.messages = StripOrphans(messages)
        /\ turn'.prompt.summary = turn.prompt.summary /\ turn'.snap = turn.snap
    BY <1>1, <1>2, <2>1 DEF ReadHistory, TurnRecord, Snapshot
  <2>3. Talk' \subseteq Talk /\ Results' \subseteq Results
    BY <1>2, <2>1, <2>2 DEF ReadHistory, Talk, Results
  <2>4. QED
    BY <1>2, <2>2, <2>3, CopyingKeepsApart DEF ReadHistory, TInv, TypeOK, TurnRecord
<1>3. CASE ReadSummary
  <2>1. /\ turn' \in TurnRecord /\ turn'.pc = "prompted"
        /\ turn'.prompt.messages = turn.prompt.messages
        /\ turn'.prompt.summary = summary /\ turn'.snap = turn.snap
    BY <1>1, <1>3 DEF ReadSummary, TurnRecord, Snapshot, TInv, TypeOK
  <2>2. Talk' \subseteq Talk /\ Results' \subseteq Results
    BY <1>3, <2>1 DEF ReadSummary, Talk, Results
  <2>3. QED
    BY <1>3, <2>1, <2>2, CopyingKeepsApart DEF ReadSummary, TInv, TypeOK, TurnRecord
<1>4. CASE LlmFails
  <2>1. /\ turn' \in TurnRecord /\ turn'.pc = "idle" /\ turn'.prompt = Empty /\ turn'.snap = Empty
    BY <1>4, EmptyIds DEF LlmFails, IdleTurn, TurnRecord
  <2>2. Talk' \subseteq Talk /\ Results' \subseteq Results
    BY <1>4, <2>1, EmptyIds DEF LlmFails, Talk, Results, Empty
  <2>3. QED
    BY <1>4, <2>1, <2>2, CopyingKeepsApart DEF LlmFails, TInv, TypeOK, TurnRecord
<1>5. CASE TurnSnapshot
  <2>1. /\ turn' \in TurnRecord /\ turn'.pc = "write" /\ turn'.prompt = turn.prompt
        /\ turn'.snap.messages = messages /\ turn'.snap.summary = summary
    BY <1>1, <1>5 DEF TurnSnapshot, TurnRecord, Snapshot, TInv, TypeOK
  <2>2. Talk' \subseteq Talk /\ Results' \subseteq Results
    BY <1>5, <2>1 DEF TurnSnapshot, Talk, Results
  <2>3. QED
    BY <1>5, <2>1, <2>2, CopyingKeepsApart DEF TurnSnapshot, TInv, TypeOK, TurnRecord
<1>6. CASE TurnWrite
  <2>1. /\ turn' \in TurnRecord /\ turn'.pc = "finish" /\ turn'.prompt = turn.prompt
        /\ turn'.snap = Empty
    BY <1>1, <1>6, EmptyIds DEF TurnWrite, TurnRecord
  <2>2. file' \in {turn.snap, file} /\ file' \in Snapshot
    BY <1>1, <1>6 DEF TurnWrite, TurnRecord
  <2>3. Talk' \subseteq Talk /\ Results' \subseteq Results
    BY <1>6, <2>1, <2>2, EmptyIds DEF TurnWrite, Talk, Results, Empty
  <2>4. QED
    BY <1>6, <2>1, <2>2, <2>3, CopyingKeepsApart DEF TurnWrite, TInv, TypeOK, TurnRecord
<1>7. CASE FinishTurn
  <2>1. turn' \in TurnRecord /\ turn'.pc = "idle" /\ turn'.prompt = Empty /\ turn'.snap = Empty
    BY <1>7, EmptyIds DEF FinishTurn, IdleTurn, TurnRecord
  <2>2. /\ summarizer' \in SummarizerRecord
        /\ \/ summarizer' = summarizer
           \/ /\ summarizer'.history = <<>> /\ summarizer'.text = {} /\ summarizer'.snap = Empty
    <3>1. CASE summarizer' = summarizer
      BY <1>1, <3>1
    <3>2. CASE summarizer' = [NoSummarizer EXCEPT !.pc = "start"]
      <4>1. summarizer' = [pc |-> "start", history |-> <<>>, text |-> {}, snap |-> Empty]
        BY <3>2 DEF NoSummarizer
      <4>2. QED
        BY <4>1, EmptyIds DEF SummarizerRecord
    <3>3. QED
      BY <1>7, <3>1, <3>2 DEF FinishTurn
  <2>3. Talk' \subseteq Talk /\ Results' \subseteq Results
    BY <1>7, <2>1, <2>2, EmptyIds DEF FinishTurn, Talk, Results, Empty
  <2>4. QED
    BY <1>7, <2>1, <2>2, <2>3, CopyingKeepsApart
    DEF FinishTurn, TInv, TypeOK, TurnRecord, SummarizerRecord
<1>8. QED
  BY <1>2, <1>3, <1>4, <1>5, <1>6, <1>7

LEMMA SummarizerType == ASSUME TInv, Summarizer PROVE TInv'
<1>1. /\ messages \in Seq(Message) /\ summary \subseteq Nat /\ file \in Snapshot
      /\ turn \in TurnRecord /\ summarizer \in SummarizerRecord
      /\ count \in 0 .. MaxMessages /\ forgotten \subseteq 1 .. count
      /\ crashes \in 0 .. MaxCrashes
      /\ turn.pc = "tools" => turn.left # 0
  BY TInvParts
<1>2. /\ summarizer.history \in Seq(Message) /\ summarizer.text \subseteq Nat
      /\ summarizer.snap \in Snapshot
  BY <1>1 DEF SummarizerRecord
<1>3. NoSummarizer \in SummarizerRecord
  BY EmptyIds DEF NoSummarizer, SummarizerRecord
<1>4. summary \cup dialogue \cup Ids(messages) \subseteq 1 .. count
  BY IdsSplit DEF TInv, Talk, Results
<1>5. ASSUME summarizer' = NoSummarizer, file' = file \/ file' = summarizer.snap,
             UNCHANGED <<messages, summary, turn, count, dialogue, forgotten, crashes>>
      PROVE  TInv'
  <2>1. /\ summarizer'.history = <<>> /\ summarizer'.text = {} /\ summarizer'.snap = Empty
        /\ file' \in Snapshot /\ summarizer' \in SummarizerRecord
    BY <1>1, <1>2, <1>3, <1>5 DEF NoSummarizer
  <2>2. Talk' \subseteq Talk /\ Results' \subseteq Results
    BY <1>5, <2>1, EmptyIds DEF Talk, Results, Empty
  <2>3. QED
    BY <1>1, <1>5, <2>1, <2>2, CopyingKeepsApart, NextTInv
<1>6. CASE SummarizerReads
  <2> DEFINE old == SubSeq(messages, 1, Len(messages) - Keep)
  <2>1. CASE summarizer' = NoSummarizer
    BY <1>5, <1>6, <2>1 DEF SummarizerReads
  <2>2. CASE summarizer' = [summarizer EXCEPT !.pc = "llm", !.history = old] /\ Len(messages) > Keep
    <3>1. /\ old \in Seq(Message) /\ Spoken(old) \subseteq Spoken(messages)
          /\ ToolIds(old) \subseteq ToolIds(messages)
      <4>1. Len(messages) - Keep \in Nat /\ Len(messages) - Keep <= Len(messages)
        BY <1>1, <2>2, LenProperties
      <4>2. QED
        BY <1>1, <4>1, SubSeqIds
    <3> HIDE DEF old
    <3>2. /\ summarizer' \in SummarizerRecord /\ summarizer'.history = old
          /\ summarizer'.text = summarizer.text /\ summarizer'.snap = summarizer.snap
      BY <1>1, <2>2, <3>1 DEF SummarizerRecord
    <3>3. UNCHANGED <<messages, summary, file, turn, count, dialogue, forgotten, crashes>>
      BY <1>6 DEF SummarizerReads
    <3>4. Talk' \subseteq Talk /\ Results' \subseteq Results
      BY <3>1, <3>2, <3>3 DEF Talk, Results
    <3>5. QED
      BY <1>1, <3>2, <3>3, <3>4, CopyingKeepsApart, NextTInv
  <2>3. Len(messages) \in Nat
    BY <1>1, LenProperties
  <2>4. QED
    BY <1>6, <2>1, <2>2, <2>3 DEF SummarizerReads
<1>7. CASE SummarizerAsks
  <2>1. CASE summarizer' = NoSummarizer
    BY <1>5, <1>7, <2>1 DEF SummarizerAsks
  <2>2. CASE \E text \in NewSummaries(summarizer.history) :
               summarizer' = [summarizer EXCEPT !.pc = "summary", !.text = text, !.history = <<>>]
    <3>1. PICK text \in NewSummaries(summarizer.history) :
               summarizer' = [summarizer EXCEPT !.pc = "summary", !.text = text, !.history = <<>>]
      BY <2>2
    <3>2. text \subseteq summary \cup Spoken(summarizer.history)
      BY NewSummariesIds
    <3>3. text \subseteq Nat
      <4>1. text \subseteq 1 .. count
        BY <3>2 DEF TInv, Talk
      <4>2. QED
        BY <1>1, <4>1
    <3>4. /\ summarizer' \in SummarizerRecord /\ summarizer'.history = <<>>
          /\ summarizer'.text = text /\ summarizer'.snap = summarizer.snap
      <4>1. summarizer' = [pc |-> "summary", history |-> <<>>, text |-> text,
                           snap |-> summarizer.snap]
        BY <1>1, <3>1 DEF SummarizerRecord
      <4>2. <<>> \in Seq(Message)
        OBVIOUS
      <4>3. QED
        BY <1>2, <3>3, <4>1, <4>2 DEF SummarizerRecord
    <3>5. UNCHANGED <<messages, summary, file, turn, count, dialogue, forgotten, crashes>>
      BY <1>7 DEF SummarizerAsks
    <3>6. Talk' \subseteq Talk /\ Results' \subseteq Results
      BY <3>2, <3>4, <3>5, EmptyIds DEF Talk, Results
    <3>7. QED
      BY <1>1, <3>4, <3>5, <3>6, CopyingKeepsApart, NextTInv
  <2>3. QED
    BY <1>7, <2>1, <2>2 DEF SummarizerAsks
<1>8. CASE SetSummary
  <2>1. /\ summarizer' \in SummarizerRecord /\ summarizer'.history = summarizer.history
        /\ summarizer'.text = summarizer.text /\ summarizer'.snap = summarizer.snap
    BY <1>1, <1>8 DEF SetSummary, SummarizerRecord
  <2>2. /\ summary' = summarizer.text
        /\ UNCHANGED <<messages, file, turn, count, dialogue, crashes>>
        /\ forgotten' \subseteq forgotten \cup summary
    BY <1>8 DEF SetSummary
  <2>3. Talk' \subseteq Talk /\ Results' \subseteq Results
    BY <2>1, <2>2 DEF Talk, Results
  <2>4. QED
    BY <1>1, <1>2, <1>4, <2>1, <2>2, <2>3, CopyingKeepsApart, NextTInv
<1>9. CASE TruncateHistory
  <2>1. /\ summarizer' \in SummarizerRecord /\ summarizer'.history = summarizer.history
        /\ summarizer'.text = summarizer.text /\ summarizer'.snap = summarizer.snap
    BY <1>1, <1>9 DEF TruncateHistory, SummarizerRecord
  <2>2. /\ messages' \in Seq(Message) /\ Spoken(messages') \subseteq Spoken(messages)
        /\ ToolIds(messages') \subseteq ToolIds(messages)
    BY <1>1, <1>9, LastIds DEF TruncateHistory
  <2>3. /\ UNCHANGED <<summary, file, turn, count, dialogue, crashes>>
        /\ forgotten' \subseteq forgotten \cup dialogue
    BY <1>9 DEF TruncateHistory
  <2>4. Talk' \subseteq Talk /\ Results' \subseteq Results
    BY <2>1, <2>2, <2>3 DEF Talk, Results
  <2>5. QED
    BY <1>1, <1>4, <2>1, <2>2, <2>3, <2>4, CopyingKeepsApart, NextTInv
<1>10. CASE SummarizerSnapshot
  <2>1. [messages |-> messages, summary |-> summary] \in Snapshot
    BY <1>1 DEF Snapshot
  <2>2. /\ summarizer' \in SummarizerRecord /\ summarizer'.history = summarizer.history
        /\ summarizer'.text = summarizer.text
        /\ summarizer'.snap = [messages |-> messages, summary |-> summary]
    BY <1>1, <1>10, <2>1 DEF SummarizerSnapshot, SummarizerRecord
  <2>3. UNCHANGED <<messages, summary, file, turn, count, dialogue, forgotten, crashes>>
    BY <1>10 DEF SummarizerSnapshot
  <2>4. Talk' \subseteq Talk /\ Results' \subseteq Results
    BY <2>2, <2>3 DEF Talk, Results
  <2>5. QED
    BY <1>1, <2>2, <2>3, <2>4, CopyingKeepsApart, NextTInv
<1>11. CASE SummarizerWrite
  BY <1>5, <1>11 DEF SummarizerWrite
<1>12. QED
  BY <1>6, <1>7, <1>8, <1>9, <1>10, <1>11 DEF Summarizer

LEMMA CrashType == ASSUME TInv, CrashAndLoad PROVE TInv'
<1>1. /\ file \in Snapshot /\ count \in 0 .. MaxMessages /\ forgotten \subseteq 1 .. count
      /\ crashes \in 0 .. MaxCrashes
  BY TInvParts
<1>2. crashes' \in 0 .. MaxCrashes
  <2>1. crashes < MaxCrashes /\ crashes' = crashes + 1
    BY DEF CrashAndLoad
  <2>2. QED
    BY <1>1, <2>1
<1>3. /\ messages' = file.messages /\ summary' = file.summary
      /\ messages' \in Seq(Message) /\ summary' \subseteq Nat
      /\ dialogue' = Spoken(file.messages) \cup file.summary
      /\ UNCHANGED <<file, count, forgotten>>
  BY <1>1 DEF CrashAndLoad, Snapshot
<1>4. /\ turn' \in TurnRecord /\ turn'.pc = "idle" /\ turn'.prompt = Empty /\ turn'.snap = Empty
      /\ summarizer' \in SummarizerRecord /\ summarizer'.history = <<>>
      /\ summarizer'.text = {} /\ summarizer'.snap = Empty
  BY EmptyIds DEF CrashAndLoad, IdleTurn, NoSummarizer, TurnRecord, SummarizerRecord
<1>5. Talk' \subseteq Talk /\ Results' \subseteq Results
  BY <1>3, <1>4, EmptyIds DEF Talk, Results, Empty
<1>6. QED
  BY <1>1, <1>2, <1>3, <1>4, <1>5, CopyingKeepsApart, NextTInv

LEMMA StutterType == ASSUME TInv, UNCHANGED vars PROVE TInv'
<1>1. Talk' = Talk /\ Results' = Results
  BY DEF vars, Talk, Results
<1>2. QED
  BY <1>1, TInvParts, CopyingKeepsApart, NextTInv DEF vars

LEMMA TInvIsInvariant == Spec => []TInv
<1>1. Init => TInv
  BY InitType
<1>2. TInv /\ [Next]_vars => TInv'
  BY AddType, TurnType, SummarizerType, CrashType, StutterType DEF Next, Turn
<1>3. QED
  BY <1>1, <1>2, PTL DEF Spec

\* The types hold in every state: among them, no message of the dialogue and none that is
\* forgotten is one AddMessage never added, whatever the summarizer and the turn interleave.
THEOREM TypeCorrect == Spec => []TypeOK
<1>1. TInv => TypeOK
  BY DEF TInv
<1>2. QED
  BY <1>1, TInvIsInvariant, PTL

-----------------------------------------------------------------------------
\* A prompt has no gap.  While a turn is between GetHistory and GetSummary no message is
\* added, so the session's messages are among those it has read, and what the session has
\* lost since then is in the summary it is about to read.

NoGap ==
    /\ dialogue \ forgotten \subseteq Spoken(messages) \cup summary
    /\ turn.pc = "history" =>
         /\ Spoken(messages) \subseteq Spoken(turn.prompt.messages)
         /\ dialogue \ forgotten \subseteq Spoken(turn.prompt.messages) \cup summary
    /\ turn.pc = "prompted" =>
         dialogue \ forgotten \subseteq Spoken(turn.prompt.messages) \cup turn.prompt.summary

LEMMA TurnNoGap == ASSUME TInv, NoGap, Turn PROVE NoGap'
<1>1. messages \in Seq(Message) /\ turn \in TurnRecord
  BY TInvParts
<1>2. ASSUME turn'.pc \notin {"history", "prompted"},
             UNCHANGED <<messages, summary, dialogue, forgotten>>
      PROVE  NoGap'
  BY <1>2 DEF NoGap
<1>3. ASSUME NEW role \in Role, NEW calls \in 0 .. MaxCalls, Add(role, calls),
             turn'.pc \notin {"history", "prompted"}, UNCHANGED <<summary, forgotten>>
      PROVE  NoGap'
  <2>1. /\ dialogue' \subseteq dialogue \cup Spoken(messages')
        /\ Spoken(messages) \subseteq Spoken(messages')
    BY <1>3, AddEffect
  <2>2. QED
    BY <1>3, <2>1 DEF NoGap
<1>4. CASE ReadHistory
  <2>1. /\ turn'.pc = "history" /\ turn'.prompt.messages = StripOrphans(messages)
        /\ UNCHANGED <<messages, summary, dialogue, forgotten>>
    BY <1>1, <1>4 DEF ReadHistory, TurnRecord, Snapshot
  <2>2. Spoken(turn'.prompt.messages) = Spoken(messages)
    BY <1>1, <2>1, StripIds
  <2>3. QED
    BY <2>1, <2>2 DEF NoGap
<1>5. CASE ReadSummary
  <2>1. /\ turn.pc = "history" /\ turn'.pc = "prompted"
        /\ turn'.prompt.messages = turn.prompt.messages /\ turn'.prompt.summary = summary
        /\ UNCHANGED <<messages, summary, dialogue, forgotten>>
    BY <1>1, <1>5 DEF ReadSummary, TurnRecord, Snapshot
  <2>2. QED
    BY <2>1 DEF NoGap
<1>6. CASE AddUserMessage
  <2>1. /\ Add("user", 0) /\ UNCHANGED <<summary, forgotten>> /\ "user" \in Role
        /\ turn'.pc = "llm" /\ 0 \in 0 .. MaxCalls
    BY <1>1, <1>6 DEF AddUserMessage, Role, TurnRecord
  <2>2. QED
    BY <1>3, <2>1
<1>7. CASE \E k \in 1 .. MaxCalls : CallTools(k)
  <2>1. PICK k \in 1 .. MaxCalls : CallTools(k)
    BY <1>7
  <2>2. /\ Add("assistant", k) /\ UNCHANGED <<summary, forgotten>> /\ "assistant" \in Role
        /\ turn'.pc = "tools"
    BY <1>1, <2>1 DEF CallTools, Role, TurnRecord
  <2>3. QED
    BY <1>3, <2>2
<1>8. CASE ToolResult
  <2>1. /\ Add("tool", 0) /\ UNCHANGED <<summary, forgotten>> /\ "tool" \in Role
        /\ turn'.pc \in {"llm", "tools"} /\ 0 \in 0 .. MaxCalls
    BY <1>1, <1>8 DEF ToolResult, Role, TurnRecord
  <2>2. QED
    BY <1>3, <2>1
<1>9. CASE Answer
  <2>1. /\ Add("assistant", 0) /\ UNCHANGED <<summary, forgotten>> /\ "assistant" \in Role
        /\ turn'.pc = "save" /\ 0 \in 0 .. MaxCalls
    BY <1>1, <1>9 DEF Answer, Role, TurnRecord
  <2>2. QED
    BY <1>3, <2>1
<1>10. CASE LlmFails \/ FinishTurn
  <2>1. turn' = IdleTurn /\ UNCHANGED <<messages, summary, dialogue, forgotten>>
    BY <1>10 DEF LlmFails, FinishTurn
  <2>2. QED
    BY <1>2, <2>1 DEF IdleTurn
<1>11. CASE TurnSnapshot \/ TurnWrite
  <2>1. UNCHANGED <<messages, summary, dialogue, forgotten>>
    BY <1>11 DEF TurnSnapshot, TurnWrite
  <2>2. turn'.pc \in {"write", "finish"}
    BY <1>1, <1>11 DEF TurnSnapshot, TurnWrite, TurnRecord
  <2>3. QED
    BY <1>2, <2>1, <2>2
<1>12. QED
  BY <1>4, <1>5, <1>6, <1>7, <1>8, <1>9, <1>10, <1>11 DEF Turn

LEMMA SummarizerNoGap == ASSUME TInv, NoGap, Summarizer PROVE NoGap'
<1>1. messages \in Seq(Message)
  BY TInvParts
<1>2. \A x \in dialogue : x \in Ids(messages) => x \in Spoken(messages)
  BY IdsSplit DEF TInv, Talk, Results
<1>3. CASE SetSummary
  <2>1. /\ UNCHANGED <<messages, turn, dialogue>>
        /\ forgotten' = forgotten \cup (summary \ (summary' \cup Ids(messages)))
    BY <1>3 DEF SetSummary
  <2>2. dialogue \ forgotten' \subseteq dialogue \ forgotten
    BY <2>1
  <2>3. \A x \in dialogue \ forgotten' : x \in summary => x \in summary' \cup Spoken(messages)
    BY <1>2, <2>1
  <2>4. QED
    BY <2>1, <2>2, <2>3 DEF NoGap
<1>4. CASE TruncateHistory
  <2>1. /\ UNCHANGED <<summary, turn, dialogue>>
        /\ messages' = Last(messages, Keep)
        /\ forgotten' = forgotten \cup
                ((dialogue \cap Ids(messages)) \ (Ids(messages') \cup summary))
    BY <1>4 DEF TruncateHistory
  <2>2. /\ Spoken(messages') \subseteq Spoken(messages)
        /\ ToolIds(messages') \subseteq ToolIds(messages)
    BY <1>1, <2>1, LastIds
  <2>3. \A x \in dialogue : x \notin ToolIds(messages')
    BY <2>2 DEF TInv, Talk, Results
  <2>4. \A x \in dialogue \ forgotten' :
            x \in Spoken(messages) => x \in Spoken(messages') \cup summary
    <3>1. Ids(messages) = Spoken(messages) \cup ToolIds(messages)
      BY IdsSplit
    <3>2. Ids(messages') = Spoken(messages') \cup ToolIds(messages')
      BY IdsSplit
    <3>3. QED
      BY <2>1, <2>3, <3>1, <3>2
  <2>5. QED
    BY <2>1, <2>2, <2>4 DEF NoGap
<1>5. CASE SummarizerReads \/ SummarizerAsks \/ SummarizerSnapshot \/ SummarizerWrite
  <2>1. UNCHANGED <<messages, summary, turn, dialogue, forgotten>>
    BY <1>5 DEF SummarizerReads, SummarizerAsks, SummarizerSnapshot, SummarizerWrite
  <2>2. QED
    BY <2>1 DEF NoGap
<1>6. QED
  BY <1>3, <1>4, <1>5 DEF Summarizer

LEMMA NoGapIsInvariant == Spec => []NoGap
<1>1. Init => NoGap
  BY DEF Init, NoGap, IdleTurn
<1>2. TInv /\ NoGap /\ [Next]_vars => NoGap'
  <2>1. ASSUME NoGap, CrashAndLoad PROVE NoGap'
    BY <2>1 DEF CrashAndLoad, NoGap, IdleTurn
  <2>2. ASSUME NoGap, UNCHANGED vars PROVE NoGap'
    BY <2>2 DEF vars, NoGap
  <2>3. QED
    BY <2>1, <2>2, TurnNoGap, SummarizerNoGap DEF Next
<1>3. QED
  BY <1>1, <1>2, TInvIsInvariant, PTL DEF Spec

\* However the summarizer's SetSummary and TruncateHistory fall between a turn's GetHistory
\* and GetSummary, whatever the thresholds: each message of the dialogue that was not
\* dropped before is in the prompt, as itself or in the summary.
THEOREM PromptComplete == Spec => []PromptHasNoGap
<1>1. NoGap => PromptHasNoGap
  BY IdsSplit DEF NoGap, PromptHasNoGap
<1>2. QED
  BY <1>1, NoGapIsInvariant, PTL

-----------------------------------------------------------------------------
\* Tool results and the calls they answer.

\* The result at i answers a call of the nearest message before it that is no result ...
Belongs(h, i) ==
    \E c \in 1 .. i - 1 : h[c].calls >= i - c /\ \A k \in c + 1 .. i : h[k].role = "tool"

\* ... or the call was cut off the history's head
CutOff(h, i) == \A k \in 1 .. i : h[k].role = "tool"

InOrder(h) == \A i \in DOMAIN h : h[i].role = "tool" => Belongs(h, i) \/ CutOff(h, i)

\* n results of the last call are still to come
Awaits(h, n) ==
    \/ CutOff(h, Len(h))
    \/ \E c \in DOMAIN h : /\ h[c].calls >= Len(h) - c + n
                           /\ \A k \in c + 1 .. Len(h) : h[k].role = "tool"

\* The end of a history from m on, by its elements
LEMMA EndOf ==
    ASSUME NEW h \in Seq(Message), NEW m \in 1 .. Len(h)
    PROVE  LET s == SubSeq(h, m, Len(h)) IN
           /\ s \in Seq(Message)
           /\ Len(h) \in Nat /\ DOMAIN h = 1 .. Len(h)
           /\ Len(s) = Len(h) - m + 1 /\ DOMAIN s = 1 .. Len(s)
           /\ \A i \in DOMAIN s : s[i] = h[m + i - 1]
           /\ \A i \in m .. Len(h) : s[i - m + 1] = h[i]
<1> DEFINE s == SubSeq(h, m, Len(h))
<1>1. Len(h) \in Nat /\ DOMAIN h = 1 .. Len(h)
  BY LenProperties
<1>2. \A i \in m .. Len(h) : h[i] \in Message
  BY <1>1, ElementOfSeq
<1>3. /\ s \in Seq(Message) /\ Len(s) = Len(h) - m + 1
      /\ \A i \in 1 .. Len(h) - m + 1 : s[i] = h[m + i - 1]
  BY <1>1, <1>2, SubSeqProperties
<1>4. DOMAIN s = 1 .. Len(s)
  BY <1>3, LenProperties
<1> HIDE DEF s
<1>5. ASSUME NEW i \in m .. Len(h) PROVE s[i - m + 1] = h[i]
  <2>1. i - m + 1 \in 1 .. Len(h) - m + 1 /\ m + (i - m + 1) - 1 = i
    BY <1>1
  <2>2. QED
    BY <1>3, <2>1
<1>6. QED
  BY <1>1, <1>3, <1>4, <1>5 DEF s

\* Cutting messages off at the head leaves the rest in order.
LEMMA EndInOrder ==
    ASSUME NEW h \in Seq(Message), NEW m \in 1 .. Len(h)
    PROVE  LET s == SubSeq(h, m, Len(h)) IN
           /\ InOrder(h) => InOrder(s)
           /\ \A n \in Nat : Awaits(h, n) => Awaits(s, n)
<1> DEFINE s == SubSeq(h, m, Len(h))
<1>1. /\ Len(h) \in Nat /\ DOMAIN h = 1 .. Len(h)
      /\ Len(s) = Len(h) - m + 1 /\ DOMAIN s = 1 .. Len(s)
      /\ \A i \in DOMAIN s : s[i] = h[m + i - 1]
      /\ \A i \in m .. Len(h) : s[i - m + 1] = h[i]
  BY EndOf
<1>2. \A i \in DOMAIN h : h[i].calls \in Nat
  <2>1. \A i \in DOMAIN h : h[i] \in Message
    BY <1>1, ElementOfSeq
  <2>2. QED
    BY <2>1 DEF Message
<1> HIDE DEF s
<1>3. ASSUME InOrder(h), NEW i \in DOMAIN s, s[i].role = "tool"
      PROVE  Belongs(s, i) \/ CutOff(s, i)
  <2> DEFINE j == m + i - 1
  <2>1. j \in m .. Len(h) /\ h[j].role = "tool" /\ j - m + 1 = i
    BY <1>1, <1>3
  <2>2. CASE CutOff(h, j)
    <3>1. \A k \in 1 .. i : k \in DOMAIN s /\ m + k - 1 \in 1 .. j
      BY <1>1, <2>1
    <3>2. QED
      BY <1>1, <2>2, <3>1 DEF CutOff
  <2>3. CASE Belongs(h, j)
    <3>1. PICK c \in 1 .. j - 1 : h[c].calls >= j - c /\ \A k \in c + 1 .. j : h[k].role = "tool"
      BY <2>3 DEF Belongs
    <3>2. CASE c >= m
      <4>0. c \in m .. Len(h)
        <5>1. /\ c \in Nat /\ c >= m /\ c <= j - 1
              /\ j \in Nat /\ j <= Len(h) /\ m \in Nat /\ Len(h) \in Nat
          BY <1>1, <2>1, <3>1, <3>2
        <5> HIDE DEF j
        <5>2. QED
          BY <5>1
      <4>1. /\ c - m + 1 \in 1 .. i - 1 /\ s[c - m + 1] = h[c]
            /\ j - c = i - (c - m + 1)
        BY <1>1, <2>1, <3>1, <4>0
      <4>2. ASSUME NEW k \in (c - m + 1) + 1 .. i PROVE s[k].role = "tool"
        <5>1. /\ c \in m .. Len(h) /\ m \in 1 .. Len(h) /\ Len(h) \in Nat /\ k \in Nat
              /\ k >= (c - m + 1) + 1 /\ k <= i /\ i \in 1 .. Len(s) /\ Len(s) \in Nat
          BY <1>1, <4>0
        <5>2. m + k - 1 \in c + 1 .. j /\ k \in DOMAIN s
          BY <1>1, <5>1
        <5>3. QED
          BY <1>1, <3>1, <5>2
      <4>3. QED
        BY <3>1, <4>1, <4>2 DEF Belongs
    <3>3. CASE c < m
      <4>1. ASSUME NEW k \in 1 .. i PROVE s[k].role = "tool"
        <5>1. m + k - 1 \in c + 1 .. j /\ k \in DOMAIN s
          BY <1>1, <2>1, <3>1, <3>3
        <5>2. QED
          BY <1>1, <3>1, <5>1
      <4>2. QED
        BY <4>1 DEF CutOff
    <3>4. QED
      BY <3>1, <3>2, <3>3
  <2>4. QED
    BY <1>1, <1>3, <2>1, <2>2, <2>3 DEF InOrder
<1>4. ASSUME NEW n \in Nat, Awaits(h, n) PROVE Awaits(s, n)
  <2>1. CASE CutOff(h, Len(h))
    BY <1>1, <2>1 DEF CutOff, Awaits
  <2>2. CASE \E c \in DOMAIN h : /\ h[c].calls >= Len(h) - c + n
                                 /\ \A k \in c + 1 .. Len(h) : h[k].role = "tool"
    <3>1. PICK c \in DOMAIN h : /\ h[c].calls >= Len(h) - c + n
                                /\ \A k \in c + 1 .. Len(h) : h[k].role = "tool"
      BY <2>2
    <3>2. CASE c >= m
      <4>0. c \in m .. Len(h)
        BY <1>1, <3>1, <3>2
      <4>1. /\ c - m + 1 \in DOMAIN s /\ s[c - m + 1] = h[c]
            /\ Len(h) - c = Len(s) - (c - m + 1)
        BY <1>1, <4>0
      <4>2. ASSUME NEW k \in (c - m + 1) + 1 .. Len(s) PROVE s[k].role = "tool"
        <5>1. m + k - 1 \in c + 1 .. Len(h) /\ k \in DOMAIN s
          BY <1>1, <3>1, <3>2
        <5>2. QED
          BY <1>1, <3>1, <5>1
      <4>3. QED
        BY <3>1, <4>1, <4>2 DEF Awaits
    <3>3. CASE c < m
      <4>1. ASSUME NEW k \in 1 .. Len(s) PROVE s[k].role = "tool"
        <5>1. m + k - 1 \in c + 1 .. Len(h) /\ k \in DOMAIN s
          BY <1>1, <3>1, <3>3
        <5>2. QED
          BY <1>1, <3>1, <5>1
      <4>2. QED
        BY <4>1 DEF CutOff, Awaits
    <3>4. QED
      BY <1>1, <3>1, <3>2, <3>3
  <2>3. QED
    BY <1>4, <2>1, <2>2 DEF Awaits
<1>5. QED
  BY <1>3, <1>4 DEF InOrder, s

\* TruncateHistory may cut between a call and its results.
LEMMA LastInOrder ==
    ASSUME NEW h \in Seq(Message)
    PROVE  /\ InOrder(h) => InOrder(Last(h, Keep))
           /\ \A n \in Nat : Awaits(h, n) => Awaits(Last(h, Keep), n)
<1>1. Len(h) \in Nat
  BY LenProperties
<1>2. CASE Len(h) <= Keep
  BY <1>2 DEF Last
<1>3. CASE Len(h) > Keep
  <2>1. Len(h) - Keep + 1 \in 1 .. Len(h)
    BY <1>1, <1>3
  <2>2. Last(h, Keep) = SubSeq(h, Len(h) - Keep + 1, Len(h))
    BY <1>1, <1>3 DEF Last
  <2>3. QED
    BY <2>1, <2>2, EndInOrder
<1>4. QED
  BY <1>1, <1>2, <1>3

\* A message that is no result starts anew; a result is the next of the last call's.
LEMMA AppendInOrder ==
    ASSUME NEW h \in Seq(Message), NEW e \in Message, InOrder(h)
    PROVE  /\ e.role # "tool" => InOrder(Append(h, e)) /\ Awaits(Append(h, e), e.calls)
           /\ \A n \in Nat \ {0} : e.role = "tool" /\ Awaits(h, n) =>
                InOrder(Append(h, e)) /\ Awaits(Append(h, e), n - 1)
<1> DEFINE s == Append(h, e)
<1>1. Len(h) \in Nat /\ DOMAIN h = 1 .. Len(h)
  BY LenProperties
<1>2. /\ s \in Seq(Message)
      /\ Len(s) = Len(h) + 1
      /\ \A i \in 1 .. Len(h) : s[i] = h[i]
      /\ s[Len(h) + 1] = e
  BY AppendProperties
<1>3. DOMAIN s = 1 .. Len(h) + 1
  BY <1>2, LenProperties
<1>4. e.calls \in Nat
  BY DEF Message
<1> HIDE DEF s
<1>5. ASSUME NEW i \in DOMAIN h, s[i].role = "tool" PROVE Belongs(s, i) \/ CutOff(s, i)
  <2>1. h[i].role = "tool"
    BY <1>1, <1>2, <1>5
  <2>2. CASE CutOff(h, i)
    BY <1>1, <1>2, <2>2 DEF CutOff
  <2>3. CASE Belongs(h, i)
    <3>1. PICK c \in 1 .. i - 1 : h[c].calls >= i - c /\ \A k \in c + 1 .. i : h[k].role = "tool"
      BY <2>3 DEF Belongs
    <3>2. s[c] = h[c] /\ \A k \in c + 1 .. i : s[k] = h[k]
      BY <1>1, <1>2, <3>1
    <3>3. QED
      BY <3>1, <3>2 DEF Belongs
  <2>4. QED
    BY <2>1, <2>2, <2>3 DEF InOrder
<1>6. ASSUME e.role # "tool" PROVE InOrder(s) /\ Awaits(s, e.calls)
  <2>1. InOrder(s)
    BY <1>1, <1>2, <1>3, <1>5, <1>6 DEF InOrder
  <2>2. Awaits(s, e.calls)
    <3>1. Len(h) + 1 \in DOMAIN s /\ s[Len(h) + 1].calls >= Len(s) - (Len(h) + 1) + e.calls
      BY <1>1, <1>2, <1>3, <1>4
    <3>2. \A k \in (Len(h) + 1) + 1 .. Len(s) : FALSE
      BY <1>1, <1>2
    <3>3. QED
      BY <3>1, <3>2 DEF Awaits
  <2>3. QED
    BY <2>1, <2>2
<1>7. ASSUME NEW n \in Nat \ {0}, e.role = "tool", Awaits(h, n)
      PROVE  InOrder(s) /\ Awaits(s, n - 1)
  <2>1. CASE CutOff(h, Len(h))
    <3>1. CutOff(s, Len(s))
      BY <1>1, <1>2, <1>7, <2>1 DEF CutOff
    <3>2. QED
      BY <1>1, <1>2, <1>3, <1>5, <3>1 DEF InOrder, Awaits
  <2>2. CASE \E c \in DOMAIN h : /\ h[c].calls >= Len(h) - c + n
                                 /\ \A k \in c + 1 .. Len(h) : h[k].role = "tool"
    <3>1. PICK c \in DOMAIN h : /\ h[c].calls >= Len(h) - c + n
                                /\ \A k \in c + 1 .. Len(h) : h[k].role = "tool"
      BY <2>2
    <3>2. \A k \in c + 1 .. Len(s) : s[k].role = "tool"
      BY <1>1, <1>2, <1>7, <3>1
    <3>3. h[c].calls \in Nat /\ s[c] = h[c]
      <4>1. h[c] \in Message
        BY <1>1, <3>1, ElementOfSeq
      <4>2. QED
        BY <1>1, <1>2, <3>1, <4>1 DEF Message
    <3>4. /\ c \in 1 .. Len(s) - 1 /\ c \in DOMAIN s
          /\ s[c].calls >= Len(s) - c + (n - 1)
      BY <1>1, <1>2, <1>3, <3>1, <3>3
    <3>5. s[c].calls >= Len(s) - c
      BY <1>1, <1>2, <3>1, <3>3, <3>4
    <3>6. Awaits(s, n - 1) /\ Belongs(s, Len(s))
      BY <3>2, <3>4, <3>5 DEF Awaits, Belongs
    <3>7. QED
      BY <1>1, <1>2, <1>3, <1>5, <3>6 DEF InOrder
  <2>3. QED
    BY <1>7, <2>1, <2>2 DEF Awaits
<1>8. QED
  BY <1>6, <1>7 DEF s

\* What BuildMessages leaves has no result without its call.
LEMMA StripLeavesNoOrphan ==
    ASSUME NEW h \in Seq(Message), InOrder(h)
    PROVE  LET s == StripOrphans(h) IN
           \A i \in DOMAIN s : s[i].role = "tool" => Belongs(s, i)
<1> DEFINE kept == {i \in DOMAIN h : h[i].role # "tool"}
<1>1. Len(h) \in Nat /\ DOMAIN h = 1 .. Len(h)
  BY LenProperties
<1>2. CASE kept = {}
  BY <1>2 DEF StripOrphans
<1>3. CASE kept # {}
  <2> DEFINE first == CHOOSE i \in kept : \A k \in kept : i <= k
             s == SubSeq(h, first, Len(h))
  <2>1. first \in kept
    <3>1. kept \in SUBSET Nat
      BY <1>1
    <3>2. \E i \in kept : \A k \in kept : i <= k
      <4> HIDE DEF kept
      <4> QED
        BY <1>3, <3>1, FirstPosition
    <3>3. QED
      BY <3>2
  <2>2. StripOrphans(h) = s
    BY <1>3 DEF StripOrphans
  <2> HIDE DEF first
  <2>3. first \in 1 .. Len(h) /\ h[first].role # "tool"
    BY <1>1, <2>1
  <2>4. InOrder(s)
    BY <2>3, EndInOrder
  <2>5. DOMAIN s = 1 .. Len(s) /\ Len(s) = Len(h) - first + 1 /\ s[1] = h[first]
    <3>1. /\ DOMAIN s = 1 .. Len(s) /\ Len(s) = Len(h) - first + 1
          /\ s[first - first + 1] = h[first]
      BY <1>1, <2>3, EndOf
    <3>2. first - first + 1 = 1
      BY <2>3
    <3>3. QED
      BY <3>1, <3>2
  <2> HIDE DEF s
  <2>6. \A i \in DOMAIN s : ~CutOff(s, i)
    BY <1>1, <2>3, <2>5 DEF CutOff
  <2>7. QED
    BY <2>2, <2>4, <2>6 DEF InOrder
<1>4. QED
  BY <1>2, <1>3

-----------------------------------------------------------------------------
\* Whatever is kept of the history is in order, and during the rounds of a turn the session
\* still awaits the results that are left.
Ordered ==
    /\ InOrder(messages) /\ InOrder(file.messages)
    /\ InOrder(turn.snap.messages) /\ InOrder(summarizer.snap.messages)
    /\ turn.pc = "tools" => Awaits(messages, turn.left)
    /\ NoOrphanResults

LEMMA EmptyInOrder == InOrder(<<>>)
BY DEF InOrder

\* A step that leaves the messages and the file alone
LEMMA OrderedKept ==
    ASSUME Ordered, UNCHANGED <<messages, file>>,
           turn'.pc = "tools" => turn.pc = "tools" /\ turn'.left = turn.left,
           turn'.snap \in {turn.snap, Empty, [messages |-> messages, summary |-> summary]},
           summarizer'.snap \in {summarizer.snap, Empty,
                                 [messages |-> messages, summary |-> summary]},
           NoOrphanResults'
    PROVE  Ordered'
BY EmptyInOrder DEF Ordered, Empty

LEMMA TurnOrdered == ASSUME TInv, Ordered, Turn PROVE Ordered'
<1>1. messages \in Seq(Message) /\ turn \in TurnRecord /\ summarizer \in SummarizerRecord
  BY TInvParts
<1>2. CASE ReadHistory
  <2>1. /\ turn' = [turn EXCEPT !.pc = "history", !.prompt.messages = StripOrphans(messages)]
        /\ UNCHANGED <<messages, summary, file, summarizer>>
    BY <1>2 DEF ReadHistory
  <2>2. /\ turn'.pc = "history" /\ turn'.snap = turn.snap
        /\ turn'.prompt.messages = StripOrphans(messages)
    BY <1>1, <2>1 DEF TurnRecord, Snapshot
  <2>3. NoOrphanResults'
    BY <1>1, <2>2, StripLeavesNoOrphan DEF Ordered, NoOrphanResults, Belongs
  <2>4. QED
    BY <2>1, <2>2, <2>3, OrderedKept
<1>3. CASE ReadSummary
  <2>1. /\ turn' = [turn EXCEPT !.pc = "prompted", !.prompt.summary = summary]
        /\ turn.pc = "history"
        /\ UNCHANGED <<messages, summary, file, summarizer>>
    BY <1>3 DEF ReadSummary
  <2>2. /\ turn'.pc = "prompted" /\ turn'.snap = turn.snap
        /\ turn'.prompt.messages = turn.prompt.messages
    BY <1>1, <2>1 DEF TurnRecord, Snapshot
  <2>3. NoOrphanResults'
    BY <2>1, <2>2 DEF Ordered, NoOrphanResults
  <2>4. QED
    BY <2>1, <2>2, <2>3, OrderedKept
<1>4. ASSUME NEW role \in Role \ {"tool"}, NEW calls \in 0 .. MaxCalls, Add(role, calls),
             turn'.pc \in {"llm", "tools", "save"}, turn'.pc = "tools" => turn'.left = calls,
             turn'.snap = turn.snap, UNCHANGED <<file, summarizer>>
      PROVE  Ordered'
  <2> DEFINE e == [id |-> count + 1, role |-> role, calls |-> calls]
  <2>1. e \in Message /\ e.role # "tool" /\ e.calls = calls
    BY DEF Message, TInv, TypeOK
  <2>2. messages' = Append(messages, e)
    BY <1>4 DEF Add
  <2> HIDE DEF e
  <2>3. InOrder(messages') /\ Awaits(messages', calls)
    BY <1>1, <2>1, <2>2, AppendInOrder DEF Ordered
  <2>4. QED
    BY <1>4, <2>3 DEF Ordered, NoOrphanResults
<1>5. CASE AddUserMessage
  <2>1. Add("user", 0) /\ "user" \in Role \ {"tool"} /\ 0 \in 0 .. MaxCalls
    BY <1>5 DEF AddUserMessage, Role
  <2>2. turn'.pc = "llm" /\ turn'.snap = turn.snap /\ UNCHANGED <<file, summarizer>>
    BY <1>1, <1>5 DEF AddUserMessage, TurnRecord
  <2>3. QED
    BY <1>4, <2>1, <2>2
<1>6. CASE LlmFails
  <2>1. turn' = IdleTurn /\ UNCHANGED <<messages, file, summarizer>>
    BY <1>6 DEF LlmFails
  <2>2. QED
    BY <2>1, OrderedKept DEF IdleTurn, NoOrphanResults
<1>7. ASSUME NEW k \in 1 .. MaxCalls, CallTools(k) PROVE Ordered'
  <2>1. Add("assistant", k) /\ "assistant" \in Role \ {"tool"} /\ k \in 0 .. MaxCalls
    BY <1>7 DEF CallTools, Role
  <2>2. /\ turn'.pc = "tools" /\ turn'.left = k /\ turn'.snap = turn.snap
        /\ UNCHANGED <<file, summarizer>>
    BY <1>1, <1>7 DEF CallTools, TurnRecord
  <2>3. QED
    BY <1>4, <2>1, <2>2
<1>8. CASE ToolResult
  <2> DEFINE e == [id |-> count + 1, role |-> "tool", calls |-> 0]
  <2>1. e \in Message /\ e.role = "tool"
    BY DEF Message, Role, TInv, TypeOK
  <2>2. messages' = Append(messages, e) /\ turn.pc = "tools" /\ UNCHANGED <<file, summarizer>>
    BY <1>8 DEF ToolResult, Add
  <2>3. /\ turn'.pc \in {"llm", "tools"} /\ turn'.left = turn.left - 1 /\ turn'.snap = turn.snap
        /\ turn.left \in Nat \ {0}
    BY <1>1, <1>8, TInvParts DEF ToolResult, TurnRecord
  <2> HIDE DEF e
  <2>4. InOrder(messages') /\ Awaits(messages', turn.left - 1)
    BY <1>1, <2>1, <2>2, <2>3, AppendInOrder DEF Ordered
  <2>5. QED
    BY <2>2, <2>3, <2>4 DEF Ordered, NoOrphanResults
<1>9. CASE Answer
  <2>1. Add("assistant", 0) /\ "assistant" \in Role \ {"tool"} /\ 0 \in 0 .. MaxCalls
    BY <1>9 DEF Answer, Role
  <2>2. turn'.pc = "save" /\ turn'.snap = turn.snap /\ UNCHANGED <<file, summarizer>>
    BY <1>1, <1>9 DEF Answer, TurnRecord
  <2>3. QED
    BY <1>4, <2>1, <2>2
<1>10. CASE TurnSnapshot
  <2>1. /\ turn'.pc = "write" /\ turn'.snap = [messages |-> messages, summary |-> summary]
        /\ UNCHANGED <<messages, file, summarizer>>
    BY <1>1, <1>10 DEF TurnSnapshot, TurnRecord
  <2>2. QED
    BY <2>1, OrderedKept DEF NoOrphanResults
<1>11. CASE TurnWrite
  <2>1. /\ turn'.pc = "finish" /\ turn'.snap = Empty /\ file' \in {turn.snap, file}
        /\ UNCHANGED <<messages, summarizer>>
    BY <1>1, <1>11 DEF TurnWrite, TurnRecord
  <2>2. QED
    BY <2>1, EmptyInOrder DEF Ordered, NoOrphanResults, Empty
<1>12. CASE FinishTurn
  <2>1. /\ turn' = IdleTurn /\ UNCHANGED <<messages, file>>
        /\ summarizer' = summarizer \/ summarizer'.snap = Empty
    BY <1>12 DEF FinishTurn, NoSummarizer
  <2>2. QED
    BY <2>1, OrderedKept DEF IdleTurn, NoOrphanResults
<1>13. QED
  BY <1>2, <1>3, <1>5, <1>6, <1>7, <1>8, <1>9, <1>10, <1>11, <1>12 DEF Turn

LEMMA SummarizerOrdered == ASSUME TInv, Ordered, Summarizer PROVE Ordered'
<1>1. messages \in Seq(Message) /\ turn \in TurnRecord /\ summarizer \in SummarizerRecord
  BY TInvParts
<1>2. turn' = turn
  BY DEF Summarizer, SummarizerReads, SummarizerAsks, SetSummary, TruncateHistory,
         SummarizerSnapshot, SummarizerWrite
<1>3. NoOrphanResults'
  BY <1>2 DEF Ordered, NoOrphanResults
<1>4. CASE SummarizerReads \/ SummarizerAsks \/ SetSummary \/ SummarizerSnapshot
  <2>1. UNCHANGED <<messages, file>>
    BY <1>4 DEF SummarizerReads, SummarizerAsks, SetSummary, SummarizerSnapshot
  <2>2. summarizer'.snap \in {summarizer.snap, Empty, [messages |-> messages, summary |-> summary]}
    <3>1. CASE SummarizerReads
      BY <1>1, <3>1 DEF SummarizerReads, NoSummarizer, SummarizerRecord
    <3>2. CASE SummarizerAsks
      <4>1. CASE summarizer' = NoSummarizer
        BY <4>1 DEF NoSummarizer
      <4>2. CASE \E text \in NewSummaries(summarizer.history) :
              summarizer' = [summarizer EXCEPT !.pc = "summary", !.text = text, !.history = <<>>]
        <5>1. PICK text : summarizer' = [summarizer EXCEPT !.pc = "summary", !.text = text,
                                                           !.history = <<>>]
          BY <4>2
        <5>2. QED
          BY <1>1, <5>1 DEF SummarizerRecord
      <4>3. QED
        BY <3>2, <4>1, <4>2 DEF SummarizerAsks
    <3>3. CASE SetSummary
      BY <1>1, <3>3 DEF SetSummary, SummarizerRecord
    <3>4. CASE SummarizerSnapshot
      BY <1>1, <3>4 DEF SummarizerSnapshot, SummarizerRecord
    <3>5. QED
      BY <1>4, <3>1, <3>2, <3>3, <3>4
  <2>3. QED
    BY <1>2, <1>3, <2>1, <2>2, OrderedKept
<1>5. CASE TruncateHistory
  <2>1. messages' = Last(messages, Keep) /\ file' = file /\ summarizer'.snap = summarizer.snap
    BY <1>1, <1>5 DEF TruncateHistory, SummarizerRecord
  <2>2. turn.left \in Nat
    BY <1>1 DEF TurnRecord
  <2>3. QED
    BY <1>1, <1>2, <1>3, <2>1, <2>2, LastInOrder DEF Ordered
<1>6. CASE SummarizerWrite
  <2>1. /\ messages' = messages /\ file' \in {summarizer.snap, file}
        /\ summarizer'.snap = Empty
    BY <1>6 DEF SummarizerWrite, NoSummarizer
  <2>2. QED
    BY <1>2, <1>3, <2>1, EmptyInOrder DEF Ordered, Empty
<1>7. QED
  BY <1>4, <1>5, <1>6 DEF Summarizer

\* Wherever TruncateHistory cuts, also between a call and its results and during a turn, and
\* whatever a crash leaves: no prompt has a tool result without its call, for any number of
\* messages kept (the loop of BuildMessages, context.go:249).
THEOREM EveryResultHasItsCall == Spec => []NoOrphanResults
<1>1. Init => Ordered
  BY EmptyInOrder DEF Init, Ordered, IdleTurn, NoSummarizer, Empty, NoOrphanResults
<1>2. TInv /\ Ordered /\ [Next]_vars => Ordered'
  <2>1. ASSUME Ordered, CrashAndLoad PROVE Ordered'
    BY <2>1, EmptyInOrder
    DEF CrashAndLoad, Ordered, IdleTurn, NoSummarizer, Empty, NoOrphanResults
  <2>2. ASSUME Ordered, UNCHANGED vars PROVE Ordered'
    BY <2>2 DEF vars, Ordered, NoOrphanResults
  <2>3. QED
    BY <2>1, <2>2, TurnOrdered, SummarizerOrdered DEF Next
<1>3. Ordered => NoOrphanResults
  BY DEF Ordered
<1>4. QED
  BY <1>1, <1>2, <1>3, TInvIsInvariant, PTL DEF Spec
=============================================================================
