---------------------------- MODULE QuestionProofs ----------------------------
(***************************************************************************)
(* Theorems about Question: for any tool calls, messages and options, an   *)
(* answer that is accepted is the one the tool returns, and a question is  *)
(* closed once.                                                            *)
(***************************************************************************)
EXTENDS Question, SequenceTheorems, WellFoundedInduction, TLAPS

AskerPc == {"idle", "publish", "lookup", "wait", "cancel", "done"}
QuestionStatus == {"pending", "answered", "cancelled"}
Answers == Texts \cup {""} \cup UNION {ToSet(o) : o \in OptionLists}

QuestionRecord == [options : OptionLists, status : QuestionStatus, answer : Answers]

Channel == {<<>>} \cup {<<x>> : x \in Answers}

Questions ==
    /\ DOMAIN questions \subseteq Askers
    /\ questions \in [DOMAIN questions -> QuestionRecord]

Callbacks ==
    /\ DOMAIN callbacks \subseteq DOMAIN questions
    /\ callbacks \in [DOMAIN callbacks -> Channel]

Calls ==
    /\ asker \in [Askers -> [pc : AskerPc, result : Channel \cup {<<"timeout">>}]]
    /\ \A a \in Askers : asker[a].pc = "idle" <=> a \notin DOMAIN questions

\* A message that was matched with a question will answer that one
Matched ==
    /\ reply \in [Replies -> [pc : {"idle", "answer", "done"}, to : Askers \cup {""},
                              text : Texts \cup {""}]]
    /\ \A r \in Replies :
         reply[r].pc = "answer" => reply[r].to \in DOMAIN questions /\ reply[r].text \in Texts

QuestionTypes == Questions /\ Callbacks /\ Calls /\ Matched /\ expired \subseteq DOMAIN questions

\* A question that is open has an empty channel and a call that has not returned; one that was
\* answered has its answer in the channel until the call takes it; one that was cancelled has
\* no channel.
Channels ==
    \A a \in DOMAIN questions :
      /\ questions[a].status = "pending" =>
           a \in DOMAIN callbacks /\ callbacks[a] = <<>> /\ asker[a].pc # "done"
      /\ questions[a].status = "answered" /\ asker[a].pc \in {"publish", "lookup", "wait"} =>
           a \in DOMAIN callbacks /\ callbacks[a] = <<questions[a].answer>>
      /\ questions[a].status = "cancelled" => a \notin DOMAIN callbacks

\* What a call returned
Results ==
    \A a \in DOMAIN questions :
      asker[a].pc = "done" /\ asker[a].result # <<"timeout">> =>
        asker[a].result = IF questions[a].status = "cancelled" THEN <<"">>
                          ELSE <<questions[a].answer>>

-----------------------------------------------------------------------------
\* A message selects an option, by its number or its text, or is itself the answer.
LEMMA SelectedIsAnswer ==
    ASSUME OptionLists \subseteq Seq(STRING), NEW options \in OptionLists, NEW text \in Texts
    PROVE  Selected(options, text) \in Answers
<1> DEFINE match == {i \in DOMAIN options : text = Number[i] \/ text = options[i]}
<1>1. CASE match = {}
  BY <1>1 DEF Selected, Answers
<1>2. CASE match # {}
  <2>1. options \in Seq(STRING)
    OBVIOUS
  <2>2. DOMAIN options = 1 .. Len(options) /\ Len(options) \in Nat
    BY <2>1, LenProperties
  <2>3. match \in SUBSET Nat
    BY <2>2
  <2>4. Min(match) \in match
    <3> DEFINE R == {p \in Nat \X Nat : p[1] < p[2]}
    <3>1. IsWellFoundedOn(R, Nat)
      BY NatLessThanWellFounded DEF OpToRel
    <3> HIDE DEF match
    <3>2. PICK x \in match : \A y \in match : <<y, x>> \notin R
      <4> HIDE DEF R
      <4> QED
        BY <1>2, <2>3, <3>1, WFMin
    <3>3. ASSUME NEW y \in match PROVE x <= y
      <4>1. x \in Nat /\ y \in Nat /\ ~(y < x)
        BY <2>3, <3>2
      <4>2. QED
        BY <4>1
    <3>4. QED
      BY <3>3 DEF Min
  <2>5. Min(match) \in DOMAIN options
    BY <2>4
  <2>6. Selected(options, text) = options[Min(match)]
    BY <1>2 DEF Selected
  <2>7. QED
    <3>1. Selected(options, text) \in ToSet(options)
      BY <2>5, <2>6 DEF ToSet
    <3>2. QED
      BY <3>1 DEF Answers
<1>3. QED
  BY <1>1, <1>2

LEMMA InitTypes == QuestionInit => QuestionTypes
<1> SUFFICES ASSUME QuestionInit PROVE QuestionTypes
  OBVIOUS
<1>1. Questions /\ Callbacks /\ expired \subseteq DOMAIN questions
  BY DEF QuestionInit, Questions, Callbacks
<1>2. Calls
  BY DEF QuestionInit, Calls, NotAsked, AskerPc, Channel
<1>3. Matched
  BY DEF QuestionInit, Matched, NoReply
<1>4. QED
  BY <1>1, <1>2, <1>3 DEF QuestionTypes

LEMMA QuestionTypesKept ==
    ASSUME OptionLists \subseteq Seq(STRING), QuestionTypes, [QuestionNext]_questionVars
    PROVE  QuestionTypes'
<1> USE DEF QuestionTypes
<1>1. ASSUME NEW a \in Askers, NEW options \in OptionLists, CreateQuestion(a, options)
      PROVE  QuestionTypes'
  <2>1. Questions'
    BY <1>1 DEF CreateQuestion, Put, Questions, QuestionRecord, QuestionStatus, Answers
  <2>2. Callbacks'
    BY <1>1 DEF CreateQuestion, Put, Callbacks, Channel
  <2>3. Calls'
    BY <1>1 DEF CreateQuestion, Put, Calls, AskerPc
  <2>4. Matched' /\ (expired \subseteq DOMAIN questions)'
    BY <1>1 DEF CreateQuestion, Put, Matched
  <2>5. QED
    BY <2>1, <2>2, <2>3, <2>4
<1>2. ASSUME NEW a \in Askers, PublishQuestion(a) \/ Lookup(a) \/ Timeout(a) PROVE QuestionTypes'
  <2>1. UNCHANGED <<questions, callbacks, reply, expired>>
    BY <1>2 DEF PublishQuestion, Lookup, Timeout
  <2>2. Calls'
    BY <1>2 DEF PublishQuestion, Lookup, Timeout, Calls, AskerPc
  <2>3. QED
    BY <2>1, <2>2 DEF Questions, Callbacks, Matched
<1>3. ASSUME NEW a \in Askers, Receive(a) PROVE QuestionTypes'
  <2>1. UNCHANGED <<questions, reply, expired>>
    BY <1>3 DEF Receive
  <2>2. Calls'
    <3>1. CASE a \in DOMAIN callbacks
      <4>1. callbacks[a] \in Channel
        BY <3>1 DEF Callbacks
      <4>2. asker' = [asker EXCEPT ![a] = [pc |-> "done", result |-> callbacks[a]]]
        BY <1>3, <3>1 DEF Receive
      <4>3. asker[a].pc = "wait"
        BY <1>3 DEF Receive
      <4>4. QED
        BY <2>1, <4>1, <4>2, <4>3 DEF Calls, AskerPc
    <3>2. CASE a \notin DOMAIN callbacks
      <4>1. "" \in Answers
        BY DEF Answers
      <4>2. <<"">> \in Channel
        BY <4>1 DEF Channel
      <4>3. asker' = [asker EXCEPT ![a] = [pc |-> "done", result |-> <<"">>]]
        BY <1>3, <3>2 DEF Receive
      <4>4. asker[a].pc = "wait"
        BY <1>3 DEF Receive
      <4>5. QED
        BY <2>1, <4>2, <4>3, <4>4 DEF Calls, AskerPc
    <3>3. QED
      BY <3>1, <3>2
  <2>3. Callbacks'
    BY <1>3 DEF Receive, Callbacks, Channel
  <2>4. QED
    BY <2>1, <2>2, <2>3 DEF Questions, Matched
<1>4. ASSUME NEW S, questions' = Cancelled(S) PROVE Questions' /\ DOMAIN questions' = DOMAIN questions
  BY <1>4 DEF Cancelled, Questions, QuestionRecord, QuestionStatus
<1>5. ASSUME NEW S, callbacks' = Drop(callbacks, S), DOMAIN questions' = DOMAIN questions
      PROVE  Callbacks'
  BY <1>5 DEF Drop, Callbacks
<1>6. ASSUME NEW a \in Askers, CancelQuestion(a) PROVE QuestionTypes'
  <2>1. Questions' /\ DOMAIN questions' = DOMAIN questions
    BY <1>4, <1>6 DEF CancelQuestion
  <2>2. Callbacks'
    BY <1>5, <1>6, <2>1 DEF CancelQuestion, Callbacks
  <2>3. Calls'
    BY <1>6, <2>1 DEF CancelQuestion, Calls, AskerPc
  <2>4. QED
    BY <1>6, <2>1, <2>2, <2>3 DEF CancelQuestion, Matched
<1>7. ASSUME NEW r \in Replies, NEW a \in Askers, NEW text \in Texts, FindQuestion(r, a, text)
      PROVE  QuestionTypes'
  <2>1. UNCHANGED <<questions, callbacks, asker, expired>>
    BY <1>7 DEF FindQuestion
  <2>2. Matched'
    BY <1>7 DEF FindQuestion, Pending, Matched
  <2>3. QED
    BY <2>1, <2>2 DEF Questions, Callbacks, Calls
<1>8. ASSUME NEW r \in Replies, AnswerQuestion(r) PROVE QuestionTypes'
  <2> DEFINE a == reply[r].to
             answer == Selected(questions[a].options, reply[r].text)
  <2>1. a \in DOMAIN questions /\ reply[r].text \in Texts
    BY <1>8 DEF AnswerQuestion, Matched
  <2>2. answer \in Answers
    BY <2>1, SelectedIsAnswer DEF Questions, QuestionRecord
  <2>3. UNCHANGED <<asker, expired>> /\ Matched' /\ DOMAIN questions' = DOMAIN questions
    BY <1>8 DEF AnswerQuestion, Matched
  <2> HIDE DEF answer
  <2>4. \/ UNCHANGED <<questions, callbacks>>
        \/ /\ questions' = [questions EXCEPT ![a].status = "answered", ![a].answer = answer]
           /\ callbacks' = [callbacks EXCEPT ![a] = <<answer>>]
    BY <1>8 DEF AnswerQuestion, answer
  <2>5. Questions' /\ Callbacks'
    <3>1. CASE UNCHANGED <<questions, callbacks>>
      BY <3>1 DEF Questions, Callbacks
    <3>2. CASE /\ questions' = [questions EXCEPT ![a].status = "answered", ![a].answer = answer]
               /\ callbacks' = [callbacks EXCEPT ![a] = <<answer>>]
      <4>1. Questions'
        BY <2>1, <2>2, <3>2 DEF Questions, QuestionRecord, QuestionStatus
      <4>2. Callbacks'
        BY <2>1, <2>2, <2>3, <3>2 DEF Callbacks, Channel
      <4>3. QED
        BY <4>1, <4>2
    <3>3. QED
      BY <2>4, <3>1, <3>2
  <2>6. QED
    BY <2>3, <2>5 DEF Calls
<1>9. ASSUME NEW a, Expire(a) PROVE QuestionTypes'
  BY <1>9 DEF Expire, Questions, Callbacks, Calls, Matched
<1>10. CASE CleanupExpired
  <2>1. Questions' /\ DOMAIN questions' = DOMAIN questions
    BY <1>4, <1>10 DEF CleanupExpired
  <2>2. Callbacks'
    BY <1>5, <1>10, <2>1 DEF CleanupExpired
  <2>3. Calls' /\ Matched' /\ (expired \subseteq DOMAIN questions)'
    BY <1>10, <2>1 DEF CleanupExpired, Calls, Matched
  <2>4. QED
    BY <2>1, <2>2, <2>3
<1>11. CASE UNCHANGED questionVars
  BY <1>11 DEF questionVars, Questions, Callbacks, Calls, Matched
<1>12. QED
  BY <1>1, <1>2, <1>3, <1>6, <1>7, <1>8, <1>9, <1>10, <1>11 DEF QuestionNext, Ask

LEMMA TypesAreInvariant == QuestionSpec => []QuestionTypes
<1>1. QuestionTypes /\ [QuestionNext]_questionVars => QuestionTypes'
  BY QuestionTypesKept, QuestionAssumption
<1>2. QED
  BY <1>1, InitTypes, PTL DEF QuestionSpec

\* The manager's maps and the steps of calls and messages keep their types: a channel never
\* holds more than the one answer its buffer has room for (question.go:53).
THEOREM QuestionTypeCorrect == QuestionSpec => []QuestionTypeOK
<1>1. QuestionTypes => QuestionTypeOK
  <2>1. ASSUME NEW c \in Channel PROVE Len(c) <= 1
    <3>1. CASE c = <<>>
      BY <3>1
    <3>2. CASE \E x \in Answers : c = <<x>>
      <4>1. PICK x \in Answers : c = <<x>>
        BY <3>2
      <4>2. QED
        BY <4>1
    <3>3. QED
      BY <3>1, <3>2 DEF Channel
  <2>2. QED
    BY <2>1
    DEF QuestionTypes, Questions, Callbacks, Calls, Matched, QuestionTypeOK, QuestionRecord, QuestionStatus, Answers, AskerPc
<1>2. QED
  BY <1>1, TypesAreInvariant, PTL
-----------------------------------------------------------------------------
\* A call takes what its channel holds, or "" when the channel is gone.
LEMMA ReceiveStep ==
    ASSUME QuestionTypes, NEW a \in Askers, Receive(a)
    PROVE  /\ asker[a].pc = "wait" /\ asker'[a].pc = "done" /\ questions' = questions
           /\ \A b \in Askers : b # a => asker'[b] = asker[b]
           /\ DOMAIN callbacks' = DOMAIN callbacks
           /\ \A b \in DOMAIN callbacks : b # a => callbacks'[b] = callbacks[b]
           /\ a \in DOMAIN callbacks => callbacks[a] # <<>> /\ asker'[a].result = callbacks[a]
           /\ a \notin DOMAIN callbacks => asker'[a].result = <<"">>
<1>1. DOMAIN asker = Askers
  BY DEF QuestionTypes, Calls
<1>2. asker[a].pc = "wait" /\ questions' = questions
  BY DEF Receive
<1>3. CASE a \in DOMAIN callbacks
  <2>1. /\ callbacks[a] # <<>> /\ callbacks' = [callbacks EXCEPT ![a] = <<>>]
        /\ asker' = [asker EXCEPT ![a] = [pc |-> "done", result |-> callbacks[a]]]
    BY <1>3 DEF Receive
  <2>2. QED
    BY <1>1, <1>2, <1>3, <2>1
<1>4. CASE a \notin DOMAIN callbacks
  <2> DEFINE nothing == <<"">>
  <2>1. /\ callbacks' = callbacks
        /\ asker' = [asker EXCEPT ![a] = [pc |-> "done", result |-> nothing]]
    BY <1>4 DEF Receive
  <2> HIDE DEF nothing
  <2>2. asker'[a] = [pc |-> "done", result |-> nothing]
    BY <1>1, <2>1
  <2>3. \A b \in Askers : b # a => asker'[b] = asker[b]
    BY <1>1, <2>1
  <2>4. asker'[a].pc = "done" /\ asker'[a].result = nothing
    BY <2>2
  <2>5. QED
    BY <1>2, <1>4, <2>1, <2>3, <2>4 DEF nothing
<1>5. QED
  BY <1>3, <1>4

LEMMA ChannelsKept ==
    ASSUME OptionLists \subseteq Seq(STRING), QuestionTypes, Channels, [QuestionNext]_questionVars
    PROVE  Channels'
<1>1. /\ DOMAIN asker = Askers /\ DOMAIN questions \subseteq Askers
      /\ \A a \in Askers : asker[a].pc = "idle" <=> a \notin DOMAIN questions
      /\ DOMAIN callbacks \subseteq DOMAIN questions
      /\ asker \in [Askers -> [pc : AskerPc, result : Channel \cup {<<"timeout">>}]]
      /\ questions \in [DOMAIN questions -> QuestionRecord]
  BY DEF QuestionTypes, Questions, Callbacks, Calls
<1>2. ASSUME NEW a \in Askers, NEW options \in OptionLists, CreateQuestion(a, options)
      PROVE  Channels'
  <2>1. a \notin DOMAIN questions
    BY <1>1, <1>2 DEF CreateQuestion
  <2>2. /\ DOMAIN questions' = DOMAIN questions \cup {a}
        /\ DOMAIN callbacks' = DOMAIN callbacks \cup {a}
        /\ questions'[a].status = "pending" /\ callbacks'[a] = <<>>
        /\ asker'[a].pc = "publish"
        /\ \A b \in DOMAIN questions :
             /\ questions'[b] = questions[b]
             /\ asker'[b] = asker[b]
             /\ b \in DOMAIN callbacks => callbacks'[b] = callbacks[b]
    BY <1>1, <1>2, <2>1 DEF CreateQuestion, Put
  <2>3. ASSUME NEW b \in DOMAIN questions, b # a
        PROVE  /\ questions'[b] = questions[b] /\ asker'[b] = asker[b]
               /\ b \in DOMAIN callbacks' <=> b \in DOMAIN callbacks
               /\ b \in DOMAIN callbacks => callbacks'[b] = callbacks[b]
    <3>1. questions'[b] = questions[b] /\ asker'[b] = asker[b]
      BY <2>2, <2>3
    <3>2. b \in DOMAIN callbacks' <=> b \in DOMAIN callbacks
      BY <2>2, <2>3
    <3>3. b \in DOMAIN callbacks => callbacks'[b] = callbacks[b]
      BY <2>2, <2>3
    <3>4. QED
      BY <3>1, <3>2, <3>3
  <2>4. ASSUME NEW b \in DOMAIN questions'
        PROVE  /\ questions'[b].status = "pending" =>
                    b \in DOMAIN callbacks' /\ callbacks'[b] = <<>> /\ asker'[b].pc # "done"
               /\ questions'[b].status = "answered" /\ asker'[b].pc \in {"publish", "lookup", "wait"} =>
                    b \in DOMAIN callbacks' /\ callbacks'[b] = <<questions'[b].answer>>
               /\ questions'[b].status = "cancelled" => b \notin DOMAIN callbacks'
    <3>1. CASE b = a
      BY <2>2, <3>1
    <3>2. CASE b # a
      <4>1. b \in DOMAIN questions
        BY <2>2, <3>2
      <4>2. QED
        BY <2>3, <3>2, <4>1 DEF Channels
    <3>3. QED
      BY <3>1, <3>2
  <2>5. QED
    BY <2>4 DEF Channels
<1>3. ASSUME NEW a \in Askers, PublishQuestion(a) \/ Lookup(a) \/ Timeout(a) PROVE Channels'
  <2>1. /\ UNCHANGED <<questions, callbacks>>
        /\ asker[a].pc \in {"publish", "lookup", "wait"}
        /\ asker'[a].pc \in {"lookup", "wait", "cancel"}
        /\ \A b \in Askers : b # a => asker'[b] = asker[b]
    BY <1>1, <1>3 DEF PublishQuestion, Lookup, Timeout
  <2>2. QED
    BY <1>1, <2>1 DEF Channels
<1>4. ASSUME NEW a \in Askers, Receive(a) PROVE Channels'
  <2>1. /\ asker[a].pc = "wait" /\ asker'[a].pc = "done" /\ questions' = questions
        /\ \A b \in Askers : b # a => asker'[b] = asker[b]
        /\ DOMAIN callbacks' = DOMAIN callbacks
        /\ \A b \in DOMAIN callbacks : b # a => callbacks'[b] = callbacks[b]
        /\ a \in DOMAIN callbacks => callbacks[a] # <<>>
    BY <1>4, ReceiveStep
  <2>2. QED
    BY <1>1, <2>1 DEF Channels
<1>5. ASSUME NEW S, questions' = Cancelled(S), callbacks' = Drop(callbacks, S),
             \A a \in S : Pending(a),
             \A b \in DOMAIN questions \ S : asker'[b] = asker[b]
      PROVE  Channels'
  <2>1. /\ DOMAIN questions' = DOMAIN questions
        /\ DOMAIN callbacks' = DOMAIN callbacks \ S
        /\ \A a \in S : questions'[a].status = "cancelled"
        /\ \A b \in DOMAIN questions \ S : questions'[b] = questions[b]
        /\ \A b \in DOMAIN callbacks \ S : callbacks'[b] = callbacks[b]
    BY <1>1, <1>5 DEF Cancelled, Drop, Pending, QuestionRecord
  <2>2. QED
    BY <1>5, <2>1 DEF Channels
<1>6. ASSUME NEW a \in Askers, CancelQuestion(a) PROVE Channels'
  <2>1. /\ asker[a].pc = "cancel" /\ asker'[a].pc = "done"
        /\ \A b \in Askers : b # a => asker'[b] = asker[b]
    BY <1>1, <1>6 DEF CancelQuestion
  <2>2. CASE Pending(a)
    <3>1. /\ questions' = Cancelled({a}) /\ callbacks' = Drop(callbacks, {a})
      <4>1. {a} \cap {b \in Askers : Pending(b)} = {a}
        BY <2>2
      <4>2. QED
        BY <1>6, <2>2, <4>1 DEF CancelQuestion
    <3>2. \A b \in DOMAIN questions \ {a} : asker'[b] = asker[b]
      BY <1>1, <2>1
    <3>3. QED
      BY <1>5, <2>2, <3>1, <3>2
  <2>3. CASE ~Pending(a)
    <3>1. questions' = Cancelled({}) /\ callbacks' = callbacks
      <4>1. {a} \cap {b \in Askers : Pending(b)} = {}
        BY <2>3
      <4>2. QED
        BY <1>6, <2>3, <4>1 DEF CancelQuestion
    <3>2. questions' = questions
      BY <1>1, <3>1 DEF Cancelled
    <3>3. QED
      BY <1>1, <2>1, <2>3, <3>1, <3>2 DEF Channels, Pending
  <2>4. QED
    BY <2>2, <2>3
<1>7. ASSUME NEW r \in Replies, AnswerQuestion(r) PROVE Channels'
  <2> DEFINE a == reply[r].to
             answer == Selected(questions[a].options, reply[r].text)
  <2>1. asker' = asker
    BY <1>7 DEF AnswerQuestion
  <2>2. CASE UNCHANGED <<questions, callbacks>>
    BY <2>1, <2>2 DEF Channels
  <2> HIDE DEF answer
  <2>3. CASE /\ Pending(a)
             /\ questions' = [questions EXCEPT ![a].status = "answered", ![a].answer = answer]
             /\ callbacks' = [callbacks EXCEPT ![a] = <<answer>>]
    <3>1. a \in DOMAIN questions /\ a \in DOMAIN callbacks
      BY <2>3 DEF Pending, Channels
    <3>2. /\ DOMAIN questions' = DOMAIN questions /\ DOMAIN callbacks' = DOMAIN callbacks
          /\ questions'[a].status = "answered" /\ questions'[a].answer = answer
          /\ callbacks'[a] = <<answer>>
          /\ \A b \in DOMAIN questions : b # a => questions'[b] = questions[b]
          /\ \A b \in DOMAIN callbacks : b # a => callbacks'[b] = callbacks[b]
      BY <1>1, <2>3, <3>1 DEF QuestionRecord
    <3>3. QED
      BY <1>1, <2>1, <3>1, <3>2 DEF Channels
  <2>4. QED
    BY <1>7, <2>2, <2>3 DEF AnswerQuestion, answer
<1>8. CASE CleanupExpired
  <2>1. \A a \in {b \in expired : Pending(b)} : Pending(a)
    OBVIOUS
  <2>2. QED
    BY <1>5, <1>8, <2>1 DEF CleanupExpired
<1>9. CASE UNCHANGED <<questions, callbacks, asker>>
  BY <1>9 DEF Channels
<1>10. QED
  BY <1>2, <1>3, <1>4, <1>6, <1>7, <1>8, <1>9
  DEF QuestionNext, Ask, FindQuestion, Expire, questionVars

\* A question that is closed stays as it is.
LEMMA ClosedStay ==
    ASSUME QuestionTypes, [QuestionNext]_questionVars
    PROVE  \A a \in DOMAIN questions : ~Pending(a) => questions'[a] = questions[a]
<1>1. /\ \A a \in Askers : asker[a].pc = "idle" <=> a \notin DOMAIN questions
      /\ DOMAIN questions \subseteq Askers
      /\ questions \in [DOMAIN questions -> QuestionRecord]
  BY DEF QuestionTypes, Questions, Calls
<1>2. ASSUME NEW S, questions' = Cancelled(S), \A a \in S : Pending(a)
      PROVE  \A a \in DOMAIN questions : ~Pending(a) => questions'[a] = questions[a]
  BY <1>2 DEF Cancelled
<1>3. ASSUME NEW a \in Askers, NEW options \in OptionLists, CreateQuestion(a, options)
      PROVE  \A b \in DOMAIN questions : questions'[b] = questions[b]
  BY <1>1, <1>3 DEF CreateQuestion, Put
<1>4. ASSUME NEW a \in Askers, CancelQuestion(a)
      PROVE  \A b \in DOMAIN questions : ~Pending(b) => questions'[b] = questions[b]
  <2>1. \A b \in {a} \cap {c \in Askers : Pending(c)} : Pending(b)
    OBVIOUS
  <2>2. QED
    BY <1>2, <1>4, <2>1 DEF CancelQuestion
<1>5. ASSUME CleanupExpired
      PROVE  \A b \in DOMAIN questions : ~Pending(b) => questions'[b] = questions[b]
  <2>1. \A b \in {c \in expired : Pending(c)} : Pending(b)
    OBVIOUS
  <2>2. QED
    BY <1>2, <1>5, <2>1 DEF CleanupExpired
<1>6. ASSUME NEW r \in Replies, AnswerQuestion(r)
      PROVE  \A b \in DOMAIN questions : ~Pending(b) => questions'[b] = questions[b]
  BY <1>1, <1>6 DEF AnswerQuestion
<1>7. QED
  BY <1>3, <1>4, <1>5, <1>6
  DEF QuestionNext, Ask, PublishQuestion, Lookup, Receive, Timeout, FindQuestion, Expire, questionVars

\* A question is answered, or cancelled, once: whatever messages were matched with it before,
\* after the timeout, the clean-up or another answer they change nothing (question.go:87).
THEOREM QuestionClosesOnce == QuestionSpec => ClosedOnce
<1>1. QuestionTypes /\ [QuestionNext]_questionVars =>
        [\A a \in DOMAIN questions : ~Pending(a) => questions'[a] = questions[a]]_questionVars
  BY ClosedStay
<1>2. QED
  BY <1>1, TypesAreInvariant, PTL DEF QuestionSpec, ClosedOnce

LEMMA ResultsKept ==
    ASSUME QuestionTypes, Channels, Results, [QuestionNext]_questionVars
    PROVE  Results'
<1>1. /\ \A a \in Askers : asker[a].pc = "idle" <=> a \notin DOMAIN questions
      /\ DOMAIN questions \subseteq Askers
      /\ DOMAIN callbacks \subseteq DOMAIN questions
      /\ asker \in [Askers -> [pc : AskerPc, result : Channel \cup {<<"timeout">>}]]
      /\ \A a \in DOMAIN questions : questions[a].status \in QuestionStatus
  BY DEF QuestionTypes, Questions, Callbacks, Calls, QuestionRecord
<1>2. DOMAIN questions' \subseteq Askers
  <2>1. DOMAIN questions' = DOMAIN questions \/ \E a \in Askers : DOMAIN questions' = DOMAIN questions \cup {a}
    BY DEF QuestionNext, Ask, CreateQuestion, Put, PublishQuestion, Lookup, Receive, Timeout, CancelQuestion,
           Cancelled, FindQuestion, AnswerQuestion, Expire, CleanupExpired, questionVars
  <2>2. QED
    BY <1>1, <2>1
<1>3. ASSUME NEW b \in Askers
      PROVE  \/ asker'[b] = asker[b] \/ asker'[b].pc # "done"
             \/ asker'[b].result = <<"timeout">> \/ Receive(b)
  <2>1. ASSUME NEW a \in Askers, NEW options \in OptionLists, CreateQuestion(a, options)
        PROVE  asker'[b] = asker[b] \/ asker'[b].pc # "done"
    BY <1>1, <2>1 DEF CreateQuestion
  <2>2. ASSUME NEW a \in Askers, PublishQuestion(a) \/ Lookup(a) \/ Timeout(a)
        PROVE  asker'[b] = asker[b] \/ asker'[b].pc # "done"
    BY <1>1, <2>2 DEF PublishQuestion, Lookup, Timeout
  <2>3. ASSUME NEW a \in Askers, CancelQuestion(a)
        PROVE  asker'[b] = asker[b] \/ asker'[b].result = <<"timeout">>
    BY <1>1, <2>3 DEF CancelQuestion
  <2>4. ASSUME NEW a \in Askers, Receive(a) PROVE asker'[b] = asker[b] \/ Receive(b)
    <3>1. CASE a = b
      BY <2>4, <3>1
    <3>2. CASE a # b
      BY <1>1, <2>4, <3>2 DEF Receive
    <3>3. QED
      BY <3>1, <3>2
  <2>5. QED
    BY <2>1, <2>2, <2>3, <2>4
    DEF QuestionNext, Ask, FindQuestion, AnswerQuestion, Expire, CleanupExpired, questionVars
<1>4. SUFFICES ASSUME NEW b \in DOMAIN questions', asker'[b].pc = "done",
                      asker'[b].result # <<"timeout">>
               PROVE  asker'[b].result = IF questions'[b].status = "cancelled" THEN <<"">>
                                         ELSE <<questions'[b].answer>>
  BY DEF Results
<1>5. b \in Askers
  BY <1>2
<1>6. CASE asker'[b] = asker[b]
  <2>1. b \in DOMAIN questions /\ asker[b].pc = "done" /\ asker[b].result # <<"timeout">>
    BY <1>1, <1>4, <1>5, <1>6
  <2>2. ~Pending(b)
    BY <2>1 DEF Channels, Pending
  <2>3. questions'[b] = questions[b]
    BY <2>1, <2>2, ClosedStay
  <2>4. QED
    BY <1>6, <2>1, <2>3 DEF Results
<1>7. CASE Receive(b)
  <2>1. asker[b].pc = "wait" /\ questions' = questions /\ b \in DOMAIN questions
    BY <1>1, <1>5, <1>7 DEF Receive
  <2>2. CASE b \in DOMAIN callbacks
    <3>1. callbacks[b] # <<>> /\ asker'[b].result = callbacks[b]
      BY <1>5, <1>7, <2>2, ReceiveStep
    <3>2. questions[b].status = "answered" /\ callbacks[b] = <<questions[b].answer>>
      BY <1>1, <2>1, <2>2, <3>1 DEF Channels, QuestionStatus
    <3>3. QED
      BY <2>1, <3>1, <3>2
  <2>3. CASE b \notin DOMAIN callbacks
    <3>1. asker'[b].result = <<"">>
      BY <1>5, <1>7, <2>3, ReceiveStep
    <3>2. questions[b].status = "cancelled"
      BY <1>1, <2>1, <2>3 DEF Channels, QuestionStatus
    <3>3. QED
      BY <2>1, <3>1, <3>2
  <2>4. QED
    BY <2>2, <2>3
<1>8. QED
  BY <1>3, <1>4, <1>5, <1>6, <1>7

\* However messages, timeouts and clean-ups fall between the two critical sections of a call
\* and those of an answer, and however many questions are open: an answer that was accepted
\* before the call gave up is in its channel, and is what the call returns (question.go:97).
THEOREM AcceptedAnswerIsReturned == QuestionSpec => []AnswerIsReturned
<1>1. QuestionInit => Channels /\ Results
  BY DEF QuestionInit, Channels, Results
<1>2. QuestionTypes /\ Channels /\ Results /\ [QuestionNext]_questionVars => Channels' /\ Results'
  BY ChannelsKept, ResultsKept, QuestionAssumption
<1>3. Channels /\ Results => AnswerIsReturned
  BY DEF Channels, Results, AnswerIsReturned
<1>4. QED
  BY <1>1, <1>2, <1>3, TypesAreInvariant, PTL DEF QuestionSpec
=============================================================================
