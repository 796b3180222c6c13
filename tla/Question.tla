------------------------------ MODULE Question ------------------------------
(***************************************************************************)
(* Questions to the user (pkg/tools/question.go): tool calls that ask and  *)
(* wait, messages from the user that may be answers, and the clean-up of   *)
(* old questions, each under the lock of the manager but between its two   *)
(* or three critical sections.  A question is known by the tool call that  *)
(* asked it.  All are of one chat: a message is matched with questions of  *)
(* its own chat only.  What is sent to the user is left out.               *)
(***************************************************************************)
EXTENDS Naturals, Sequences, SequencesExt

CONSTANTS
    Askers,    \* calls of the question tool
    Replies,   \* messages of the user
    Texts,
    OptionLists  \* options that come with a question

ASSUME QuestionAssumption == OptionLists \subseteq Seq(STRING)

VARIABLES
    questions,   \* the manager's questions: asker -> question
    callbacks,   \* the manager's callbacks: asker -> answers its channel holds
    asker,       \* where each tool call is, and what it returned
    reply,       \* where each message is
    expired      \* questions older than 30 minutes

questionVars == <<questions, callbacks, asker, reply, expired>>

NotAsked == [pc |-> "idle", result |-> <<>>]
NoReply == [pc |-> "idle", to |-> "", text |-> ""]

QuestionInit ==
    /\ questions = <<>> /\ callbacks = <<>>
    /\ asker = [a \in Askers |-> NotAsked]
    /\ reply = [r \in Replies |-> NoReply]
    /\ expired = {}

Pending(a) == a \in DOMAIN questions /\ questions[a].status = "pending"
Put(f, x, v) == [y \in DOMAIN f \cup {x} |-> IF y = x THEN v ELSE f[y]]
Drop(f, S) == [y \in DOMAIN f \ S |-> f[y]]

-----------------------------------------------------------------------------
\* Execute

CreateQuestion(a, options) ==
    /\ asker[a].pc = "idle"
    /\ questions' = Put(questions, a, [options |-> options, status |-> "pending", answer |-> ""])
    /\ callbacks' = Put(callbacks, a, <<>>)
    /\ asker' = [asker EXCEPT ![a].pc = "publish"]
    /\ UNCHANGED <<reply, expired>>

PublishQuestion(a) ==
    /\ asker[a].pc = "publish"
    /\ asker' = [asker EXCEPT ![a].pc = "lookup"]
    /\ UNCHANGED <<questions, callbacks, reply, expired>>

\* Mutant of Lookup: it waits until the channel is there.
LookupUntilThere(a) ==
    /\ asker[a].pc = "lookup" /\ a \in DOMAIN callbacks
    /\ asker' = [asker EXCEPT ![a].pc = "wait"]
    /\ UNCHANGED <<questions, callbacks, reply, expired>>

\* WaitForAnswer finds its channel, or gives up
Lookup(a) ==
    /\ asker[a].pc = "lookup"
    /\ asker' = [asker EXCEPT ![a].pc = IF a \in DOMAIN callbacks THEN "wait" ELSE "cancel"]
    /\ UNCHANGED <<questions, callbacks, reply, expired>>

\* A channel that is out of the map is closed: receiving gives "" at once
Receive(a) ==
    /\ asker[a].pc = "wait"
    /\ \/ /\ a \in DOMAIN callbacks /\ callbacks[a] # <<>>
          /\ asker' = [asker EXCEPT ![a] = [pc |-> "done", result |-> callbacks[a]]]
          /\ callbacks' = [callbacks EXCEPT ![a] = <<>>]
       \/ /\ a \notin DOMAIN callbacks
          /\ asker' = [asker EXCEPT ![a] = [pc |-> "done", result |-> <<"">>]]
          /\ UNCHANGED callbacks
    /\ UNCHANGED <<questions, reply, expired>>

Timeout(a) ==
    /\ asker[a].pc = "wait"
    /\ asker' = [asker EXCEPT ![a].pc = "cancel"]
    /\ UNCHANGED <<questions, callbacks, reply, expired>>

Cancelled(S) == [a \in DOMAIN questions |->
                   IF a \in S THEN [questions[a] EXCEPT !.status = "cancelled"] ELSE questions[a]]

\* CancelQuestion, if the question is still pending
CancelQuestion(a) ==
    /\ asker[a].pc = "cancel"
    /\ asker' = [asker EXCEPT ![a] = [pc |-> "done", result |-> <<"timeout">>]]
    /\ questions' = Cancelled({a} \cap {b \in Askers : Pending(b)})
    /\ callbacks' = IF Pending(a) THEN Drop(callbacks, {a}) ELSE callbacks
    /\ UNCHANGED <<reply, expired>>

-----------------------------------------------------------------------------
\* The user

\* ProcessQuestionAnswer finds a pending question of the chat, in the order of a Go map ...
FindQuestion(r, a, text) ==
    /\ reply[r].pc = "idle" /\ Pending(a)
    /\ reply' = [reply EXCEPT ![r] = [pc |-> "answer", to |-> a, text |-> text]]
    /\ UNCHANGED <<questions, callbacks, asker, expired>>

\* ... and takes the message for its answer: the first option whose number or text it is
Number == <<"1", "2">>
Selected(options, text) ==
    LET match == {i \in DOMAIN options : text = Number[i] \/ text = options[i]}
    IN  IF match = {} THEN text ELSE options[Min(match)]

\* Mutant of AnswerQuestion: the status is not looked at again.
AnswerAnyQuestion(r) ==
    LET a == reply[r].to
        answer == Selected(questions[a].options, reply[r].text) IN
    /\ reply[r].pc = "answer"
    /\ reply' = [reply EXCEPT ![r].pc = "done"]
    /\ questions' = [questions EXCEPT ![a].status = "answered", ![a].answer = answer]
    /\ callbacks' = IF a \in DOMAIN callbacks /\ callbacks[a] = <<>>
                    THEN [callbacks EXCEPT ![a] = <<answer>>] ELSE callbacks
    /\ UNCHANGED <<asker, expired>>

\* Mutant of AnswerQuestion: the channel has no buffer.
AnswerUnbuffered(r) ==
    LET a == reply[r].to
        answer == Selected(questions[a].options, reply[r].text) IN
    /\ reply[r].pc = "answer"
    /\ reply' = [reply EXCEPT ![r].pc = "done"]
    /\ \/ /\ Pending(a)
          /\ questions' = [questions EXCEPT ![a].status = "answered", ![a].answer = answer]
          /\ callbacks' = IF asker[a].pc = "wait"
                          THEN [callbacks EXCEPT ![a] = <<answer>>] ELSE callbacks
       \/ ~Pending(a) /\ UNCHANGED <<questions, callbacks>>
    /\ UNCHANGED <<asker, expired>>

\* AnswerQuestion looks at the question again; its verdict is not passed on
AnswerQuestion(r) ==
    LET a == reply[r].to
        answer == Selected(questions[a].options, reply[r].text) IN
    /\ reply[r].pc = "answer"
    /\ reply' = [reply EXCEPT ![r].pc = "done"]
    /\ \/ /\ Pending(a)
          /\ questions' = [questions EXCEPT ![a].status = "answered", ![a].answer = answer]
          /\ callbacks' = [callbacks EXCEPT ![a] = <<answer>>]
       \/ ~Pending(a) /\ UNCHANGED <<questions, callbacks>>
    /\ UNCHANGED <<asker, expired>>

-----------------------------------------------------------------------------
\* Half an hour has passed since a question
Expire(a) ==
    /\ a \in DOMAIN questions \ expired
    /\ expired' = expired \cup {a}
    /\ UNCHANGED <<questions, callbacks, asker, reply>>

CleanupExpired ==
    LET old == {a \in expired : Pending(a)} IN
    /\ old # {}
    /\ questions' = Cancelled(old)
    /\ callbacks' = Drop(callbacks, old)
    /\ UNCHANGED <<asker, reply, expired>>

Ask(a) == PublishQuestion(a) \/ Lookup(a) \/ Receive(a) \/ Timeout(a) \/ CancelQuestion(a)

QuestionNext ==
    \/ \E a \in Askers :
         \/ \E options \in OptionLists : CreateQuestion(a, options)
         \/ Ask(a)
         \/ Expire(a)
    \/ \E r \in Replies :
         \/ \E a \in Askers, text \in Texts : FindQuestion(r, a, text)
         \/ AnswerQuestion(r)
    \/ CleanupExpired

QuestionSpec == QuestionInit /\ [][QuestionNext]_questionVars

\* Tool calls run, and timers fire.
FairQuestionSpec == QuestionSpec /\ \A a \in Askers : WF_questionVars(Ask(a))

-----------------------------------------------------------------------------
QuestionTypeOK ==
    /\ DOMAIN questions \subseteq Askers
    /\ \A a \in DOMAIN questions :
         /\ questions[a].options \in OptionLists
         /\ questions[a].status \in {"pending", "answered", "cancelled"}
         /\ questions[a].answer \in Texts \cup {""} \cup UNION {ToSet(o) : o \in OptionLists}
    /\ DOMAIN callbacks \subseteq DOMAIN questions
    /\ \A a \in DOMAIN callbacks : Len(callbacks[a]) <= 1
    /\ \A a \in Askers : asker[a].pc \in {"idle", "publish", "lookup", "wait", "cancel", "done"}
    /\ \A r \in Replies : reply[r].pc \in {"idle", "answer", "done"}
    /\ expired \subseteq DOMAIN questions

\* An answer that was accepted before the tool gave up is not lost, whether it comes before or
\* while the tool waits, and it is what the tool returns: the first one accepted, or nothing if
\* the question was cleaned up meanwhile (question.go:97, question.go:117).
AnswerIsReturned ==
    \A a \in DOMAIN questions :
      /\ questions[a].status = "answered" /\ asker[a].pc \in {"publish", "lookup", "wait"} =>
           a \in DOMAIN callbacks /\ callbacks[a] = <<questions[a].answer>>
      /\ asker[a].pc = "done" /\ asker[a].result # <<"timeout">> =>
           asker[a].result = IF questions[a].status = "cancelled" THEN <<"">>
                             ELSE <<questions[a].answer>>

\* A question is answered, or cancelled, once: a message that was matched with it and comes
\* after the timeout or after another answer changes nothing (question.go:87).
ClosedOnce ==
    [][\A a \in DOMAIN questions : ~Pending(a) => questions'[a] = questions[a]]_questionVars

\* Every tool call that asked returns, whatever becomes of its question.
AsksEnd == \A a \in Askers : asker[a].pc = "publish" ~> asker[a].pc = "done"
=============================================================================
