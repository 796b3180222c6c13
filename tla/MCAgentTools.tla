---------------------------- MODULE MCAgentTools ----------------------------
(* Instances of AgentTools for TLC: two Telegram chats, and a job that was added at
   the terminal. *)
EXTENDS AgentTools

c1 == [channel |-> "telegram", id |-> "c1"]
c2 == [channel |-> "telegram", id |-> "c2"]

UserChats == {c1, c2}
JobChats == {Terminal}
NoneOrHalf == {NoAddress, [channel |-> "", id |-> "c2"]}

\* Two turns one after the other, or two that overlap and another one after them; where turns
\* overlapped, each makes one call without subagents.
TwoOrOverlapAndOne ==
    IF disturbed = {} THEN turns <= 2
    ELSE /\ 3 \notin disturbed
         /\ \A r \in Runner :
              turn[r].pc # "idle" => /\ turn[r].calls >= MaxCalls - 1
                                     /\ \A i \in Sub : sub[r][i].pc = "off"
=============================================================================
