----------------------------- MODULE AgentTools -----------------------------
(***************************************************************************)
(* The tools that carry the chat of a turn in fields of their own: message *)
(* (pkg/tools/message.go), spawn with its parallel subagents (spawn.go,    *)
(* subagent.go, toolloop.go), and cron (cron.go), as the registry calls    *)
(* them (registry.go) for the two goroutines that run turns: AgentLoop.Run *)
(* and the cron loop (pkg/agent/loop.go).                                  *)
(*                                                                         *)
(* There is one of each tool for all turns, and a second message tool in   *)
(* the registry of the subagents ("submessage").  Their fields are written *)
(* without a lock, one after the other, except those of cron.  The model   *)
(* keeps the fields, the steps that write and read them, what the message  *)
(* tool is asked for and what is sent; the other tools are left out.  The  *)
(* two fields are read at once: nobody writes another chat between the two *)
(* reads unless turns overlap, and then one read may already be wrong.     *)
(***************************************************************************)
EXTENDS Naturals, Sequences

CONSTANTS
    Addresses,    \* [channel, id] a message may come from
    JobAddresses, \* ... and a job may report to
    Targets,      \* what the model may give the message tool as channel and chat_id
    StreamMode,   \* msg.StreamMode of the channel
    MaxTurns,     \* bound on turns
    MaxCalls,     \* bound on the tool calls of a turn
    MaxSubs,      \* bound on the tasks of one spawn call
    MaxSubCalls   \* bound on the tool calls of a subagent

Chats == Addresses \cup JobAddresses
NoAddress == [channel |-> "", id |-> ""]
Terminal == [channel |-> "cli", id |-> "direct"]

\* What a tool may hold: the channel and the id may be of different chats
Address == [channel : {a.channel : a \in Chats \cup {NoAddress, Terminal}},
            id : {a.id : a \in Chats \cup {NoAddress, Terminal}}]

ASSUME ConstantsAssumption ==
    /\ \A a \in Chats :
         a = [channel |-> a.channel, id |-> a.id] /\ a.channel # "" /\ a.id # ""
    /\ Targets \subseteq Address
    /\ StreamMode \in BOOLEAN
    /\ {MaxTurns, MaxCalls, MaxSubs, MaxSubCalls} \subseteq Nat

VARIABLES
    context,     \* channel and chat in each tool
    sentInRound, \* of each message tool
    turn,        \* the turn each goroutine is in
    sub,         \* the subagents of its spawn call
    turns,       \* turns begun so far
    origin,      \* history: where each turn came from
    disturbed,   \* history: turns that ran beside another one
    delivered,   \* history: outbound messages, with their turn, their tool and what it was asked
    jobs,        \* history: jobs added, with the turn that added them
    ended        \* history: turns of the agent loop that are over

vars == <<context, sentInRound, turn, sub, turns, origin, disturbed, delivered, jobs, ended>>

Runner == {"loop", "cron"}
MessageTool == {"message", "submessage"}
Tool == MessageTool \cup {"spawn", "cron"}
Sub == 1 .. MaxSubs

Idle == [pc |-> "idle", id |-> 0, addr |-> NoAddress, writes |-> <<>>, tool |-> "", calls |-> 0]
Off == [pc |-> "off", id |-> 0, addr |-> NoAddress, writes |-> <<>>, calls |-> 0]

Init ==
    /\ context = [t \in Tool |-> IF t = "spawn" THEN Terminal ELSE NoAddress]
    /\ sentInRound = [t \in MessageTool |-> FALSE]
    /\ turn = [r \in Runner |-> Idle]
    /\ sub = [r \in Runner |-> [i \in Sub |-> Off]]
    /\ turns = 0
    /\ origin = <<>>
    /\ disturbed = {} /\ delivered = {} /\ jobs = {} /\ ended = {}

-----------------------------------------------------------------------------
\* SetContext of each tool, as the writes it makes.  A process (a turn or a subagent) holds
\* in `writes' those it has still to make.

Put(tool, fields, reset) == [tool |-> tool, fields |-> fields, reset |-> reset]

\* Mutant of MessageTool.SetContext: the flag is left as it is.
SetContextKeepingFlag(tool) ==
    IF tool = "cron" THEN <<Put(tool, {"channel", "id"}, FALSE)>>
    ELSE <<Put(tool, {"channel"}, FALSE), Put(tool, {"id"}, FALSE)>>

SetContext(tool) ==
    IF tool = "cron" THEN <<Put(tool, {"channel", "id"}, FALSE)>>
    ELSE <<Put(tool, {"channel"}, FALSE), Put(tool, {"id"}, FALSE)>>
         \o (IF tool \in MessageTool THEN <<Put(tool, {}, TRUE)>> ELSE <<>>)

\* Mutant of SetContext: a context that is set is kept.
WrittenOnce(old, fields, addr) ==
    [f \in {"channel", "id"} |-> IF f \in fields /\ old[f] = "" THEN addr[f] ELSE old[f]]

Written(old, fields, addr) ==
    [f \in {"channel", "id"} |-> IF f \in fields THEN addr[f] ELSE old[f]]

Write(w, addr) ==
    /\ context' = [context EXCEPT ![w.tool] = Written(@, w.fields, addr)]
    /\ sentInRound' = IF w.reset THEN [sentInRound EXCEPT ![w.tool] = FALSE] ELSE sentInRound

\* PublishOutbound through the tool's send callback
Deliver(id, by, asked, addr) ==
    delivered' = delivered \cup {[turn |-> id, by |-> by, asked |-> asked, to |-> addr]}

\* Where a message goes that is asked to go to `asked': what is not given is the context's
Target(asked, addr) ==
    [f \in {"channel", "id"} |-> IF asked[f] # "" THEN asked[f] ELSE addr[f]]

-----------------------------------------------------------------------------
\* Turns

\* runAgentLoop up to updateToolContexts
Begin(r, addr) ==
    /\ turn[r].pc = "idle"
    /\ turns < MaxTurns
    /\ turns' = turns + 1
    /\ origin' = Append(origin, addr)
    /\ turn' = [turn EXCEPT ![r] =
                  [Idle EXCEPT !.pc = "think", !.id = turns + 1, !.addr = addr,
                               !.writes = SetContext("message") \o SetContext("spawn"),
                               !.calls = MaxCalls]]
    /\ LET beside == {turn[q].id : q \in {p \in Runner : turn[p].pc # "idle"}} IN
       disturbed' = IF beside = {} THEN disturbed ELSE disturbed \cup beside \cup {turns + 1}
    /\ UNCHANGED <<context, sentInRound, sub, delivered, jobs, ended>>

TurnWrites(r) ==
    /\ turn[r].writes # <<>>
    /\ Write(Head(turn[r].writes), turn[r].addr)
    /\ turn' = [turn EXCEPT ![r].writes = Tail(@)]
    /\ UNCHANGED <<sub, turns, origin, disturbed, delivered, jobs, ended>>

\* Mutant of the loop of runLLMIteration: it has no bound.
CallToolAlways(r, tool) ==
    /\ turn[r].pc = "think" /\ turn[r].writes = <<>>
    /\ turn' = [turn EXCEPT ![r].pc = "call", ![r].tool = tool,
                            ![r].writes = SetContext(tool), ![r].calls = @ - 1]
    /\ UNCHANGED <<context, sentInRound, sub, turns, origin, disturbed, delivered, jobs, ended>>

\* The model calls a tool: ExecuteWithContext sets its context first
CallTool(r, tool) ==
    /\ turn[r].pc = "think" /\ turn[r].writes = <<>>
    /\ turn[r].calls > 0
    /\ turn' = [turn EXCEPT ![r].pc = "call", ![r].tool = tool,
                            ![r].writes = SetContext(tool), ![r].calls = @ - 1]
    /\ UNCHANGED <<context, sentInRound, sub, turns, origin, disturbed, delivered, jobs, ended>>

Calling(r, tool) == turn[r].pc = "call" /\ turn[r].tool = tool /\ turn[r].writes = <<>>

\* A tool called with arguments it refuses returns an error; CronTool also lists, removes
\* and enables jobs, without looking at its context
Refuse(r) ==
    /\ turn[r].pc = "call" /\ turn[r].writes = <<>>
    /\ turn' = [turn EXCEPT ![r].pc = "think"]
    /\ UNCHANGED <<context, sentInRound, sub, turns, origin, disturbed, delivered, jobs, ended>>

\* MessageTool.Execute ...
SendMessage(r, asked) ==
    LET target == Target(asked, context["message"]) IN
    /\ Calling(r, "message")
    /\ target.channel # "" /\ target.id # ""
    /\ Deliver(turn[r].id, "message", asked, target)
    /\ turn' = [turn EXCEPT ![r].pc = "sent"]
    /\ UNCHANGED <<context, sentInRound, sub, turns, origin, disturbed, jobs, ended>>

\* ... and after the callback sentInRound
MarkSent(r) ==
    /\ turn[r].pc = "sent"
    /\ sentInRound' = [sentInRound EXCEPT !["message"] = TRUE]
    /\ turn' = [turn EXCEPT ![r].pc = "think"]
    /\ UNCHANGED <<context, sub, turns, origin, disturbed, delivered, jobs, ended>>

\* CronTool.addJob reads its context under the lock
AddJob(r) ==
    /\ Calling(r, "cron")
    /\ context["cron"].channel # "" /\ context["cron"].id # ""
    /\ jobs' = jobs \cup {[turn |-> turn[r].id, to |-> context["cron"]]}
    /\ turn' = [turn EXCEPT ![r].pc = "think"]
    /\ UNCHANGED <<context, sentInRound, sub, turns, origin, disturbed, delivered, ended>>

\* SpawnTool.Execute starts a goroutine for each task
Spawn(r, n) ==
    /\ Calling(r, "spawn")
    /\ sub' = [sub EXCEPT ![r] =
                 [i \in Sub |-> IF i <= n THEN [Off EXCEPT !.pc = "start", !.id = turn[r].id]
                                ELSE Off]]
    /\ turn' = [turn EXCEPT ![r].pc = "wait"]
    /\ UNCHANGED <<context, sentInRound, turns, origin, disturbed, delivered, jobs, ended>>

\* Mutant of SpawnTool.Execute: it does not wait for its tasks.
JoinAtOnce(r) ==
    /\ turn[r].pc = "wait"
    /\ turn' = [turn EXCEPT ![r].pc = "think"]
    /\ UNCHANGED <<context, sentInRound, sub, turns, origin, disturbed, delivered, jobs, ended>>

\* wg.Wait
Join(r) ==
    /\ turn[r].pc = "wait"
    /\ \A i \in Sub : sub[r][i].pc = "off"
    /\ turn' = [turn EXCEPT ![r].pc = "think"]
    /\ UNCHANGED <<context, sentInRound, sub, turns, origin, disturbed, delivered, jobs, ended>>

\* runAgentLoop returns, with a text, which is the error when it failed; the cron loop does
\* nothing with it
Return(r) ==
    /\ turn[r].pc = "think" /\ turn[r].writes = <<>>
    /\ turn' = [turn EXCEPT ![r] = IF r = "loop" THEN [@ EXCEPT !.pc = "reply"] ELSE Idle]
    /\ UNCHANGED <<context, sentInRound, sub, turns, origin, disturbed, delivered, jobs, ended>>

\* The end of an iteration of Run
Reply ==
    /\ turn["loop"].pc = "reply"
    /\ IF StreamMode \/ sentInRound["message"]
       THEN UNCHANGED delivered
       ELSE Deliver(turn["loop"].id, "answer", NoAddress, turn["loop"].addr)
    /\ ended' = ended \cup {turn["loop"].id}
    /\ turn' = [turn EXCEPT !["loop"] = Idle]
    /\ UNCHANGED <<context, sentInRound, sub, turns, origin, disturbed, jobs>>

-----------------------------------------------------------------------------
\* A subagent of the turn of r

\* The goroutine reads the context of the spawn tool, and RunToolLoop begins
SubStart(r, i) ==
    /\ sub[r][i].pc = "start"
    /\ sub' = [sub EXCEPT ![r][i] = [@ EXCEPT !.pc = "think", !.addr = context["spawn"],
                                              !.calls = MaxSubCalls]]
    /\ UNCHANGED <<context, sentInRound, turn, turns, origin, disturbed, delivered, jobs, ended>>

\* A call of the message tool in the subagents' registry: ExecuteWithContext
SubCall(r, i) ==
    /\ sub[r][i].pc = "think"
    /\ sub[r][i].calls > 0
    /\ sub' = [sub EXCEPT ![r][i].pc = "call", ![r][i].calls = @ - 1,
                          ![r][i].writes = SetContext("submessage")]
    /\ UNCHANGED <<context, sentInRound, turn, turns, origin, disturbed, delivered, jobs, ended>>

SubWrites(r, i) ==
    /\ sub[r][i].writes # <<>>
    /\ Write(Head(sub[r][i].writes), sub[r][i].addr)
    /\ sub' = [sub EXCEPT ![r][i].writes = Tail(@)]
    /\ UNCHANGED <<turn, turns, origin, disturbed, delivered, jobs, ended>>

\* Without a target the call is refused
SubSend(r, i, asked) ==
    LET target == Target(asked, context["submessage"]) IN
    /\ sub[r][i].pc = "call" /\ sub[r][i].writes = <<>>
    /\ \/ /\ sub' = [sub EXCEPT ![r][i].pc = "think"]
          /\ UNCHANGED delivered
       \/ /\ target.channel # "" /\ target.id # ""
          /\ Deliver(sub[r][i].id, "submessage", asked, target)
          /\ sub' = [sub EXCEPT ![r][i].pc = "sent"]
    /\ UNCHANGED <<context, sentInRound, turn, turns, origin, disturbed, jobs, ended>>

SubMarkSent(r, i) ==
    /\ sub[r][i].pc = "sent"
    /\ sentInRound' = [sentInRound EXCEPT !["submessage"] = TRUE]
    /\ sub' = [sub EXCEPT ![r][i].pc = "think"]
    /\ UNCHANGED <<context, turn, turns, origin, disturbed, delivered, jobs, ended>>

\* Mutant of the goroutine: wg.Done is not reached when RunToolLoop fails.
SubDoneOrLost(r, i) ==
    /\ sub[r][i].pc = "think"
    /\ sub' \in {[sub EXCEPT ![r][i] = Off], [sub EXCEPT ![r][i].pc = "lost"]}
    /\ UNCHANGED <<context, sentInRound, turn, turns, origin, disturbed, delivered, jobs, ended>>

\* RunToolLoop returns a text or an error, and the deferred wg.Done runs
SubDone(r, i) ==
    /\ sub[r][i].pc = "think"
    /\ sub' = [sub EXCEPT ![r][i] = Off]
    /\ UNCHANGED <<context, sentInRound, turn, turns, origin, disturbed, delivered, jobs, ended>>

-----------------------------------------------------------------------------
TurnStep(r) ==
    \/ TurnWrites(r) \/ Refuse(r) \/ MarkSent(r) \/ AddJob(r)
    \/ Join(r) \/ Return(r)
    \/ \E tool \in {"message", "spawn", "cron"} : CallTool(r, tool)
    \/ \E asked \in Targets : SendMessage(r, asked)
    \/ \E n \in Sub : Spawn(r, n)
    \/ r = "loop" /\ Reply

SubStep(r, i) ==
    \/ SubStart(r, i) \/ SubCall(r, i) \/ SubWrites(r, i)
    \/ \E asked \in Targets : SubSend(r, i, asked)
    \/ SubMarkSent(r, i) \/ SubDone(r, i)

Next ==
    \/ \E a \in Addresses : Begin("loop", a)
    \/ \E a \in JobAddresses : Begin("cron", a)
    \/ \E r \in Runner : TurnStep(r) \/ \E i \in Sub : SubStep(r, i)

Spec == Init /\ [][Next]_vars

\* Goroutines run, and the provider answers or its client times out.
FairSpec ==
    /\ Spec
    /\ \A r \in Runner : WF_vars(TurnStep(r)) /\ \A i \in Sub : WF_vars(SubStep(r, i))

-----------------------------------------------------------------------------
Writes == Seq([tool : Tool, fields : SUBSET {"channel", "id"}, reset : BOOLEAN])

TypeOK ==
    /\ context \in [Tool -> Address]
    /\ sentInRound \in [MessageTool -> BOOLEAN]
    /\ turn \in [Runner -> [pc : {"idle", "think", "call", "sent", "wait", "reply"},
                            id : 0 .. turns, addr : Address, writes : Writes,
                            tool : Tool \cup {""}, calls : 0 .. MaxCalls]]
    /\ sub \in [Runner -> [Sub -> [pc : {"off", "start", "think", "call", "sent"},
                                   id : 0 .. turns, addr : Address, writes : Writes,
                                   calls : 0 .. MaxSubCalls]]]
    /\ turns \in 0 .. MaxTurns
    /\ origin \in Seq(Chats) /\ Len(origin) = turns
    /\ delivered \subseteq [turn : 1 .. turns, by : MessageTool \cup {"answer"},
                            asked : Address, to : Address]
    /\ jobs \subseteq [turn : 1 .. turns, to : Address]
    /\ disturbed \subseteq 1 .. turns /\ ended \subseteq 1 .. turns

\* What a turn, its message tool or one of its parallel subagents sends goes to the chat that
\* the model named, or else to the one the turn came from, although the tools are shared and
\* keep the chat of the turn before, of whatever goroutine: each call sets the context again
\* (registry.go:62), subagents read it late (spawn.go:139) but do not outlive their turn.
\* Turns that ran beside another are excepted: there the code may send to the other's chat.
OwnChat ==
    \A m \in delivered : m.turn \notin disturbed => m.to = Target(m.asked, origin[m.turn])

\* A job reports to the chat in which it was created, unless turns overlapped (cron.go:101,
\* cron.go:125).
JobsReportToTheirChat == \A j \in jobs : j.turn \notin disturbed => j.to = origin[j.turn]

\* A turn of the agent loop that no other ran beside leaves its chat with a message or an answer,
\* or has sent a message to a chat that the model named: Run takes that for an answer too
\* (message.go:97, loop.go:195), but not what an earlier turn or a subagent has sent.
EveryTurnSpeaks ==
    ~StreamMode =>
      \A t \in ended \ disturbed :
        \E m \in delivered :
          /\ m.turn = t /\ m.by \in {"message", "answer"}
          /\ m.to = origin[t] \/ m.asked # NoAddress

\* A turn returns although it waits for its subagents.
EveryTurnEnds == \A r \in Runner : (turn[r].pc # "idle") ~> (turn[r].pc = "idle")

=============================================================================
