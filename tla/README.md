# TLA+ specifications of mortis-agent

mortis-agent is a personal assistant written in Go: a gateway that talks to
Telegram, an agent loop that calls a language model and runs tools, a cron
scheduler, and a handful of stores in files.  This directory holds TLA+ models
of the parts where concurrency, failure and order matter, the TLC
configurations that check them, and proofs for TLAPS.

    tlc -workers 2 -config CronSafety.cfg MCCronService.tla     # one run
    tlapm CronServiceProofs.tla                                 # proofs

`PROJECT.json` lists every run with its properties, the source lines each
definition models (`map`), a changed definition for each property under which
the property fails (`mutants`), what the violated runs show (`findings`), and
the places in the code that are hard to test (`hazards`).

## Inventory

### How the program runs

`gatewayCmd` (cmd/mortis-agent/main.go:526) builds one process with these
goroutines:

| goroutine | runs | shares |
|---|---|---|
| agent loop | `AgentLoop.Run`: inbound messages, one after the other | sessions, tools, bus |
| cron loop | `CronService.runLoop`: due jobs, one after the other; a job's callback runs a whole agent turn (`ProcessDirectWithChannel`) in this goroutine | the same sessions, tools and bus |
| summarizers | `summarizeSession`, at most one for a session | sessions |
| Telegram updates | `handleMessage`, `handleCallbackQuery`, one update after the other (telegram.go:378); a full inbound channel holds them up | stream states, execution logs, bus |
| Telegram stream | `handleStreamMessages`: stream events, in order | stream states, execution logs |
| dispatcher | `dispatchOutbound`: outbound messages, in order | the channel table |
| subagents | `RunSubagentSync`, one for a task of a `spawn` call, which waits for them | the spawn tool's chat, a registry of their own |
| device service | USB events to outbound messages | a state manager of its own |

They communicate through three channels of capacity 100 (pkg/bus): inbound,
outbound and stream.  All senders block.  `mortis-agent agent` is a process with
an agent loop but without channels; `mortis-agent cron`, `auth` and `migrate`
work on the files of the gateway from a process of their own.

### Components

| component | state | operations | what makes it correct |
|---|---|---|---|
| Cron scheduler, `pkg/cron/service.go` | jobs in memory and in `jobs.json`, the running flag | Start, Stop, checkJobs, executeJobByID, AddJob, UpdateJob, RemoveJob, EnableJob | a one-time job runs at most once, a recurring job is never left without a next run nor run early, a confirmed job survives a crash, a due job starts |
| Cron tool and commands, `pkg/tools/cron.go`, `main.go:965` | none; a second process on the same file | addJob with its later UpdateJob, list, remove, enable, disable, ExecuteJob | as above |
| Session store, `pkg/session/manager.go` | messages and summary by session, one file each | AddMessage, AddFullMessage, GetHistory, SetSummary, TruncateHistory, Save in two phases, loadSessions | a prompt misses nothing between history and summary, its tool calls and results match, nothing is dropped unsummarized |
| Summarizer, `loop.go:911, 1001` | `al.summarizing` | maybeSummarize, summarizeSession, summarizeBatch | as above, beside turns of the same session |
| Agent loop, `pkg/agent/loop.go` | the turn under way | Run, ProcessDirect, processMessage, processSystemMessage, runAgentLoop, runLLMIteration | each message gets one answer, in its chat |
| Context builder, `pkg/agent/context.go` | none | BuildMessages | prompts the provider accepts |
| Message bus, `pkg/bus` | three bounded channels | Publish*, Consume*, Subscribe* | nothing lost, nobody blocked for ever |
| Telegram channel, `pkg/channels/telegram.go` | stream state by chat, execution logs by session | handleMessage, handleStreamEvent, finalizeStreamMessage, Send, View Details | a message shows one turn, the answer is shown, no state is left over |
| Channel manager, `pkg/channels/manager.go` | the channel table | StartAll, StopAll, dispatchOutbound | outbound messages reach their channel |
| Provider streaming, `pkg/providers/stream_helper.go` | none | ChatWithStreamBase | chunks in order |
| Tool registry and message tool, `pkg/tools/registry.go`, `message.go` | default chat, sentInRound, of tools shared by two goroutines | SetContext, Execute, HasSentInRound | a message goes to the chat of its turn; a turn answers once |
| Subagents, `pkg/tools/subagent.go`, `spawn.go`, `toolloop.go` | chat of the spawn tool (the task table has no user) | SpawnTool.Execute, RunSubagentSync, RunToolLoop | they report to the chat of their turn, do not outlive it and do not block it |
| Question tool, `pkg/tools/question.go` | questions, callback channels | CreateQuestion, AnswerQuestion, WaitForAnswer, CancelQuestion, CleanupExpired | an answer reaches its waiter, a question ends in one way |
| Workspace state and devices, `pkg/state`, `pkg/devices` | last channel, in memory and in a file | SetLastChannel, saveAtomic, sendNotification | a crash leaves old or new; a device is reported once, to a chat |
| Gateway, `main.go:526` | where the boot and the shutdown are | start, interrupt, stop | outbound messages flow in order; an interrupt ends the process |
| Stream processor, `pkg/stream`, `pkg/message` | parts of a message, open ones by id | one handler for each event | a part goes through its life once and holds what it was told |
| Credentials, `pkg/auth`, the token sources of `pkg/providers` | `auth.json`, the method in `config.json` | login in two ways, logout, refresh | what a command did stays; a login needs consent and ends |
| Choice of a provider, `http_provider.go:227` | none | CreateProvider | one sequential function of the configuration; not modelled |
| Migration, `pkg/migrate` | files, `config.json` | Plan, Confirm, Execute | never overwrites without a backup or `--force`; keeps what was configured |
| Todo tool, `pkg/tools/todo.go` | one map for all chats | create, update, delete, list, clear | chats stay apart |
| Memory store, file, shell, web and hardware tools, skills, voice, logging | none worth a state machine | | edit replaces exactly one occurrence; grep and glob stop at their limits |

### Hard behaviours

Orders of two goroutines: the cron loop's turn and the agent loop's turn in one
chat, a tool call that changes a job while its callback runs, a turn that
extends a session while the summarizer waits for the provider.  Failure: torn
writes of `jobs.json`, saves whose error is ignored, refused edits of Telegram
messages, provider errors.  Crashes between the disarming of a job and its run,
or in the middle of a turn whose session was just saved.  Bounded channels with
blocking senders and, in some processes, no receiver.  Several processes on one
file.  `PROJECT.json` has each with its line.

## Plan

Modules in the order they are written; a module marked (done) is in this
directory.

1. `CronService` (done): scheduler, tool and commands on one file.
2. `CronServiceProofs` (done): inductive invariant, three theorems.
3. `SessionHistory` (done): session, turns, summarizer, file.
4. `StreamPipeline` (done): bus, turns, stream events, the Telegram messages.
   It composes the bus, both goroutines that run turns, and the channel.
5. `SessionHistoryProofs` (done): inductive invariant, two theorems.
6. `AgentTools` (done): the tools that keep the chat of a turn, shared by the two
   goroutines that run turns, and the parallel subagents of the spawn tool.
7. `StateFile`, `Gateway` (done): the state file with each step of saveAtomic
   and two managers; the gateway that boots, records the last channel, reports
   devices, dispatches outbound messages and shuts down.
8. `MessageParts`, `StreamProcessor` (done): the promise about the parts of a
   message, and the processor that implements it by a refinement mapping.
9. `Question`, `Credentials`, `Login`, `Migration`, `TodoList` (done): the components that run beside the gateway or in one tool. `Services`
   (done) composes them with `StreamProcessor` for one run and one proof module.
10. Left open: the View Details pages of telegram.go with their execution log;
    `EditFile` and `SearchLimits`, the algorithms of the file tools against
    reference definitions over bounded inputs.
11. Abstract specifications: `MessageParts`, implemented by `StreamProcessor` (done,
    proved).  Left open: a `Scheduler` of armed jobs for `CronService`, which would
    promise what `AtMostOnce`, `PeriodKept` and `RecurringJobsStayArmed` state one by
    one, and a bounded queue for the channels of `StreamPipeline`, whose order
    `DeliveryInOrder` and `AnswersAreShown` already rest on.
12. `GatewayProofs`, `QuestionProofs`, `StreamProcessorProofs`, `AgentToolsProofs`,
    `StreamPipelineProofs`, `ServicesProofs` (done), and `CronServiceProofs` and `SessionHistoryProofs`
    extended (done): what each proves is under Proofs.
13. Every safety property of a passing run has its theorem (done); the liveness
    properties are model-checked only.

Runs stay small, one for each question; small modules share a run through a
module that composes them.

## Modules

### CronService

A job is an identifier.  `spec` holds what AddJob writes once (kind, period or
time, DeleteAfterRun, whether the tool attaches a command); `store`, `disk`,
`pending` and `cli` hold entries `[enabled, next, cmd]`: the memory of the
service, the file, the copies AddJob returned to a tool call that will pass them
to UpdateJob (tools/cron.go:199), and the store a `mortis-agent cron` process
loaded.  `due` and `cur` are the local state of the loop goroutine: the jobs
checkJobs collected and the one whose callback is running.

| action | code |
|---|---|
| `Boot`, `Start`, `Stop`, `Crash` | NewCronService, Start, Stop, the end of the process at any point, also inside os.WriteFile |
| `CheckJobs` | checkJobs up to the unlock, its save included |
| `BeginJob`, `FinishJob` | executeJobByID before and after the callback, which runs without the lock |
| `AddJob`, `UpdateJob`, `RemoveJob`, `EnableJob` | the API; every save may fail and may leave a file that does not parse |
| `CliOpen`, `CliAdd`, `CliRemove`, `CliEnable` | the command: load, change, write |

A cron expression is a period whose multiples it matches; a period of 0 stands
for an expression that is rejected.  LastRun, LastStatus, names and messages are
left out.  Two history variables, `lastStart` and `acked`, remember when a job
last started and which jobs were confirmed.

Runs.  `cron_safety`: one job of each kind, all delays 0 to 2, a clock of 4, one
failed or torn access, the command-line process, any number of restarts.  One
job is enough because the properties speak of one job and the actions of
different jobs only share the save; a failed access at any point is covered by
one fault, since a second finds the file as the first left it.  It checks
`AtJobRunsAtMostOnce`, `EveryJobKeepsItsPeriod` and `NoStrandedRecurringJob`.
`cron_two_jobs`: two jobs, one of which is left by an earlier process and is not
deleted after its run; no faults and no second process.  It checks
`AckedJobsAreDurable`, and `DueJobStarts` under fairness of the clock and of the
loop goroutine outside callbacks: the ticker fires, and the goroutine runs.
Whether a callback returns is not assumed, since a turn can block for ever (see
`stream_terminal`): it is a premise of the property, `CallbacksReturn`.  Its second
part is about recurring jobs only.  A one-time job whose time has come can lose its
run to an EnableJob before the next tick, which computes no next run for it and
leaves it enabled (service.go:436); the model has this step.  Nobody is obliged to
call the API.  `cron_cli` adds the second process and finds that a
confirmed job can be overwritten: each process writes its whole copy.

The runs set CHECK_DEADLOCK FALSE because the clock is bounded and identifiers
are used up.

### SessionHistory

One conversation.  `messages` and `summary` are the session, `file` its file,
`turn` the one turn at a time that a session has (its pc, the prompt it builds,
its snapshot for Save) and `summarizer` the goroutine of maybeSummarize.  A
message is its position, its role and its number of tool calls; a summary is the
set of messages it tells of.  Every call of the session manager is a step,
because each takes the lock by itself; Save is two, a snapshot under the lock
and the rename after it, which may also fail with nobody looking.
`CrashAndLoad` ends the process at any point and reads the file again.  The
history variables `dialogue` and `forgotten` remember what was said and what a
truncation dropped without a summary.

Thresholds are scaled down: 4 kept messages become 2, 20 become 3, 10 become 2
or 9.  What matters is their order and that a turn can add more messages than
are kept while the summarizer waits, which 8 messages allow.

Runs.  `session_safety` has failing provider calls, failing saves and a crash,
and checks `PromptHasNoGap` (the order in which a turn reads history and summary
fits the order in which the summarizer writes them) and `NoOrphanResults`.
`session_tail` finds a message lost although it was kept "for continuity":
TruncateHistory is applied to the history as it has become.  `session_crash`
finds a file with a tool call without its result: the summarizer saves in the
middle of a turn.  There is no liveness: the model bounds the conversation, and
the turns' progress is a matter of StreamPipeline.  CHECK_DEADLOCK is FALSE
because the conversation ends at MaxMessages.

### StreamPipeline

The bus's channels are sequences with capacity `Cap`; `turn` holds, for the
agent loop ("loop") and for the caller of ProcessDirectWithChannel ("direct"),
the stage of its turn and the events it still has to publish; `arriving` holds
the messages of Telegram handlers that have created the stream state of their
chat and not yet published.  `states` is the channel's map of stream states and
`shown` the messages the bot has sent.  Text is a sequence of chunks, a chunk
the turn and part it comes from, so that `shown` tells whose text a user sees.
The last chunks of a text may be white space (`blanks`), which handleStreamEvent
trims at text-end, and a message has room for `Limit` chunks, for the 4000
characters after which updateStreamMessage and finalizeStreamMessage cut.
A message that lists tool calls before its text (form `"calls"`) may show less of it.

`HandleMessage` and `PublishInbound` are the two halves of handleMessage;
`ConsumeInbound`, `ProcessDirect` and `Deliver` start turns or send a job's
message directly; `Iterate`, `LlmFails`, `IterationsExhausted`, `Finish` and
`Return` are runAgentLoop with runLLMIteration, whose events `PublishStream`
sends one by one; `HandleStream` is an iteration of the stream goroutine with
the handler of each event (`OnTextStart` ... `OnFinish`, `OnError`);
`Dispatch` is the outbound dispatcher.

Runs.  `stream_safety`: capacity 1, so that every second event finds the channel
full; two turns, of the loop or of a job that reports to another chat or to no
channel; failing providers, one refused edit, remarks of one chunk before a tool
call, and answers of four chunks, one of them white space, where a message has room
for two.  It checks `NoMixedText`, `AnswerIsShown`, `QuietChatHasNoState` and,
under fairness, `EveryMessageIsAnswered`.  Two turns are enough for the state of
one turn to meet the events of another.  `stream_overlap` lets the job report to
the chat that is being served and finds mixed text; `stream_terminal` has no
receiver of stream events, as in `mortis-agent agent`, and finds a turn that never
returns.

`AnswerIsShown`: after the finish of a turn its chat shows a text of the turn that is as
long as the answer without its white space, or fills the message.  What it is for is
that neither the events of others, nor a state thrown away early, nor the list of
tool calls leaves less.  Two limits of it are those of the code.  When Telegram
refuses the last edit, the message keeps its list of tool calls.  And it does not say
which of two long enough texts is shown: GetFinalText takes the longest of a turn
(telegram.go:158), so that an answer shorter than an earlier remark is never shown.

Fairness: the handler that publishes an inbound message, the stream goroutine and
the dispatcher are weakly fair.  The two goroutines that run turns are strongly fair
(`ConsumeInbound` with the turn's steps, and the turn's steps of the direct caller),
because a blocked sender is queued by Go's channels first in, first out, and so is
served although the channel is full again and again; the provider answers or its
client times out.
CHECK_DEADLOCK is FALSE because the number of turns is bounded.

Telegram calls other than edits succeed in the model.  The conversion to HTML keeps
the length, so that what is cut is the text; the View Details pages, media and the
message tool are left out.

### AgentTools

The message tool, the spawn tool and the cron tool learn the chat of a turn from
SetContext and keep it in fields.  There is one of each, for the agent loop and
for the cron loop, and a second message tool in the subagents' registry.
`context` holds these fields and `sentInRound` the flag of each message tool;
`turn` the turn of each goroutine, with the field writes it still has to make
(`writes`, because SetContext assigns one field after the other, without a lock
except in the cron tool), and `sub` the goroutines of a spawn call.

| action | code |
|---|---|
| `Begin`, `TurnWrites` | runAgentLoop up to updateToolContexts |
| `CallTool`, `TurnWrites`, then `SendMessage` with `MarkSent`, `AddJob`, `Spawn` or `Refuse` | ExecuteWithContext: SetContext, then Execute |
| `SubStart` ... `SubDone` | a goroutine of SpawnTool.Execute: RunSubagentSync, RunToolLoop |
| `Join` | wg.Wait |
| `Return`, `Reply` | the end of a turn; Run sends the answer unless the message tool has sent something |

The message tool takes a channel and a chat from the model (`Targets`), each of which
replaces that of the context (message.go:71), and sets sentInRound in any case.

The turns of the two goroutines may overlap, as the code permits.  Then one can set the
chat of the message tool between the other's SetContext and Execute, and a message goes
to the other's chat (message.go:50): the model does this.  `disturbed` remembers the
turns that another ran beside, and the three safety properties leave these out.  What
they say is that any other turn is right, also one that comes after such a mess.

Runs.  `tools_safety` has Telegram's stream mode off, so that Run answers; turns from two
chats, of the loop or of a job, two tool calls in a turn, two subagents with a call
each; the message tool is asked for no chat, or for the id of one.  Two turns are enough
for a context left by one to meet the other, two calls for the second to find what the
first left.  A constraint (`TwoOrOverlapAndOne`) keeps either two turns, or two that
overlap, with one call each and no subagents, and a third alone.  It checks `OwnChat`,
`JobsReportToTheirChat`, `EveryTurnSpeaks` and, under weak fairness of every turn and
every subagent, `EveryTurnEnds`: goroutines are scheduled, the provider answers or its
HTTP client times out, and the loops are bounded by the number of iterations.
CHECK_DEADLOCK is FALSE because the number of turns is bounded.

`EveryTurnSpeaks` accepts a message to a chat that the model named for the answer,
because the code does: Run withholds the answer, and the user who wrote gets nothing
in the own chat, although message.go says "Silent: user already received the message
directly".  The other tools are left out, and processSystemMessage, which only logs.

### Gateway and StateFile

`StateFile` is pkg/state: the file at its old and at its new place, the temporary
file, and for each manager what it has in memory and how far its save is.
`Gateway` instantiates it for the two managers of the process, the agent's and the
device service's, and adds what surrounds the agent: `main` is where gatewayCmd is,
`turn` the turn that the agent loop or the cron loop runs (only its recording of the
channel, its save and its outbound message; the rest is in the modules above),
`blocks`, `events` and `handler` the way from udevadm to a notification, `outbound`
and `dispatcher` the bus and dispatchOutbound.

The Stop functions wait for three locks, each held in one place of the model: the device
service's while sendNotification reads its bus (`handler.pc = "locked"`), the cron
service's while checkJobs collects (`turn["cron"].pc = "due"`), the channel manager's
while the dispatcher looks a channel up (`dispatcher.pc = "lookup"`).  Holding a lock
over the publication that follows would be enough to keep the gateway from ending,
which is what the mutant `NotifyLocked` does.

| action | code |
|---|---|
| `NewAgent`, `NewDevices`, `StartAll` | gatewayCmd up to the signal, with the migration of the state file by the first manager |
| `Begin`, `RunJob` | Run takes a message; checkJobs collects a job and unlocks, and the job goes to the agent or its message to the bus |
| `Record`, `Save`, `Finish`, `PublishAnswer` | runAgentLoop's RecordLastChannel with each step of saveAtomic, which may fail, and PublishOutbound, which waits while the bus is full |
| `Plug`, `ReadBlocks`, `MonitorEnds` | USBMonitor.Start and parseUSBEvent |
| `HandleEvent`, `Notify`, `PublishNotification` | handleEvents, sendNotification with its lock, PublishOutbound |
| `Take`, `Lookup`, `Send`, `DispatcherEnds` | dispatchOutbound with its lock, SubscribeOutbound, Telegram's Send |
| `Interrupt`, `StopDevices`, `StopCron`, `StopAll`, `CrashProcess` | the signal, the Stop functions with the locks they wait for, the end; a crash at any point |

`gateway_safety`: bus and event channel of capacity 1, so that a second sender
waits; two turns, of a chat or of a job for the chat or the terminal, a device plugged in
once, two lives of the process, and an old state file that is missing or names the
terminal: 381,562 states.  Two turns are enough for the managers to save at the same
time as one another and for three senders to meet on the bus; two lives for what a crash
left to be read.  Safety: `StateFileIsWhole`, `OneNotificationPerPlug`, `NotifiesAChat`,
`DeliveredInOrder`.  Liveness: `OutboundDrains` and `ShutdownEnds`, under weak
fairness of main, of the dispatcher, of the monitor, of the device handler and of each
turn and save: goroutines are scheduled, and calls of Telegram and of the file system
return.  Weak fairness suffices for main, which waits for locks, because in the model
who takes a lock either frees it for good or takes it again only as often as there are
turns, messages and devices; in the program a RWMutex lets no reader in before a writer
that waits.  A turn that waits for the bus has no step, so nothing assumes that it ends.
Begin, Plug, Interrupt and crashes are nobody's obligation.  CHECK_DEADLOCK is FALSE
because turns and lives are bounded.

What the model shows beside its properties: a gateway without a channel has no
dispatcher, so that turns and jobs that publish block as soon as the bus is full,
although the shutdown still ends; and notifications go to the channel of the last
start, because the device service's manager reads the file once (main.go:612) while
runAgentLoop records the channel "for future proactive notifications" (loop.go:559).

### MessageParts and StreamProcessor

`MessageParts` is the promise about the parts of an assistant's message: the list
grows, a text or a reasoning gathers what is said while it is open and is trimmed
when it is closed, a tool call goes from pending to running to completed, or to
error, and no further.  `StreamProcessor` is pkg/stream/processor.go, an action for
each event, in any order: `parts`, `currentText` with its builder, and the three
maps by id.  An event that ProcessEvent refuses changes nothing.

The refinement mapping `Shown` gives each open part the text that its builder holds:
a reader who knew the builders would see a message that keeps the promise.
`ImplementsParts` says that every step of the processor is a step of MessageParts or
a stutter.  `MapsHoldTheOpenParts` is why it holds: a late or repeated result finds
nothing in the map.  `TextIsWhole` compares a closed part with the history `told` of
what came for it; `cut` are the parts that were open at the end of a stream, whose
builders went back to the pool while CurrentText and ReasoningMap still name them.

### Question

pkg/tools/question.go: `questions` and `callbacks` are the manager's maps, `asker`
the tool calls that ask and wait, `reply` the messages of the user on their way
through ProcessQuestionAnswer, which looks for a pending question in one critical
section and answers it in another.  `CleanupExpired` is there although nobody calls
it.  `AnswerIsReturned` and `ClosedOnce` say that the races of answers, timeouts and
the clean-up have one winner, which the tool returns; `AsksEnd` that the tool
returns, under weak fairness of each tool call, whose timer fires.  Two tool calls
and two messages are enough for every pair of these to meet.

The model also shows that a message whose answer is refused is swallowed (the
function returns true all the same), that a question that is cleaned up returns an
empty answer as a success, and that answered questions are never removed.

### Credentials and Login

`Credentials` is auth.json under `mortis-agent auth` and the provider calls of other
processes: each change loads the file, truncates it and writes it, with nothing
locked; logging out of everything removes it, so that a writer may write to a file
that is gone (`orphan`).  A credential is the response that issued it and the login
it descends from.  `disturbed` is set when two changes meet, when a command came and
went during a refresh, or when a write does not complete: `CommandsHold` says that
only then can a login or a logout be undone, which a refresh that races a logout
indeed does.  Two callers, two commands and three credentials let every pair meet
and a refreshed credential be refreshed again.

`Login` is how a credential is got, by browser or by device code.  `LoginEnds` has
weak fairness of the login's own steps (requests to the server return; the code sets
no timeout for them, so this is an assumption on the network) and strong fairness of
the deadline: select takes a timer that has fired sooner or later however often the
ticker is ready too.  A request to the callback brings the state of this login or
another one, and a code or none; `Result` is what its handler compares and sends.
`SuccessNeedsConsent` holds although any request may decide the login, and fails when
the state is not compared (`ResultOfAny`).  Three requests are one more than the result channel
and the login take.

### Migration

`mortis-agent migrate`: `run` is the run under way with the actions it still has to do,
`file` the paths of the workspace with what they hold, `config` what is in config.json.
A backup is a path like any other (`BakOf`), and the plan may contain it: the walk over
memory and skills takes MEMORY.md.bak as a file of its own (workspace.go:79).  Every copy
may fail before or after it began, the process may end at any point, the agent may write
its files and the user may change the configuration at any time.  Contents are known by
who wrote them for which path; Moonshot stands for the providers that are not migrated,
VLLM for the one that needs no key.

In the run the files are X and X.bak, so that one is called like the backup of the other.
Two runs, because the second meets what the first has left.  A run does its configuration
and then its files, and neither looks at what the other did: a constraint
(`FilesOrConfigurations`) keeps to the behaviours that have one or the other.

`KeptOrBackedUp` is checked at every point of a run, and leaves out (`Apart`) a file whose
backup has the name of another file of OpenClaw, or which is called like the backup of
one, since the code does lose those: it backs MEMORY.md up, and then copies OpenClaw's
MEMORY.md.bak over the backup; or, when the workspace had a MEMORY.md.bak of its own,
overwrites it by the backup.  `ConfigKeepsMine` is checked against what the user last
configured, by `Configure` too; it names what the merge keeps.

What no property states: a second run backs up the migrated file over the backup of
the original; a file created between plan and copy is overwritten without a backup;
`--force`, which is documented as "Skip confirmation prompts" (main.go:368), also
skips the backups; a provider without a key loses its AuthMethod in the merge, and a
channel that the user disabled is replaced by one that OpenClaw has enabled.

### TodoList

pkg/tools/todo.go: one map for all chats, whose keys begin with the chat.  A chat is
a sequence, so that one can be the beginning of another.  A list takes pointers
under the lock and reads through them after it; a status that is being written is
two words, of which the reader may see one ("torn").  `ChatsStayApart` joins the
two promises: no call touches the to-dos of two chats, and a list shows its own.

### Services

The six small components above (StreamProcessor, Question, Credentials, Login,
Migration, TodoList) share nothing.  `Services` puts them into one
specification: Init chooses the component that a behaviour is about and the others
rest, so that the states add up and do not multiply; `MCServices` gives the values of
its constants.  Its type invariant, properties and fairness are those of the
components: those with names of their own for Init, Next and TypeOK are extended, the
others instantiated.  `ServicesAssumption` collects what Migration and TodoList need of
their constants: no two files have one backup and none is its own, configurations have
the fields that the migration merges, and no chat with a colon after it is the beginning
of another chat.  The last one is what the keys
of the to-do tool rely on: a chat is `channel:chatID` (todo.go:217), Telegram's are
numbers and the terminal's is one word, and only a job whose `--to` has a colon could break it.
CHECK_DEADLOCK is FALSE because each component comes to rest at its bounds.

## Proofs

TLC checks the properties on the instances above; the theorems hold for every value
of the constants.  Each component has its proofs in a module of its own, which
extends the component's module and is read from the top: types, then for each
property the inductive invariant, one lemma or step for each action, and the theorem
last.  The invariants named here were checked with TLC before they were proved, where
they quantify over what TLC cannot enumerate in an equivalent form.

| module | theorems | assuming |
|---|---|---|
| `CronServiceProofs` | `TypeCorrect`, `AtMostOnce`, `PeriodKept`, `RecurringJobsStayArmed`, `AckedUntilAFault` | `ConstantsAssumption`; the last one also that there is no second process (`~WithCli`), with which it is false |
| `SessionHistoryProofs` | `TypeCorrect`, `PromptComplete`, `EveryResultHasItsCall` | `ConstantsAssumption` |
| `AgentToolsProofs` | `TypeCorrect`, `EverythingToItsChat`, `JobsToTheirChat`, `TurnsSpeak` | `ConstantsAssumption` |
| `GatewayProofs` | `TypeCorrect`, `StateSurvives`, `NotificationsReachAChat`, `PlugNotifiesOnce`, `DeliveryInOrder` | `ConstantsAssumption` |
| `StreamPipelineProofs` | `TypeCorrect`, `NothingLeftBehind`, `MessagesShowOneTurn`, `AnswersAreShown` | `ConstantsAssumption`; the last two also that jobs do not report to the chats users write in, without which `MessagesShowOneTurn` is false; `AnswersAreShown` also `NoneAssumption` |
| `StreamProcessorProofs` | `ProcessorTypeCorrect`, `MapsAreExact`, `ClosedTextsAreWhole`, `ImplementsMessageParts` | the first one `ProcessorAssumption`, the others nothing |
| `QuestionProofs` | `QuestionTypeCorrect`, `QuestionClosesOnce`, `AcceptedAnswerIsReturned` | `QuestionAssumption` |
| `ServicesProofs` | `TypeCorrect`, `CommandsStay`, `LoginHadConsent`, `MigrationKeepsFiles`, `MigrationKeepsConfig`, `TodosStayApart` | `ServicesAssumption` and `CredentialsAssumption`; `TypeCorrect` also the two above |

The assumption on the constants of a module says that bounds are natural numbers, that
model values differ from what they stand beside (`NoneAssumption`: that a chat without
a stream state is told from one that has a state), that chats are records of a channel
and an id that are not empty, and that the options of a question are texts.

### CronServiceProofs

Neither `AtJobRunsAtMostOnce` nor `EveryJobKeepsItsPeriod` is inductive.  The
inductive invariant `IInv` joins TypeOK with

- `Quiet`: while the process is not up the loop has nothing in hand and no copy
  is pending; an identifier nobody drew yet has no history; starts are not in
  the future;
- `AtTimes`: wherever an entry of a one-time job is kept (memory, pending copy,
  file, command-line process), its next run is none or the time it was created
  for, so that computing it again after that time gives none;
- `AtInv`: a collected or started one-time job has reached its time; a collected
  one has not started; a started one is not armed in memory unless its callback
  is running, which is the only moment at which a late UpdateJob can arm it
  again, and then the update after the callback deletes it;
- `EveryInv`: a periodic job without command that has started is armed, or was
  collected again, no earlier than a period after its last start, unless its
  callback is running, after which it is armed anew.

`RecurringJobsStayArmed` needs `AllArmed`: while the service runs, an enabled recurring
job of the store has a next run or is in the loop's hands, and so has the copy that a
late UpdateJob will put back; the file may have it disarmed, but Start computes all
next runs again.  `AckedUntilAFault` needs `Durable`: without a second process and
before the first fault the file of a gateway that is up is its store, and has every
confirmed job.

### SessionHistoryProofs

Its first part is lemmas on histories: which identifiers SubSeq, Append,
TruncateHistory's cut and the loop of BuildMessages keep (`LastIds`, `AppendIds`,
`StripIds`).  The inductive invariant `TInv` joins TypeOK with: no identifier of
a tool result, wherever it is kept, is that of a spoken message or in a summary,
and all are numbers already given.  It is needed because `forgotten` is computed
from all identifiers of the history while a summary tells of spoken messages
only.  `NoGap` then says where the dialogue is in each phase of a turn: between
GetHistory and GetSummary the turn has read every spoken message the session
still has, and what the session lost since is in the summary it is about to read.

`EveryResultHasItsCall` needs `Ordered`: in every history that is kept (session, file,
both snapshots) a result comes after a call of a message from which only results lie
between, no more of them than calls, or after nothing but results, which BuildMessages
strips; that is what remains true when a truncation cuts between a call and its
results.  While a turn adds results, the session still awaits as many as are left.

### AgentToolsProofs

`Alone`: two turns that run at a time are both in `disturbed`, so that while a turn is
not (`Lone`), nobody else writes; the tools it uses have its chat in each field, *or* a
write still to be made will set it (`Set`, `ToBeSet`), and so for its subagents and
their message tool.  The last alternative is what makes it inductive between the two
assignments of a SetContext, and it asks nothing of what earlier turns left behind.
`FlagIsOurs`: once an undisturbed turn has made its first writes, the flag of the message
tool is set only if the turn has sent, which with the guard of `Reply` gives
`EveryTurnSpeaks`.

### GatewayProofs

`OneSaves`: the managers never save at the same time, because the device service's
saves only while the gateway boots and the agent's only after that, where one turn at
a time records its channel; so what is in the temporary file when it is renamed is the
memory of the manager that renames it.
`OnePerPlug` counts: what udevadm has printed is the end of groups of four blocks, one
of which is an event, and notifications, events and groups are together no more than
the devices that came.
`Ordered`: the numbers on the bus ascend up to the last one published, what the
dispatcher has in hand and what Telegram has accepted are below them.

### StreamPipelineProofs

`Types` says of a turn more than TypeOK, so that it is inductive: its queue has only
events of its own, the last of them ends it when nothing but the reply is left, and by
then its answer is given.
`Closed` is what keeps a quiet chat without state: each event in the channel is followed
by the end of a turn of its chat, or a turn of the chat is still to publish one, and so
is each state, unless it is as handleMessage left it with its message still on the way.
`MessagesShowOneTurn` needs `Separate`: between the events of two turns of a chat there
is the end of the first (`Apart`), also when the later turn is still to publish
(`OwnTurn`), and a state with its message holds only what the turn of the chat's next
event has told (`Sourced`); so the state that a turn's first event finds is fresh.

`AnswersAreShown` follows a turn's answer from the queue of its goroutine through the
channel to the message.  Three more invariants carry it.  `Numbered`: a turn's number
is in one place only, among the messages on their way or with one goroutine, and a
turn in the loop of runLLMIteration has published no event that ends it.  `Drawn`: two
stream states never have one message, and a state's message shows progress.
`Delivered`: a turn that is neither before its end nor ended with the default or an
error response is `Accounted` for.  Its last iteration publishes the events `Line(w, 1)`
to `Line(w, Last(w))`: start-step, text-start, the deltas, text-end, finish-step and
finish; there are numbers h and b such that the first h have been handled, those from
h + 1 to b lie in the channel in this order (`Leads`), and the goroutine has the rest in
its queue (`ToPublish`).  In the channel, what comes before the first of them may be of
earlier iterations or turns of the chat, what comes after the last is of other turns,
and nothing of the chat lies between them: this is where the hypothesis on jobs is
needed.  h tells what the chat has (`Received`): after text-start and k deltas the part
has k chunks (`Written`), after text-end the state's message shows as many without the
white space, or as a message has room for (`Displayed`), and after finish a message that
no state has any more does, or lists tool calls because an edit was refused (`Ended`).
The proof has a lemma for each action (`SettledBegin`, `SettledTurn`, `SettledEnd`,
`SettledPublish`, `SettledTake`), and under `SettledTake` one for each kind of event of
the answer (`ReceivedNext`) and one for all others (`ReceivedBeside`).

### StreamProcessorProofs

`Tracks`: CurrentText and the two maps lead to open parts of their kind and id, and each
open reasoning and each tool call that has begun is in its map; from it follow
`MapsHoldTheOpenParts` and the refinement.
`TextsHeld` compares the builder of each open part with what it was `told`,
and the closed parts with the trimmed text.  `ImplementsMessageParts` is proved event
by event: with `ShownIsParts`, the mapping shows the parts themselves except for the
texts of the open ones, so that a delta is MessageParts' `Say`, an end is its
`Close`, the end of a stream, which takes back the builders, is its `EndStream`, and
an event that finds nothing in a map is a stutter.

### QuestionProofs

`Channels`: a question's channel holds an answer exactly if the question was answered
and its call has not taken it; `Results`: a call that returned gave what its question
was answered with, if it had been before the call gave up.  Both are needed because
the answer's critical section and the call's are two steps each.

### ServicesProofs

A step of Services is one of a single component (`OneMoves`), so each component has an
inductive invariant of its own.

- `CredentialsInv` is about who may write what.  While nothing was disturbed, at most
  one actor is writing, and while nobody is, the file has the logins of its `owner`s
  (`FileOk`).  What an actor holds is as good as what it was read from (`ActorOk`): a
  copy loaded from the present `version` has the owners' logins, a call whose `asked`
  is still `done` refreshes its owner's login, and a writer's copy is of the present
  version, since `Truncate` is marked as disturbing otherwise.  Each change raises
  `version` and each command `done`, so what others hold stops being believed rather
  than being wrong; that is why the invariant survives a logout that takes the file
  from under a writer.  `ConfigOk` says the same of config.json but for what the
  command under way is about to change.
- `LoginInv`: what is in the channel is the `Result` of a request whose handler was
  served; once the code is exchanged, a request with our state and a code was.
- `MigrationInv`: for each file that the agent has not written since, the action that is
  still planned for it tells where the content is that the plan found (`KeptSoFar`): in
  place before its backup and, once it may be overwritten, in the backup.  Copies and
  backups of other files write other paths, because two files have two backups
  (`Backups`), neither has the other's name (`Apart`), and only what OpenClaw has is
  planned (`SourcesPlanned`).  What is in config.json has what the merge keeps of the
  configuration the user last gave (`ConfigKept`).
- `TodoInv`: each identifier is under the key of one chat.  `KeyParts` and
  `PrefixIsChat` are the facts behind it: a key gives back its chat and its identifier,
  and a chat with its colon is the beginning of its own keys only, also when a chat's
  name begins with another's.

### Only model-checked

- Liveness under fairness: `DueJobStarts`, `EveryMessageIsAnswered`, `EveryTurnEnds`,
  `OutboundDrains`, `ShutdownEnds`, `AsksEnd`, `LoginEnds`.  The proof system has no
  rules for ENABLED.
- The violated runs, which are counterexamples.

No module declares a RECURSIVE operator; what is recursive is a recursive function.

## Not modelled

The parts with status `not_modelled` in `PROJECT.json`, each with its reason: the
memory store's writers, the agent registry and SubagentManager have no caller in the
program; file tools work on one file at a time, and their algorithms are in the plan;
the others are single requests to a service, system calls on devices, reading of a
file into a structure, or formatting, where a state machine says nothing.

Of the parts that are modelled partly: the View Details pages, media, HTML conversion
and the allow list of Telegram; several sessions and the names of their files; the
text of prompts; onboarding, status and skills commands; the translation of messages
for each provider; environment variables that override the configuration.
