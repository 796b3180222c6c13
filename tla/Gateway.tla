------------------------------ MODULE Gateway ------------------------------
(***************************************************************************)
(* The gateway process (gatewayCmd of cmd/mortis-agent/main.go) around its *)
(* agent: how it boots, the last active channel that turns record          *)
(* (pkg/agent/loop.go) and device notifications read (pkg/devices), the    *)
(* dispatcher of outbound messages (pkg/channels/manager.go, bus.go), and  *)
(* how an interrupt stops it all.                                          *)
(*                                                                         *)
(* The agent and the device service have a manager of the state file each. *)
(* A turn is what records a channel and publishes; what it says and how it *)
(* streams is in SessionHistory and StreamPipeline.  The first check for   *)
(* due jobs is a second after the cron service starts, and the rest of the *)
(* boot takes less: jobs run once the gateway is up.                       *)
(***************************************************************************)
EXTENDS Naturals, Sequences, SequencesExt

CONSTANTS
    UserChats, JobChats, \* channel:chat of messages from outside, and of jobs
    Terminal,   \* channel:chat of the terminal, an internal channel
    OldStates,  \* what an older version may have left
    Capacity,   \* of the outbound channel
    EventCapacity, \* of the channel of device events
    MaxTurns, MaxPlugs, MaxLives  \* bounds

VARIABLES
    file, memory, saving, saved,  \* StateFile
    enabled,     \* whether Telegram is configured
    main,        \* where gatewayCmd is
    running,     \* of the Telegram channel
    cancelled,   \* ctx
    turn,        \* the turn of each runner
    blocks,      \* what udevadm has printed and the monitor not read
    events,      \* eventCh
    handler,     \* what handleEvents does
    outbound,
    dispatcher,
    notified,    \* history: where device notifications were sent
    published,   \* messages put into outbound in this life
    delivered,   \* history: the messages Telegram accepted in this life
    turns, plugs, lives

Managers == {"agent", "devices"}
Chats == (UserChats \cup JobChats) \ {Terminal}
State == INSTANCE StateFile WITH Channels <- Chats \cup {Terminal}

stateVars == <<file, memory, saving, saved>>
deviceVars == <<blocks, events, handler, notified, plugs>>
busVars == <<outbound, published>>
dispatchVars == <<dispatcher, delivered>>
mainVars == <<enabled, main, running, cancelled, lives>>
turnVars == <<turn, turns>>
vars == <<stateVars, deviceVars, busVars, dispatchVars, mainVars, turnVars>>

ASSUME ConstantsAssumption ==
    /\ {Capacity, EventCapacity} \subseteq Nat \ {0}
    /\ {MaxTurns, MaxPlugs, MaxLives} \subseteq Nat
    /\ Terminal \notin UserChats
    /\ (Chats \cup {Terminal}) \cap {"", "absent", "corrupt"} = {}
    /\ OldStates \subseteq State!Content

Runner == {"loop", "cron"}
Idle == [pc |-> "idle", to |-> ""]
None == [id |-> 0, to |-> ""]

Init ==
    /\ State!Init /\ file.old \in OldStates
    /\ enabled \in BOOLEAN
    /\ main = "down" /\ running = FALSE /\ cancelled = FALSE
    /\ turn = [r \in Runner |-> Idle]
    /\ blocks = <<>> /\ events = 0 /\ handler = Idle
    /\ outbound = <<>> /\ dispatcher = [pc |-> "off", msg |-> None]
    /\ notified = <<>>
    /\ published = 0 /\ delivered = <<>>
    /\ turns = 0 /\ plugs = 0 /\ lives = 0

-----------------------------------------------------------------------------
\* The bus

\* Mutant of Publish: it does not wait while the channel is full.
PublishUnbounded(to) ==
    /\ outbound' = Append(outbound, [id |-> published + 1, to |-> to])
    /\ published' = published + 1

\* PublishOutbound
Publish(to) ==
    /\ Len(outbound) < Capacity
    /\ outbound' = Append(outbound, [id |-> published + 1, to |-> to])
    /\ published' = published + 1

-----------------------------------------------------------------------------
\* Boot

\* NewAgentLoop
NewAgent ==
    /\ main = "down" /\ lives < MaxLives
    /\ main' = "agent" /\ lives' = lives + 1
    /\ State!NewManager("agent")
    /\ UNCHANGED <<enabled, running, cancelled, turnVars, deviceVars, busVars, dispatchVars>>

NewDevices ==
    /\ main = "agent" /\ State!Unlocked("agent")
    /\ main' = "devices"
    /\ State!NewManager("devices")
    /\ UNCHANGED <<enabled, running, cancelled, lives, turnVars, deviceVars, busVars, dispatchVars>>

\* Service.Start, StartAll and go Run; Telegram may fail to start
StartAll ==
    /\ main = "devices" /\ State!Unlocked("devices")
    /\ main' = "up"
    /\ \/ /\ enabled
          /\ running' \in BOOLEAN
          /\ dispatcher' = [dispatcher EXCEPT !.pc = "idle"]
       \/ ~enabled /\ UNCHANGED <<running, dispatcher>>
    /\ UNCHANGED <<stateVars, enabled, cancelled, lives, turnVars, deviceVars, busVars, delivered>>

\* main is past the boot, and the process has not ended
Alive == main \notin {"down", "agent", "devices"}

-----------------------------------------------------------------------------
\* Turns

\* The loop takes a message, or the cron service finds a due job, whose service is then locked
Begin(r, to) ==
    /\ Alive /\ turns < MaxTurns
    /\ turn[r].pc = "idle"
    /\ r = "cron" => main # "stopped"
    /\ turn' = [turn EXCEPT ![r] = [pc |-> IF r = "cron" THEN "due" ELSE "record", to |-> to]]
    /\ turns' = turns + 1
    /\ UNCHANGED <<stateVars, deviceVars, busVars, dispatchVars, mainVars>>

\* checkJobs unlocks the cron service; a job goes to the agent, or its message to the chat
RunJob(r) ==
    /\ turn[r].pc = "due"
    /\ \E next \in {"record", "publish"} : turn' = [turn EXCEPT ![r].pc = next]
    /\ UNCHANGED <<stateVars, turns, deviceVars, busVars, dispatchVars, mainVars>>

\* RecordLastChannel at the start of runAgentLoop
Record(r) ==
    /\ turn[r].pc = "record"
    /\ \/ /\ turn[r].to # Terminal
          /\ State!SetLastChannel("agent", turn[r].to)
          /\ turn' = [turn EXCEPT ![r].pc = "saving"]
       \/ /\ turn[r].to = Terminal
          /\ turn' = [turn EXCEPT ![r].pc = "work"]
          /\ UNCHANGED stateVars
    /\ UNCHANGED <<turns, deviceVars, busVars, dispatchVars, mainVars>>

\* A step of a save; a turn goes on when its save has ended, well or not
Save(m) ==
    /\ State!WriteTemp(m) \/ State!Rename(m)
    /\ turn' = [r \in Runner |->
                  IF m = "agent" /\ turn[r].pc = "saving" /\ saving'[m] = "no"
                  THEN [turn[r] EXCEPT !.pc = "work"] ELSE turn[r]]
    /\ UNCHANGED <<turns, deviceVars, busVars, dispatchVars, mainVars>>

\* The rest of the turn: it has something to publish or it has not
Finish(r) ==
    /\ turn[r].pc = "work"
    /\ \/ turn' = [turn EXCEPT ![r] = Idle]
       \/ turn' = [turn EXCEPT ![r].pc = "publish"]
    /\ UNCHANGED <<stateVars, turns, deviceVars, busVars, dispatchVars, mainVars>>

\* Nobody gives up on a full bus, not even once the context is done
PublishAnswer(r) ==
    /\ turn[r].pc = "publish"
    /\ Publish(turn[r].to)
    /\ turn' = [turn EXCEPT ![r] = Idle]
    /\ UNCHANGED <<stateVars, turns, deviceVars, dispatchVars, mainVars>>

-----------------------------------------------------------------------------
\* Devices

\* A device comes or goes: the kernel and udev report the device and its interface
Block == [udev : BOOLEAN, device : BOOLEAN, action : {"add", "bind"}]
Plug ==
    /\ Alive /\ ~cancelled /\ plugs < MaxPlugs
    /\ plugs' = plugs + 1
    /\ blocks' = blocks \o << [udev |-> FALSE, device |-> TRUE, action |-> "add"],
                              [udev |-> TRUE, device |-> TRUE, action |-> "add"],
                              [udev |-> TRUE, device |-> FALSE, action |-> "add"],
                              [udev |-> TRUE, device |-> TRUE, action |-> "bind"] >>
    /\ UNCHANGED <<stateVars, turnVars, events, handler, notified, busVars, dispatchVars, mainVars>>

\* Mutant of IsEvent: reports of the kernel count.
IsEventOfAny(b) == b.device /\ b.action = "add"

\* parseUSBEvent and its guard
IsEvent(b) == b.udev /\ b.device /\ b.action = "add"

\* The goroutine of USBMonitor.Start reads up to the next event; it waits while eventCh is full
ReadBlocks ==
    /\ blocks # <<>>
    /\ LET found == {i \in DOMAIN blocks : IsEvent(blocks[i])}
       IN  \/ /\ found # {} /\ events < EventCapacity
              /\ events' = events + 1
              /\ blocks' = SubSeq(blocks, Min(found) + 1, Len(blocks))
           \/ found = {} /\ blocks' = <<>> /\ UNCHANGED events
    /\ UNCHANGED <<stateVars, turnVars, handler, notified, plugs, busVars, dispatchVars, mainVars>>

\* ... until udevadm is killed
MonitorEnds ==
    /\ cancelled /\ blocks # <<>>
    /\ blocks' = <<>>
    /\ UNCHANGED <<stateVars, turnVars, events, handler, notified, plugs, busVars, dispatchVars, mainVars>>

\* Mutant of CanNotify: an internal channel is notified.
CanNotifyAny(channel) == channel # ""

\* parseLastChannel and the guards of sendNotification
CanNotify(channel) == channel \notin {"", Terminal}

\* sendNotification locks the service to read its bus ...
HandleEvent ==
    /\ events > 0 /\ handler.pc = "idle"
    /\ events' = events - 1
    /\ handler' = [handler EXCEPT !.pc = "locked"]
    /\ UNCHANGED <<stateVars, turnVars, blocks, notified, plugs, busVars, dispatchVars, mainVars>>

\* Mutant of Notify: the service stays locked until the notification is published.
NotifyLocked ==
    /\ handler.pc = "locked"
    /\ handler' = Idle
    /\ \/ /\ CanNotify(memory["devices"])
          /\ Publish(memory["devices"])
          /\ notified' = Append(notified, memory["devices"])
       \/ ~CanNotify(memory["devices"]) /\ UNCHANGED <<busVars, notified>>
    /\ UNCHANGED <<stateVars, turnVars, blocks, events, plugs, dispatchVars, mainVars>>

\* ... unlocks it and goes on to PublishOutbound ...
Notify ==
    /\ handler.pc = "locked"
    /\ handler' = IF CanNotify(memory["devices"])
                  THEN [pc |-> "publish", to |-> memory["devices"]] ELSE Idle
    /\ notified' = IF CanNotify(memory["devices"])
                   THEN Append(notified, memory["devices"]) ELSE notified
    /\ UNCHANGED <<stateVars, turnVars, blocks, events, plugs, busVars, dispatchVars, mainVars>>

\* ... which waits while the bus is full
PublishNotification ==
    /\ handler.pc = "publish"
    /\ Publish(handler.to)
    /\ handler' = Idle
    /\ UNCHANGED <<stateVars, turnVars, blocks, events, notified, plugs, dispatchVars, mainVars>>

-----------------------------------------------------------------------------
\* dispatchOutbound

\* Mutant of Take: the dispatcher ends at a message it does not send.
TakeOrEnd ==
    /\ dispatcher.pc = "idle" /\ outbound # <<>>
    /\ outbound' = Tail(outbound)
    /\ dispatcher' = [pc |-> IF Head(outbound).to \in Chats THEN "lookup" ELSE "off",
                      msg |-> Head(outbound)]
    /\ UNCHANGED <<stateVars, turnVars, deviceVars, published, delivered, mainVars>>

\* The next message; for one to a channel outside it locks the manager ...
Take ==
    /\ dispatcher.pc = "idle" /\ outbound # <<>>
    /\ outbound' = Tail(outbound)
    /\ dispatcher' = IF Head(outbound).to \in Chats
                     THEN [pc |-> "lookup", msg |-> Head(outbound)] ELSE dispatcher
    /\ UNCHANGED <<stateVars, turnVars, deviceVars, published, delivered, mainVars>>

\* ... finds the channel and unlocks the manager
Lookup ==
    /\ dispatcher.pc = "lookup"
    /\ dispatcher' = [dispatcher EXCEPT !.pc = "send"]
    /\ UNCHANGED <<stateVars, turnVars, deviceVars, busVars, delivered, mainVars>>

\* Mutant of Send: a message is put back when its call ends with an error.
SendOrRetry ==
    /\ dispatcher.pc = "send"
    /\ dispatcher' = [pc |-> "idle", msg |-> None]
    /\ \/ running /\ delivered' = Append(delivered, dispatcher.msg.id)
       \/ UNCHANGED delivered
    /\ \/ UNCHANGED outbound
       \/ Len(outbound) < Capacity /\ outbound' = Append(outbound, dispatcher.msg)
    /\ UNCHANGED <<stateVars, turnVars, deviceVars, published, mainVars>>

\* TelegramChannel.Send; a message it cannot send is logged and dropped
Send ==
    /\ dispatcher.pc = "send"
    /\ dispatcher' = [pc |-> "idle", msg |-> None]
    /\ \/ running /\ delivered' = Append(delivered, dispatcher.msg.id)
       \/ UNCHANGED delivered
    /\ UNCHANGED <<stateVars, turnVars, deviceVars, outbound, published, mainVars>>

\* The context is done: messages that are queued stay where they are
DispatcherEnds ==
    /\ dispatcher.pc = "idle" /\ cancelled
    /\ dispatcher' = [dispatcher EXCEPT !.pc = "off"]
    /\ UNCHANGED <<stateVars, turnVars, deviceVars, busVars, delivered, mainVars>>

-----------------------------------------------------------------------------
\* Shutdown

Interrupt ==
    /\ main = "up"
    /\ main' = "cancelled" /\ cancelled' = TRUE
    /\ UNCHANGED <<stateVars, turnVars, deviceVars, busVars, dispatchVars, enabled, running, lives>>

\* deviceService.Stop waits for its lock, not for its goroutines
StopDevices ==
    /\ main = "cancelled" /\ handler.pc # "locked"
    /\ main' = "stopping"
    /\ UNCHANGED <<stateVars, turnVars, deviceVars, busVars, dispatchVars, enabled, running, cancelled, lives>>

\* cronService.Stop, likewise, and agentLoop.Stop
StopCron ==
    /\ main = "stopping" /\ turn["cron"].pc # "due"
    /\ main' = "stopped"
    /\ UNCHANGED <<stateVars, turnVars, deviceVars, busVars, dispatchVars, enabled, running, cancelled, lives>>

\* The process ends
End ==
    /\ State!Crash
    /\ main' = "down" /\ running' = FALSE /\ cancelled' = FALSE
    /\ turn' = [r \in Runner |-> Idle]
    /\ blocks' = <<>> /\ events' = 0 /\ handler' = Idle
    /\ outbound' = <<>> /\ dispatcher' = [pc |-> "off", msg |-> None]
    /\ published' = 0 /\ delivered' = <<>>
    /\ UNCHANGED <<enabled, lives, turns, notified, plugs>>

\* StopAll waits for the manager's lock; then gatewayCmd returns
StopAll == main = "stopped" /\ dispatcher.pc # "lookup" /\ End
CrashProcess == main # "down" /\ lives < MaxLives /\ End

-----------------------------------------------------------------------------
MainStep == NewAgent \/ NewDevices \/ StartAll \/ StopDevices \/ StopCron \/ StopAll
TurnStep(r) == RunJob(r) \/ Record(r) \/ Finish(r) \/ PublishAnswer(r)
MonitorStep == ReadBlocks \/ MonitorEnds
HandlerStep == HandleEvent \/ Notify \/ PublishNotification
DispatchStep == Take \/ Lookup \/ Send \/ DispatcherEnds

Next ==
    \/ MainStep \/ Interrupt \/ CrashProcess
    \/ \E to \in UserChats : Begin("loop", to)
    \/ \E to \in JobChats : Begin("cron", to)
    \/ \E r \in Runner : TurnStep(r)
    \/ \E m \in Managers : Save(m)
    \/ Plug \/ MonitorStep \/ HandlerStep \/ DispatchStep

Spec == Init /\ [][Next]_vars

\* Goroutines run, and calls of Telegram return.  For main weak fairness is enough: who takes a
\* lock frees it, and a RWMutex lets no reader in before a writer that waits.
FairSpec ==
    /\ Spec
    /\ WF_vars(MainStep) /\ WF_vars(DispatchStep)
    /\ WF_vars(MonitorStep) /\ WF_vars(HandlerStep)
    /\ \A r \in Runner : WF_vars(TurnStep(r))
    /\ \A m \in Managers : WF_vars(Save(m))

-----------------------------------------------------------------------------
TypeOK ==
    /\ State!TypeOK
    /\ enabled \in BOOLEAN /\ running \in BOOLEAN /\ cancelled \in BOOLEAN
    /\ main \in {"down", "agent", "devices", "up", "cancelled", "stopping", "stopped"}
    /\ turn \in [Runner -> [pc : {"idle", "due", "record", "saving", "work", "publish"},
                            to : Chats \cup {Terminal, ""}]]
    /\ blocks \in Seq(Block) /\ events \in 0 .. EventCapacity
    /\ handler \in [pc : {"idle", "locked", "publish"}, to : Chats \cup {""}]
    /\ Len(outbound) <= Capacity
    /\ dispatcher.pc \in {"off", "idle", "lookup", "send"}
    /\ turns \in 0 .. MaxTurns /\ plugs \in 0 .. MaxPlugs /\ lives \in 0 .. MaxLives

\* The state file always holds the whole state of the last save that succeeded, although the
\* two managers of the process share one temporary file and a crash may hit every step
\* (state.go:131).
StateFileIsWhole == State!StateFileIsWhole

\* A device that is plugged in is reported at most once, although the kernel and udev tell of
\* it, of its interfaces and of its driver (usb_linux.go:78, usb_linux.go:137).
OneNotificationPerPlug == Len(notified) <= plugs

\* Notifications go to a chat outside, whatever an older version left as the last channel and
\* although turns of the terminal run in the same process (service.go:121).
NotifiesAChat == ToSet(notified) \subseteq Chats

\* Each message is delivered at most once and in the order of publication, also when some
\* fail and when the gateway stops (manager.go:133).
DeliveredInOrder == \A i, j \in DOMAIN delivered : i < j => delivered[i] < delivered[j]

\* While the gateway is up and has a channel the bus is emptied again and again, so that nobody
\* waits for ever to publish.
OutboundDrains == (enabled /\ main = "up") ~> (outbound = <<>> \/ main # "up")

\* An interrupt ends the gateway: the locks its Stop functions wait for are free again, also
\* when every goroutine that publishes is blocked on a bus that nobody reads any more
\* (main.go:635).
ShutdownEnds == (main = "cancelled") ~> (main = "down")
=============================================================================
