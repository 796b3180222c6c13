---------------------------- MODULE GatewayProofs ----------------------------
(***************************************************************************)
(* Theorems about Gateway: the state file, the notifications of devices    *)
(* and the order of delivery, for any chats, capacities and bounds.        *)
(***************************************************************************)
EXTENDS Gateway, SequenceTheorems, WellFoundedInduction, TLAPS

Address == Chats \cup {Terminal, ""}
Outgoing == [id : Nat, to : Address]

\* A turn that has begun knows where its message came from
TurnTypes ==
    /\ turn \in [Runner -> [pc : {"idle", "due", "record", "saving", "work", "publish"}, to : Address]]
    /\ \A r \in Runner : turn[r].pc # "idle" => turn[r].to # ""

\* TypeOK, with the elements of the queues
Types ==
    /\ State!TypeOK
    /\ enabled \in BOOLEAN /\ running \in BOOLEAN /\ cancelled \in BOOLEAN
    /\ main \in {"down", "agent", "devices", "up", "cancelled", "stopping", "stopped"}
    /\ TurnTypes
    /\ blocks \in Seq(Block) /\ events \in 0 .. EventCapacity
    /\ handler \in [pc : {"idle", "locked", "publish"}, to : Chats \cup {""}]
    /\ outbound \in Seq(Outgoing) /\ Len(outbound) <= Capacity
    /\ dispatcher \in [pc : {"off", "idle", "lookup", "send"}, msg : Outgoing]
    /\ notified \in Seq(Chats)
    /\ published \in Nat /\ delivered \in Seq(Nat)
    /\ turns \in 0 .. MaxTurns /\ plugs \in 0 .. MaxPlugs /\ lives \in 0 .. MaxLives

LEMMA Constants ==
    /\ Capacity \in Nat /\ Capacity > 0 /\ EventCapacity \in Nat /\ EventCapacity > 0
    /\ MaxTurns \in Nat /\ MaxPlugs \in Nat /\ MaxLives \in Nat
    /\ UserChats \subseteq Chats /\ JobChats \subseteq Chats \cup {Terminal}
    /\ OldStates \subseteq State!Content
<1>1. Capacity \in Nat \ {0} /\ EventCapacity \in Nat \ {0}
  BY ConstantsAssumption
<1>2. MaxTurns \in Nat /\ MaxPlugs \in Nat /\ MaxLives \in Nat
  BY ConstantsAssumption
<1>3. UserChats \subseteq Chats /\ JobChats \subseteq Chats \cup {Terminal}
  BY ConstantsAssumption DEF Chats
<1>4. OldStates \subseteq State!Content
  BY ConstantsAssumption
<1>5. QED
  BY <1>1, <1>2, <1>3, <1>4

\* A set of natural numbers has a least element.
LEMMA LeastOfSet ==
    ASSUME NEW S \in SUBSET Nat, S # {}
    PROVE  /\ Min(S) \in S
           /\ \A x \in S : Min(S) <= x
<1> DEFINE R == {p \in Nat \X Nat : p[1] < p[2]}
<1>1. IsWellFoundedOn(R, Nat)
  BY NatLessThanWellFounded DEF OpToRel
<1>2. PICK x \in S : \A y \in S : <<y, x>> \notin R
  <2> HIDE DEF R
  <2> QED
    BY <1>1, WFMin
<1>3. ASSUME NEW y \in S PROVE x <= y
  <2>1. x \in Nat /\ y \in Nat /\ ~(y < x)
    BY <1>2
  <2>2. QED
    BY <2>1
<1>4. QED
  BY <1>3 DEF Min

LEMMA InitTypes == Init => Types
<1> SUFFICES ASSUME Init PROVE Types
  OBVIOUS
<1>1. State!TypeOK
  BY Constants DEF Init, State!Init, State!TypeOK, State!Content, State!Place
<1>2. TurnTypes
  BY DEF Init, Idle, Address, TurnTypes
<1>3. /\ dispatcher \in [pc : {"off", "idle", "lookup", "send"}, msg : Outgoing]
      /\ handler \in [pc : {"idle", "locked", "publish"}, to : Chats \cup {""}]
  BY DEF Init, Idle, None, Address, Outgoing
<1>4. /\ blocks \in Seq(Block) /\ outbound \in Seq(Outgoing) /\ Len(outbound) = 0
      /\ notified \in Seq(Chats) /\ delivered \in Seq(Nat)
  BY EmptySeq DEF Init
<1>5. /\ events \in 0 .. EventCapacity /\ Len(outbound) <= Capacity
      /\ turns \in 0 .. MaxTurns /\ plugs \in 0 .. MaxPlugs /\ lives \in 0 .. MaxLives
      /\ published \in Nat
  BY <1>4, Constants DEF Init
<1>6. QED
  BY <1>1, <1>2, <1>3, <1>4, <1>5 DEF Init, Types

\* The steps of a state manager keep their types.
LEMMA StateTypes ==
    ASSUME State!TypeOK
    PROVE  /\ \A m \in Managers :
                State!NewManager(m) \/ State!WriteTemp(m) \/ State!Rename(m) => State!TypeOK'
           /\ \A m \in Managers, c \in Chats \cup {Terminal} :
                State!SetLastChannel(m, c) => State!TypeOK'
           /\ State!Crash => State!TypeOK'
           /\ UNCHANGED stateVars => State!TypeOK'
<1>1. ASSUME NEW m \in Managers, State!NewManager(m) PROVE State!TypeOK'
  BY <1>1 DEF State!NewManager, State!TypeOK, State!Content, State!Place
<1>2. ASSUME NEW m \in Managers, State!WriteTemp(m) PROVE State!TypeOK'
  BY <1>2 DEF State!WriteTemp, State!TypeOK, State!Content, State!Place
<1>3. ASSUME NEW m \in Managers, State!Rename(m) PROVE State!TypeOK'
  BY <1>3 DEF State!Rename, State!TypeOK, State!Content, State!Place
<1>4. ASSUME NEW m \in Managers, NEW c \in Chats \cup {Terminal}, State!SetLastChannel(m, c)
      PROVE  State!TypeOK'
  BY <1>4 DEF State!SetLastChannel, State!TypeOK, State!Content, State!Place
<1>5. ASSUME State!Crash PROVE State!TypeOK'
  BY <1>5 DEF State!Crash, State!TypeOK, State!Content, State!Place
<1>6. ASSUME UNCHANGED stateVars PROVE State!TypeOK'
  BY <1>6 DEF stateVars, State!TypeOK
<1>7. QED
  BY <1>1, <1>2, <1>3, <1>4, <1>5, <1>6

LEMMA PublishTypes ==
    ASSUME Types, NEW to \in Address, Publish(to)
    PROVE  /\ outbound' \in Seq(Outgoing) /\ Len(outbound') <= Capacity
           /\ published' \in Nat
<1>1. published \in Nat /\ outbound \in Seq(Outgoing) /\ Len(outbound) \in Nat
  BY LenProperties DEF Types
<1>2. [id |-> published + 1, to |-> to] \in Outgoing
  BY <1>1 DEF Outgoing
<1>3. /\ outbound' = Append(outbound, [id |-> published + 1, to |-> to])
      /\ published' = published + 1 /\ Len(outbound) < Capacity
  BY DEF Publish
<1>4. /\ outbound' \in Seq(Outgoing) /\ Len(outbound') = Len(outbound) + 1
  BY <1>1, <1>2, <1>3, AppendProperties
<1>5. QED
  BY <1>1, <1>3, <1>4, Constants

LEMMA TypesKept == ASSUME Types, [Next]_vars PROVE Types'
<1> USE Constants
<1>1. CASE NewAgent \/ NewDevices
  <2>1. State!TypeOK'
    BY <1>1, StateTypes DEF Types, NewAgent, NewDevices, Managers
  <2>2. lives' \in 0 .. MaxLives
    <3>1. lives' = lives \/ (lives < MaxLives /\ lives' = lives + 1)
      BY <1>1 DEF NewAgent, NewDevices
    <3>2. lives \in 0 .. MaxLives
      BY DEF Types
    <3>3. QED
      BY <3>1, <3>2
  <2>3. QED
    BY <1>1, <2>1, <2>2
    DEF NewAgent, NewDevices, Types, TurnTypes, turnVars, deviceVars, busVars, dispatchVars
<1>2. CASE StartAll
  <2>1. State!TypeOK'
    BY <1>2, StateTypes DEF Types, StartAll
  <2>2. QED
    BY <1>2, <2>1 DEF StartAll, Types, TurnTypes, turnVars, deviceVars, busVars
<1>3. CASE Interrupt \/ StopDevices \/ StopCron
  <2>1. State!TypeOK'
    BY <1>3, StateTypes DEF Types, Interrupt, StopDevices, StopCron
  <2>2. QED
    BY <1>3, <2>1
    DEF Interrupt, StopDevices, StopCron, Types, TurnTypes, turnVars, deviceVars, busVars, dispatchVars
<1>4. CASE End
  <2>1. State!TypeOK'
    BY <1>4, StateTypes DEF Types, End
  <2>2. TurnTypes'
    BY <1>4 DEF End, Idle, Address, TurnTypes
  <2>3. /\ dispatcher' \in [pc : {"off", "idle", "lookup", "send"}, msg : Outgoing]
        /\ handler' \in [pc : {"idle", "locked", "publish"}, to : Chats \cup {""}]
    BY <1>4 DEF End, Idle, None, Address, Outgoing
  <2>4. /\ blocks' \in Seq(Block) /\ outbound' \in Seq(Outgoing) /\ Len(outbound') = 0
        /\ delivered' \in Seq(Nat)
    BY <1>4, EmptySeq DEF End
  <2>5. events' \in 0 .. EventCapacity /\ Len(outbound') <= Capacity /\ published' \in Nat
    BY <1>4, <2>4 DEF End
  <2>6. QED
    BY <1>4, <2>1, <2>2, <2>3, <2>4, <2>5 DEF End, Types
<1>5. ASSUME NEW r \in Runner, NEW to \in Chats \cup {Terminal}, Begin(r, to) PROVE Types'
  <2>1. State!TypeOK'
    BY <1>5, StateTypes DEF Types, Begin
  <2>2. TurnTypes'
    <3>1. to \in Address /\ to # ""
      BY ConstantsAssumption DEF Address
    <3>2. QED
      BY <1>5, <3>1 DEF Begin, Types, TurnTypes
  <2>3. turns' \in 0 .. MaxTurns
    <3>1. turns < MaxTurns /\ turns' = turns + 1
      BY <1>5 DEF Begin
    <3>2. turns \in 0 .. MaxTurns
      BY DEF Types
    <3>3. QED
      BY <3>1, <3>2
  <2>4. QED
    BY <1>5, <2>1, <2>2, <2>3
    DEF Begin, Types, deviceVars, busVars, dispatchVars, mainVars
<1>6. ASSUME NEW r \in Runner, Record(r) PROVE Types'
  <2>1. State!TypeOK'
    <3>1. CASE turn[r].to # Terminal
      <4>1. turn[r].to \in Chats
        BY <1>6, <3>1 DEF Record, Types, TurnTypes, Address
      <4>2. State!SetLastChannel("agent", turn[r].to) /\ "agent" \in Managers
        BY <1>6, <3>1 DEF Record, Managers
      <4>3. QED
        BY <4>1, <4>2, StateTypes DEF Types
    <3>2. CASE turn[r].to = Terminal
      BY <1>6, <3>2, StateTypes DEF Types, Record
    <3>3. QED
      BY <3>1, <3>2
  <2>2. TurnTypes'
    <3>1. /\ turn \in [Runner -> [pc : {"idle", "due", "record", "saving", "work", "publish"}, to : Address]]
          /\ \A q \in Runner : turn[q].pc # "idle" => turn[q].to # ""
      BY DEF Types, TurnTypes
    <3>2. /\ turn[r].pc = "record"
          /\ \/ turn' = [turn EXCEPT ![r].pc = "saving"]
             \/ turn' = [turn EXCEPT ![r].pc = "work"]
      BY <1>6 DEF Record
    <3>3. turn' \in [Runner -> [pc : {"idle", "due", "record", "saving", "work", "publish"}, to : Address]]
      BY <3>1, <3>2
    <3>4. \A q \in Runner : turn'[q].to = turn[q].to
      <4>1. CASE turn' = [turn EXCEPT ![r].pc = "saving"]
        BY <3>1, <4>1
      <4>2. CASE turn' = [turn EXCEPT ![r].pc = "work"]
        BY <3>1, <4>2
      <4>3. QED
        BY <3>2, <4>1, <4>2
    <3>5. \A q \in Runner : turn'[q].pc # "idle" => turn[q].pc # "idle"
      BY <3>1, <3>2
    <3>6. QED
      BY <3>1, <3>3, <3>4, <3>5 DEF TurnTypes
  <2>3. QED
    BY <1>6, <2>1, <2>2 DEF Record, Types, deviceVars, busVars, dispatchVars, mainVars
<1>7. ASSUME NEW m \in Managers, Save(m) PROVE Types'
  <2>1. State!TypeOK'
    BY <1>7, StateTypes DEF Types, Save
  <2>2. TurnTypes'
    BY <1>7 DEF Save, Types, TurnTypes
  <2>3. QED
    BY <1>7, <2>1, <2>2 DEF Save, Types, deviceVars, busVars, dispatchVars, mainVars
<1>8. ASSUME NEW r \in Runner, RunJob(r) \/ Finish(r) PROVE Types'
  <2>1. State!TypeOK'
    BY <1>8, StateTypes DEF Types, RunJob, Finish
  <2>2. PICK next \in {"record", "publish"} :
           \/ turn' = [turn EXCEPT ![r].pc = next]
           \/ turn' = [turn EXCEPT ![r] = Idle]
    BY <1>8 DEF RunJob, Finish
  <2>3. turn[r].pc # "idle"
    BY <1>8 DEF RunJob, Finish
  <2>4. TurnTypes'
    <3>1. /\ turn \in [Runner -> [pc : {"idle", "due", "record", "saving", "work", "publish"},
                                  to : Address]]
          /\ \A q \in Runner : turn[q].pc # "idle" => turn[q].to # ""
      BY DEF Types, TurnTypes
    <3>2. CASE turn' = [turn EXCEPT ![r].pc = next]
      <4>1. turn' \in [Runner -> [pc : {"idle", "due", "record", "saving", "work", "publish"},
                                  to : Address]]
        BY <3>1, <3>2
      <4>2. \A q \in Runner : turn'[q].to = turn[q].to /\ (q # r => turn'[q].pc = turn[q].pc)
        BY <3>1, <3>2
      <4>3. QED
        BY <2>3, <3>1, <4>1, <4>2 DEF TurnTypes
    <3>3. CASE turn' = [turn EXCEPT ![r] = Idle]
      BY <3>1, <3>3 DEF TurnTypes, Idle, Address
    <3>4. QED
      BY <2>2, <3>2, <3>3
  <2>5. QED
    BY <1>8, <2>1, <2>4 DEF RunJob, Finish, Types, deviceVars, busVars, dispatchVars, mainVars
<1>14. ASSUME NEW r \in Runner, PublishAnswer(r) PROVE Types'
  <2>1. State!TypeOK'
    BY <1>14, StateTypes DEF Types, PublishAnswer
  <2>2. TurnTypes'
    BY <1>14 DEF PublishAnswer, Types, TurnTypes, Idle, Address
  <2>3. turn[r].to \in Address
    BY DEF Types, TurnTypes
  <2>4. /\ outbound' \in Seq(Outgoing) /\ Len(outbound') <= Capacity
        /\ published' \in Nat
    BY <1>14, <2>3, PublishTypes DEF PublishAnswer
  <2>5. QED
    BY <1>14, <2>1, <2>2, <2>4 DEF PublishAnswer, Types, deviceVars, dispatchVars, mainVars
<1>9. CASE Plug
  <2>1. State!TypeOK'
    BY <1>9, StateTypes DEF Types, Plug
  <2>2. blocks' \in Seq(Block)
    <3> DEFINE reports == << [udev |-> FALSE, device |-> TRUE, action |-> "add"],
                              [udev |-> TRUE, device |-> TRUE, action |-> "add"],
                              [udev |-> TRUE, device |-> FALSE, action |-> "add"],
                              [udev |-> TRUE, device |-> TRUE, action |-> "bind"] >>
    <3>1. reports \in Seq(Block)
      BY DEF Block
    <3>2. QED
      BY <1>9, <3>1, ConcatProperties DEF Plug, Types
  <2>3. QED
    <3>1. plugs' \in 0 .. MaxPlugs
      <4>1. plugs < MaxPlugs /\ plugs' = plugs + 1
        BY <1>9 DEF Plug
      <4>2. plugs \in 0 .. MaxPlugs
        BY DEF Types
      <4>3. QED
        BY <4>1, <4>2
    <3>2. QED
      BY <1>9, <2>1, <2>2, <3>1 DEF Plug, Types, TurnTypes, turnVars, busVars, dispatchVars, mainVars
<1>10. CASE MonitorStep \/ HandlerStep
  <2>1. State!TypeOK'
    BY <1>10, StateTypes
    DEF Types, MonitorStep, HandlerStep, ReadBlocks, MonitorEnds, HandleEvent, Notify,
        PublishNotification
  <2>2. CASE ReadBlocks
    <3>10. blocks \in Seq(Block) /\ events \in 0 .. EventCapacity
      BY DEF Types
    <3>11. DOMAIN blocks = 1 .. Len(blocks) /\ Len(blocks) \in Nat
      BY <3>10, LenProperties
    <3>0. ASSUME NEW k \in Nat \ {0} PROVE SubSeq(blocks, k + 1, Len(blocks)) \in Seq(Block)
      <4>1. Len(blocks) \in Nat /\ \A i \in k + 1 .. Len(blocks) : blocks[i] \in Block
        BY <3>10, <3>11, ElementOfSeq
      <4>2. QED
        BY <4>1, SubSeqProperties
    <3>1. blocks' \in Seq(Block) /\ events' \in 0 .. EventCapacity
      <4> DEFINE found == {i \in DOMAIN blocks : IsEvent(blocks[i])}
      <4>1. CASE found = {}
        BY <2>2, <4>1, EmptySeq DEF ReadBlocks, Types
      <4>2. CASE found # {}
        <5>1. found \subseteq Nat \ {0}
          BY <3>11
        <5>2. Min(found) \in found
          BY <4>2, <5>1, LeastOfSet DEF Min
        <5>3. blocks' = SubSeq(blocks, Min(found) + 1, Len(blocks))
          BY <2>2, <4>2 DEF ReadBlocks
        <5>4. events < EventCapacity /\ events' = events + 1
          BY <2>2, <4>2 DEF ReadBlocks
        <5>5. Min(found) \in Nat \ {0}
          BY <5>1, <5>2
        <5> HIDE DEF found
        <5>6. QED
          BY <3>10, <3>0, <5>3, <5>4, <5>5
      <4>3. QED
        BY <4>1, <4>2
    <3>2. QED
      BY <2>1, <2>2, <3>1 DEF ReadBlocks, Types, TurnTypes, turnVars, busVars, dispatchVars, mainVars
  <2>3. CASE MonitorEnds
    <3>1. blocks' \in Seq(Block)
      BY <2>3, EmptySeq DEF MonitorEnds
    <3>2. QED
      BY <2>1, <2>3, <3>1 DEF MonitorEnds, Types, TurnTypes, turnVars, busVars, dispatchVars, mainVars
  <2>4. CASE HandleEvent
    <3>1. events' \in 0 .. EventCapacity
      <4>1. events \in 0 .. EventCapacity /\ events > 0 /\ events' = events - 1
        BY <2>4 DEF HandleEvent, Types
      <4>2. QED
        BY <4>1
    <3>2. handler' \in [pc : {"idle", "locked", "publish"}, to : Chats \cup {""}]
      BY <2>4 DEF HandleEvent, Types
    <3>3. QED
      BY <2>1, <2>4, <3>1, <3>2
      DEF HandleEvent, Types, TurnTypes, turnVars, busVars, dispatchVars, mainVars
  <2>7. CASE Notify
    <3>1. memory["devices"] \in Chats \cup {Terminal, ""}
      BY DEF Types, State!TypeOK, Managers
    <3>2. CanNotify(memory["devices"]) => memory["devices"] \in Chats
      BY <3>1 DEF CanNotify
    <3>3. handler' \in [pc : {"idle", "locked", "publish"}, to : Chats \cup {""}]
      BY <2>7, <3>2 DEF Notify, Idle
    <3>4. notified' \in Seq(Chats)
      BY <2>7, <3>2, AppendProperties DEF Notify, Types
    <3>5. QED
      BY <2>1, <2>7, <3>3, <3>4
      DEF Notify, Types, TurnTypes, turnVars, busVars, dispatchVars, mainVars
  <2>5. CASE PublishNotification
    <3>1. handler.to \in Address
      BY DEF Types, Address
    <3>2. /\ outbound' \in Seq(Outgoing) /\ Len(outbound') <= Capacity
          /\ published' \in Nat
      BY <2>5, <3>1, PublishTypes DEF PublishNotification
    <3>3. handler' \in [pc : {"idle", "locked", "publish"}, to : Chats \cup {""}]
      BY <2>5 DEF PublishNotification, Idle
    <3>4. QED
      BY <2>1, <2>5, <3>2, <3>3 DEF PublishNotification, Types, TurnTypes, turnVars, dispatchVars, mainVars
  <2>6. QED
    BY <1>10, <2>2, <2>3, <2>4, <2>5, <2>7 DEF MonitorStep, HandlerStep
<1>11. CASE DispatchStep
  <2>1. State!TypeOK'
    BY <1>11, StateTypes DEF Types, DispatchStep, Take, Lookup, Send, DispatcherEnds
  <2>2. CASE Take
    <3>1. /\ Head(outbound) \in Outgoing /\ Tail(outbound) \in Seq(Outgoing)
          /\ Len(Tail(outbound)) <= Capacity
      <4>1. outbound \in Seq(Outgoing) /\ outbound # <<>> /\ Len(outbound) <= Capacity
        BY <2>2 DEF Take, Types
      <4>2. Len(outbound) \in Nat
        BY <4>1, LenProperties
      <4>3. QED
        BY <4>1, <4>2, HeadTailProperties
    <3>2. dispatcher' \in [pc : {"off", "idle", "lookup", "send"}, msg : Outgoing]
      BY <2>2, <3>1 DEF Take, Types
    <3>3. QED
      BY <2>1, <2>2, <3>1, <3>2 DEF Take, Types, TurnTypes, turnVars, deviceVars, mainVars
  <2>3. CASE Send
    <3>1. dispatcher' \in [pc : {"off", "idle", "lookup", "send"}, msg : Outgoing]
      BY <2>3 DEF Send, None, Outgoing, Address
    <3>2. dispatcher.msg.id \in Nat
      BY DEF Types, Outgoing
    <3>3. delivered' \in Seq(Nat)
      <4>1. delivered \in Seq(Nat)
        BY DEF Types
      <4>2. Append(delivered, dispatcher.msg.id) \in Seq(Nat)
        BY <3>2, <4>1, AppendProperties
      <4>3. QED
        BY <2>3, <4>1, <4>2 DEF Send
    <3>4. QED
      BY <2>1, <2>3, <3>1, <3>3 DEF Send, Types, TurnTypes, turnVars, deviceVars, mainVars
  <2>4. CASE DispatcherEnds
    BY <2>1, <2>4 DEF DispatcherEnds, Types, TurnTypes, turnVars, deviceVars, busVars, mainVars
  <2>5. CASE Lookup
    BY <2>1, <2>5 DEF Lookup, Types, TurnTypes, turnVars, deviceVars, busVars, mainVars
  <2>6. QED
    BY <1>11, <2>2, <2>3, <2>4, <2>5 DEF DispatchStep
<1>12. CASE UNCHANGED vars
  <2>1. State!TypeOK'
    BY <1>12, StateTypes DEF Types, vars
  <2>2. QED
    BY <1>12, <2>1 DEF vars, Types, TurnTypes, turnVars, deviceVars, busVars, dispatchVars, mainVars
<1>13. QED
  <2>1. CASE MainStep \/ Interrupt \/ CrashProcess
    BY <2>1, <1>1, <1>2, <1>3, <1>4 DEF MainStep, StopAll, CrashProcess
  <2>2. CASE \/ \E to \in UserChats : Begin("loop", to)
             \/ \E to \in JobChats : Begin("cron", to)
    BY <2>2, <1>5 DEF Runner
  <2>3. CASE \E r \in Runner : TurnStep(r)
    BY <2>3, <1>6, <1>8, <1>14 DEF TurnStep
  <2>4. QED
    BY <2>1, <2>2, <2>3, <1>7, <1>9, <1>10, <1>11, <1>12 DEF Next

LEMMA TypesIsInvariant == Spec => []Types
BY InitTypes, TypesKept, PTL DEF Spec

\* The gateway's variables keep their types, the bus and the queue of events their
\* capacities, for any chats and capacities.
THEOREM TypeCorrect == Spec => []TypeOK
<1>1. Types => TypeOK
  BY DEF Types, TurnTypes, TypeOK, Address, Outgoing
<1>2. QED
  BY <1>1, TypesIsInvariant, PTL
-----------------------------------------------------------------------------
\* The state file.  The managers share its temporary file, so that what matters is that only
\* one of them ever saves: the device service's while the gateway boots, the agent's before
\* that and from the end of the boot on.
OneSaves ==
    /\ \A m \in Managers : saving[m] = "rename" => file.temp = memory[m]
    /\ saving["devices"] # "no" => main = "devices"
    /\ saving["agent"] # "no" => main \notin {"down", "devices"}
    /\ \A r \in Runner : turn[r].pc # "idle" => Alive
    /\ StateFileIsWhole

LEMMA OneSavesKept == ASSUME Types, OneSaves, [Next]_vars PROVE OneSaves'
<1> USE DEF StateFileIsWhole, State!StateFileIsWhole
<1>1. /\ memory \in [Managers -> Chats \cup {Terminal, ""}]
      /\ saving \in [Managers -> {"no", "write", "rename"}]
      /\ file \in [{"old", "new", "temp"} -> State!Content]
      /\ DOMAIN turn = Runner
  BY DEF Types, TurnTypes, State!TypeOK, State!Place
<1>2. CASE NewAgent
  BY <1>1, <1>2
  DEF NewAgent, State!NewManager, State!Unlocked, OneSaves, Alive, Managers, turnVars
<1>3. CASE NewDevices
  BY <1>1, <1>3
  DEF NewDevices, State!NewManager, State!Unlocked, OneSaves, Alive, Managers, turnVars
<1>4. CASE StartAll
  BY <1>1, <1>4 DEF StartAll, State!Unlocked, OneSaves, Alive, Managers, turnVars, stateVars
<1>5. CASE Interrupt \/ StopDevices \/ StopCron
  BY <1>1, <1>5 DEF Interrupt, StopDevices, StopCron, OneSaves, Alive, Managers, turnVars, stateVars
<1>6. CASE End
  BY <1>1, <1>6 DEF End, State!Crash, OneSaves, Alive, Managers, Idle
<1>7. ASSUME NEW r \in Runner, NEW to, Begin(r, to) PROVE OneSaves'
  BY <1>1, <1>7 DEF Begin, OneSaves, Alive, Managers, stateVars, mainVars
<1>8. ASSUME NEW r \in Runner, Record(r) PROVE OneSaves'
  <2>1. /\ main' = main /\ Alive
        /\ \A q \in Runner : turn'[q].pc # "idle" => Alive
    BY <1>1, <1>8 DEF Record, OneSaves, mainVars
  <2>2. CASE turn[r].to = Terminal
    BY <1>8, <2>1, <2>2 DEF Record, OneSaves, Alive, stateVars
  <2>3. CASE State!SetLastChannel("agent", turn[r].to)
    BY <1>1, <2>1, <2>3 DEF State!SetLastChannel, State!Unlocked, OneSaves, Alive, Managers
  <2>4. QED
    BY <1>8, <2>2, <2>3 DEF Record
<1>9. ASSUME NEW m \in Managers, Save(m) PROVE OneSaves'
  <2>1. /\ main' = main
        /\ \A q \in Runner : turn'[q].pc # "idle" => turn[q].pc # "idle"
    BY <1>1, <1>9 DEF Save, mainVars
  <2>2. saving[m] # "no"
    BY <1>9 DEF Save, State!WriteTemp, State!Rename
  <2>3. \A n \in Managers : n # m => saving[n] = "no"
    BY <2>2 DEF OneSaves, Managers
  <2>4. CASE State!WriteTemp(m)
    <3>1. \A n \in Managers : saving'[n] # "no" => n = m
      BY <1>1, <2>3, <2>4 DEF State!WriteTemp
    <3>2. saving'[m] = "rename" => file'.temp = memory'[m]
      BY <1>1, <2>4 DEF State!WriteTemp
    <3>3. file'.new = saved'
      BY <1>1, <2>2, <2>4 DEF State!WriteTemp, OneSaves
    <3>4. QED
      BY <2>1, <2>2, <3>1, <3>2, <3>3 DEF OneSaves, Alive, Managers
  <2>5. CASE State!Rename(m)
    <3>1. \A n \in Managers : saving'[n] # "no" => n = m
      BY <1>1, <2>3, <2>5 DEF State!Rename
    <3>2. saving'[m] = "rename" => file'.temp = memory'[m]
      BY <1>1, <2>5 DEF State!Rename
    <3>3. file'.new = saved'
      BY <1>1, <2>2, <2>5 DEF State!Rename, OneSaves
    <3>4. QED
      BY <2>1, <2>2, <3>1, <3>2, <3>3 DEF OneSaves, Alive, Managers
  <2>6. QED
    BY <1>9, <2>4, <2>5 DEF Save
<1>10. ASSUME NEW r \in Runner, RunJob(r) \/ Finish(r) \/ PublishAnswer(r) PROVE OneSaves'
  BY <1>1, <1>10
  DEF RunJob, Finish, PublishAnswer, OneSaves, Alive, Managers, Idle, stateVars, mainVars
<1>11. CASE \/ Plug \/ MonitorStep \/ HandlerStep \/ DispatchStep \/ UNCHANGED vars
  BY <1>1, <1>11
  DEF Plug, MonitorStep, HandlerStep, ReadBlocks, MonitorEnds, HandleEvent, Notify,
      PublishNotification, DispatchStep, Take, Lookup, Send, DispatcherEnds, vars, OneSaves, Alive, stateVars, turnVars, mainVars
<1>12. QED
  <2>1. CASE MainStep \/ Interrupt \/ CrashProcess
    BY <2>1, <1>2, <1>3, <1>4, <1>5, <1>6 DEF MainStep, StopAll, CrashProcess
  <2>2. CASE \/ \E to \in UserChats : Begin("loop", to)
             \/ \E to \in JobChats : Begin("cron", to)
    BY <2>2, <1>7 DEF Runner
  <2>3. CASE \E r \in Runner : TurnStep(r)
    BY <2>3, <1>8, <1>10 DEF TurnStep
  <2>4. QED
    BY <2>1, <2>2, <2>3, <1>9, <1>11 DEF Next

\* Wherever the process ends, and whatever step of a save fails: state.json holds the whole
\* state of the last save that succeeded, although two managers replace it through one
\* temporary file (state.go:131).
THEOREM StateSurvives == Spec => []StateFileIsWhole
<1>1. ASSUME Init PROVE OneSaves
  <2>1. /\ \A m \in Managers : saving[m] = "no"
        /\ saved = file.new
    BY <1>1 DEF Init, State!Init
  <2>2. \A r \in Runner : turn[r].pc = "idle"
    BY <1>1 DEF Init, Idle
  <2>3. QED
    BY <2>1, <2>2 DEF OneSaves, Managers, StateFileIsWhole, State!StateFileIsWhole
<1>2. OneSaves => StateFileIsWhole
  BY DEF OneSaves
<1>3. QED
  BY <1>1, <1>2, OneSavesKept, TypesIsInvariant, PTL DEF Spec

-----------------------------------------------------------------------------
\* Notifications

\* Notifications go to chats outside: the agent does not record the terminal's turns, but an
\* older version may have left it as the last one (service.go:121).
THEOREM NotificationsReachAChat == Spec => []NotifiesAChat
<1>1. Types => NotifiesAChat
  <2>1. ASSUME notified \in Seq(Chats), NEW i \in DOMAIN notified PROVE notified[i] \in Chats
    BY <2>1, ElementOfSeq, LenProperties
  <2>2. QED
    BY <2>1 DEF Types, NotifiesAChat, ToSet
<1>2. QED
  BY <1>1, TypesIsInvariant, PTL

\* What udevadm has printed is the end of a sequence of groups of four reports, of which the
\* second is an event; so many notifications, events and groups are there as devices came.
Reports(n) == (n + 1) \div 4

\* The event the handler has taken and not yet looked at
Held == IF handler.pc = "locked" THEN 1 ELSE 0

OnePerPlug ==
    /\ Len(blocks) % 2 = 0
    /\ \A i \in DOMAIN blocks : IsEvent(blocks[i]) <=> (Len(blocks) - i) % 4 = 2
    /\ Len(notified) + Held + events + Reports(Len(blocks)) <= plugs

LEMMA Sizes ==
    ASSUME Types
    PROVE  /\ events \in Nat /\ Held \in Nat /\ plugs \in Nat
           /\ blocks \in Seq(Block) /\ Len(blocks) \in Nat /\ DOMAIN blocks = 1 .. Len(blocks)
           /\ notified \in Seq(Chats) /\ Len(notified) \in Nat
           /\ Reports(Len(blocks)) \in Nat
<1>1. events \in 0 .. EventCapacity /\ plugs \in 0 .. MaxPlugs
  BY DEF Types
<1>2. events \in Nat /\ Held \in Nat /\ plugs \in Nat
  BY <1>1, Constants DEF Held
<1>3. blocks \in Seq(Block) /\ notified \in Seq(Chats)
  BY DEF Types
<1>4. Len(blocks) \in Nat /\ DOMAIN blocks = 1 .. Len(blocks) /\ Len(notified) \in Nat
  BY <1>3, LenProperties
<1>5. Reports(Len(blocks)) \in Nat
  BY <1>4 DEF Reports
<1>6. QED
  BY <1>2, <1>3, <1>4, <1>5

LEMMA PlugKept == ASSUME Types, OnePerPlug, Plug PROVE OnePerPlug'
<1> DEFINE reports == << [udev |-> FALSE, device |-> TRUE, action |-> "add"],
                         [udev |-> TRUE, device |-> TRUE, action |-> "add"],
                         [udev |-> TRUE, device |-> FALSE, action |-> "add"],
                         [udev |-> TRUE, device |-> TRUE, action |-> "bind"] >>
<1> DEFINE n == Len(blocks)
<1>1. /\ blocks \in Seq(Block) /\ reports \in Seq(Block) /\ Len(reports) = 4
      /\ events \in Nat /\ Held \in Nat /\ plugs \in Nat /\ notified \in Seq(Chats)
  <2>1. blocks \in Seq(Block) /\ notified \in Seq(Chats) /\ events \in Nat /\ Held \in Nat /\ plugs \in Nat
    BY Sizes
  <2>2. reports \in Seq(Block) /\ Len(reports) = 4
    BY DEF Block
  <2>3. QED
    BY <2>1, <2>2
<1>2. n \in Nat /\ DOMAIN blocks = 1 .. n /\ Len(notified) \in Nat
  BY <1>1, LenProperties
<1>3. blocks' = blocks \o reports /\ plugs' = plugs + 1 /\ UNCHANGED <<events, Held, notified>>
  BY DEF Plug, Held
<1>4. /\ ~IsEvent(reports[1]) /\ IsEvent(reports[2])
      /\ ~IsEvent(reports[3]) /\ ~IsEvent(reports[4])
  BY DEF IsEvent
<1> HIDE DEF reports
<1>5. /\ Len(blocks') = n + 4 /\ DOMAIN blocks' = 1 .. n + 4
      /\ \A i \in 1 .. n : blocks'[i] = blocks[i]
      /\ \A i \in 1 .. 4 : blocks'[n + i] = reports[i]
  <2>1. /\ blocks' \in Seq(Block) /\ Len(blocks') = n + 4
        /\ \A i \in 1 .. n + 4 : blocks'[i] = IF i <= n THEN blocks[i] ELSE reports[i - n]
    <3>1. /\ blocks \o reports \in Seq(Block)
          /\ Len(blocks \o reports) = Len(blocks) + Len(reports)
          /\ \A i \in 1 .. Len(blocks) + Len(reports) : (blocks \o reports)[i]
                = IF i <= Len(blocks) THEN blocks[i] ELSE reports[i - Len(blocks)]
      BY <1>1, ConcatProperties
    <3>2. QED
      BY <1>1, <1>3, <3>1
  <2>2. DOMAIN blocks' = 1 .. n + 4
    BY <2>1, LenProperties
  <2>3. \A i \in 1 .. n : blocks'[i] = blocks[i]
    BY <1>2, <2>1
  <2>4. ASSUME NEW i \in 1 .. 4 PROVE blocks'[n + i] = reports[i]
    <3>1. n + i \in 1 .. n + 4 /\ ~(n + i <= n) /\ n + i - n = i
      BY <1>2
    <3>2. QED
      BY <2>1, <3>1
  <2>5. QED
    BY <2>1, <2>2, <2>3, <2>4
<1>6. ASSUME NEW i \in DOMAIN blocks'
      PROVE  IsEvent(blocks'[i]) <=> (n + 4 - i) % 4 = 2
  <2>1. CASE i <= n
    <3>1. i \in 1 .. n /\ (n + 4 - i) % 4 = (n - i) % 4
      BY <1>2, <1>5, <2>1
    <3>2. QED
      BY <1>2, <1>5, <3>1 DEF OnePerPlug
  <2>2. CASE i = n + 1
    BY <1>2, <1>4, <1>5, <2>2
  <2>3. CASE i = n + 2
    BY <1>2, <1>4, <1>5, <2>3
  <2>4. CASE i = n + 3
    BY <1>2, <1>4, <1>5, <2>4
  <2>5. CASE i = n + 4
    BY <1>2, <1>4, <1>5, <2>5
  <2>6. i <= n \/ i \in {n + 1, n + 2, n + 3, n + 4}
    BY <1>2, <1>5
  <2>7. QED
    BY <2>1, <2>2, <2>3, <2>4, <2>5, <2>6
<1>7. /\ (n + 4) % 2 = 0 /\ Reports(n + 4) = Reports(n) + 1
      /\ Len(notified) + Held + events + Reports(n) <= plugs
  BY <1>2 DEF OnePerPlug, Reports
<1>8. Len(notified) + Held + events + Reports(n + 4) <= plugs + 1
  BY <1>1, <1>2, <1>7 DEF Reports
<1>9. Len(blocks') % 2 = 0 /\ Len(notified') + Held' + events' + Reports(Len(blocks')) <= plugs'
  BY <1>3, <1>5, <1>7, <1>8
<1>10. \A i \in DOMAIN blocks' : IsEvent(blocks'[i]) <=> (Len(blocks') - i) % 4 = 2
  BY <1>5, <1>6
<1>11. QED
  BY <1>9, <1>10 DEF OnePerPlug

LEMMA ReadKept == ASSUME Types, OnePerPlug, ReadBlocks PROVE OnePerPlug'
<1> DEFINE n == Len(blocks)
           found == {i \in DOMAIN blocks : IsEvent(blocks[i])}
           k == Min(found)
<1>1. /\ blocks \in Seq(Block) /\ events \in Nat /\ Held \in Nat /\ plugs \in Nat /\ notified \in Seq(Chats)
      /\ n \in Nat /\ DOMAIN blocks = 1 .. n /\ Len(notified) \in Nat
  BY Sizes
<1>2. UNCHANGED <<Held, notified, plugs>>
  BY DEF ReadBlocks, Held
<1>3. CASE found = {}
  <2>1. Len(blocks') = 0 /\ DOMAIN blocks' = {} /\ events' = events
    BY <1>3 DEF ReadBlocks
  <2>2. Reports(0) = 0 /\ Reports(n) \in Nat
    BY <1>1 DEF Reports
  <2>3. Len(notified') + Held' + events' + Reports(Len(blocks')) <= plugs'
    BY <1>1, <1>2, <2>1, <2>2 DEF OnePerPlug
  <2>4. QED
    BY <2>1, <2>3 DEF OnePerPlug
<1>4. CASE found # {}
  <2>1. blocks' = SubSeq(blocks, k + 1, n) /\ events' = events + 1
    BY <1>4 DEF ReadBlocks
  <2>2. k \in 1 .. n /\ IsEvent(blocks[k]) /\ \A i \in 1 .. n : IsEvent(blocks[i]) => k <= i
    <3>1. found \in SUBSET Nat
      BY <1>1
    <3>2. k \in found /\ \A i \in found : k <= i
      <4> HIDE DEF found
      <4>1. QED
        BY <1>4, <3>1, LeastOfSet
    <3>3. QED
      BY <1>1, <3>2
  <2> HIDE DEF k
  <2>3. (n - k) % 4 = 2 /\ n % 2 = 0 /\ Len(notified) + Held + events + Reports(n) <= plugs
    BY <1>1, <2>2 DEF OnePerPlug
  <2>4. /\ Len(blocks') = n - k /\ DOMAIN blocks' = 1 .. n - k
        /\ \A i \in 1 .. n - k : blocks'[i] = blocks[k + i]
    <3>1. \A i \in k + 1 .. n : blocks[i] \in Block
      BY <1>1, <2>2, ElementOfSeq
    <3>2. /\ blocks' \in Seq(Block) /\ Len(blocks') = n - k
          /\ \A i \in 1 .. n - k : blocks'[i] = blocks[k + i]
      <4>1. k + 1 \in Int /\ n \in Int /\ n - (k + 1) + 1 = n - k
            /\ (IF k + 1 <= n THEN n - (k + 1) + 1 ELSE 0) = n - k
            /\ \A i \in 1 .. n - k : k + 1 + i - 1 = k + i
        <5>1. n \in Nat /\ k \in Nat /\ k <= n
          BY <1>1, <2>2
        <5> HIDE DEF n
        <5>2. CASE k + 1 <= n
          BY <5>1, <5>2
        <5>3. CASE k = n
          BY <5>1, <5>3
        <5>4. QED
          BY <5>1, <5>2, <5>3
      <4>2. /\ blocks' \in Seq(Block)
            /\ Len(blocks') = IF k + 1 <= n THEN n - (k + 1) + 1 ELSE 0
            /\ \A i \in 1 .. n - (k + 1) + 1 : blocks'[i] = blocks[k + 1 + i - 1]
        BY <2>1, <3>1, <4>1, SubSeqProperties
      <4>3. QED
        BY <4>1, <4>2
    <3>3. QED
      BY <3>2, LenProperties
  <2>5. ASSUME NEW i \in 1 .. n - k
        PROVE  IsEvent(blocks'[i]) <=> (n - k - i) % 4 = 2
    <3>1. k + i \in 1 .. n /\ n - (k + i) = n - k - i
      BY <1>1, <2>2
    <3>2. QED
      BY <1>1, <2>4, <3>1 DEF OnePerPlug
  <2>6. (n - k) % 2 = 0
    BY <1>1, <2>2, <2>3
  <2>7. Reports(n - k) + 1 <= Reports(n)
    BY <1>1, <2>2, <2>3 DEF Reports
  <2>8. Reports(n - k) \in Nat /\ Reports(n) \in Nat
    BY <1>1, <2>2 DEF Reports
  <2>9. Len(notified') + Held' + events' + Reports(n - k) <= plugs'
    BY <1>1, <1>2, <2>1, <2>3, <2>7, <2>8
  <2>10. QED
    BY <2>4, <2>5, <2>6, <2>9 DEF OnePerPlug
<1>5. QED
  BY <1>3, <1>4

LEMMA OnePerPlugKept == ASSUME Types, OnePerPlug, [Next]_vars PROVE OnePerPlug'
<1>1. /\ events \in Nat /\ Held \in Nat /\ plugs \in Nat /\ Len(notified) \in Nat
      /\ notified \in Seq(Chats) /\ Len(blocks) \in Nat /\ Reports(Len(blocks)) \in Nat
  BY Sizes
<1>2. CASE /\ blocks' = <<>> /\ plugs' = plugs /\ notified' = notified
           /\ events' \in {0, events} /\ Held' \in {0, Held}
  <2>1. Len(blocks') = 0 /\ DOMAIN blocks' = {} /\ Reports(0) = 0
    BY <1>2 DEF Reports
  <2>2. Len(notified') + Held' + events' + Reports(Len(blocks')) <= plugs'
    BY <1>1, <1>2, <2>1 DEF OnePerPlug
  <2>3. QED
    BY <2>1, <2>2 DEF OnePerPlug
<1>3. CASE HandlerStep
  <2>1. UNCHANGED <<blocks, plugs>>
    BY <1>3 DEF HandlerStep, HandleEvent, Notify, PublishNotification
  <2>2. CASE HandleEvent
    <3>1. /\ events > 0 /\ events' = events - 1 /\ notified' = notified
          /\ Held = 0 /\ Held' = 1
      BY <2>2 DEF HandleEvent, Types, Held
    <3>2. Len(notified') + Held' + events' + Reports(Len(blocks')) <= plugs'
      BY <1>1, <2>1, <3>1 DEF OnePerPlug
    <3>3. QED
      BY <2>1, <3>2 DEF OnePerPlug
  <2>3. CASE Notify
    <3>1. /\ events' = events /\ Held = 1 /\ Held' = 0
          /\ notified' = notified \/ notified' = Append(notified, memory["devices"])
      BY <2>3 DEF Notify, Held, Idle
    <3>2. Len(notified') \in {Len(notified), Len(notified) + 1}
      <4>1. memory["devices"] \in Chats \/ notified' = notified
        <5>1. memory["devices"] \in Chats \cup {Terminal, ""}
          BY DEF Types, State!TypeOK, Managers
        <5>2. QED
          BY <2>3, <5>1 DEF Notify, CanNotify
      <4>2. QED
        BY <1>1, <3>1, <4>1, AppendProperties
    <3>3. Len(notified') + Held' + events' + Reports(Len(blocks')) <= plugs'
      BY <1>1, <2>1, <3>1, <3>2 DEF OnePerPlug
    <3>4. QED
      BY <2>1, <3>3 DEF OnePerPlug
  <2>4. CASE PublishNotification
    <3>1. UNCHANGED <<events, notified, Held>>
      BY <2>4 DEF PublishNotification, Held, Idle
    <3>2. QED
      BY <2>1, <3>1 DEF OnePerPlug
  <2>5. QED
    BY <1>3, <2>2, <2>3, <2>4 DEF HandlerStep
<1>4. CASE UNCHANGED <<blocks, events, handler, notified, plugs>>
  BY <1>4 DEF OnePerPlug, Held
<1>5. CASE MonitorStep
  BY <1>2, <1>5, ReadKept DEF MonitorStep, MonitorEnds, Held
<1>6. CASE StopAll \/ CrashProcess
  <2>1. /\ blocks' = <<>> /\ events' = 0 /\ handler' = Idle
        /\ UNCHANGED <<plugs, notified>>
    BY <1>6 DEF StopAll, CrashProcess, End
  <2>2. Held' = 0
    BY <2>1 DEF Held, Idle
  <2>3. QED
    BY <1>2, <2>1, <2>2
<1>7. CASE \/ NewAgent \/ NewDevices \/ StartAll \/ Interrupt \/ StopDevices \/ StopCron
           \/ DispatchStep
  BY <1>4, <1>7
  DEF NewAgent, NewDevices, StartAll, Interrupt, StopDevices, StopCron, DispatchStep, Take,
      Lookup, Send, DispatcherEnds, deviceVars
<1>8. CASE \/ \E r \in Runner : TurnStep(r) \/ \E to \in UserChats \cup JobChats : Begin(r, to)
           \/ \E m \in Managers : Save(m)
           \/ UNCHANGED vars
  BY <1>4, <1>8
  DEF TurnStep, RunJob, Record, Finish, PublishAnswer, Begin, Save, vars, deviceVars
<1>9. QED
  BY <1>3, <1>5, <1>6, <1>7, <1>8, PlugKept DEF Next, MainStep, Runner

\* However the monitor's reads fall between the reports of several devices, and although the
\* kernel and udev tell of a device, of its interface and of its driver: no more
\* notifications than devices that came (usb_linux.go:78, usb_linux.go:137).
THEOREM PlugNotifiesOnce == Spec => []OneNotificationPerPlug
<1>1. ASSUME Init PROVE OnePerPlug
  <2>1. /\ Len(blocks) = 0 /\ DOMAIN blocks = {} /\ Len(notified) = 0
        /\ events = 0 /\ plugs = 0
    BY <1>1 DEF Init
  <2>2. Held = 0
    <3>1. handler = Idle
      BY <1>1 DEF Init
    <3>2. QED
      BY <3>1 DEF Held, Idle
  <2>3. Reports(0) = 0
    BY DEF Reports
  <2>4. QED
    BY <2>1, <2>2, <2>3 DEF OnePerPlug
<1>2. Types /\ OnePerPlug => OneNotificationPerPlug
  <2>1. Types => /\ events \in Nat /\ Held \in Nat /\ plugs \in Nat /\ Len(notified) \in Nat
                 /\ Reports(Len(blocks)) \in Nat
    BY Sizes
  <2>2. QED
    BY <2>1 DEF OnePerPlug, OneNotificationPerPlug
<1>3. QED
  BY <1>1, <1>2, OnePerPlugKept, TypesIsInvariant, PTL DEF Spec
-----------------------------------------------------------------------------
\* Delivery

\* Message ids grow from what was delivered to what the dispatcher holds, to what is queued
Queued ==
    /\ \A i \in DOMAIN outbound : outbound[i].id <= published
    /\ \A i, j \in DOMAIN outbound : i < j => outbound[i].id < outbound[j].id

Given ==
    dispatcher.pc \in {"lookup", "send"} =>
      /\ dispatcher.msg.id <= published
      /\ \A i \in DOMAIN outbound : dispatcher.msg.id < outbound[i].id
      /\ \A i \in DOMAIN delivered : delivered[i] < dispatcher.msg.id

Sent ==
    /\ \A i \in DOMAIN delivered : delivered[i] <= published
    /\ \A i \in DOMAIN delivered, j \in DOMAIN outbound : delivered[i] < outbound[j].id
    /\ DeliveredInOrder

Ordered == Queued /\ Given /\ Sent

LEMMA Queues ==
    ASSUME Types
    PROVE  /\ published \in Nat
           /\ outbound \in Seq(Outgoing) /\ Len(outbound) \in Nat
           /\ DOMAIN outbound = 1 .. Len(outbound)
           /\ \A i \in DOMAIN outbound : outbound[i].id \in Nat
           /\ delivered \in Seq(Nat) /\ Len(delivered) \in Nat
           /\ DOMAIN delivered = 1 .. Len(delivered)
           /\ \A i \in DOMAIN delivered : delivered[i] \in Nat
           /\ dispatcher.msg.id \in Nat
<1>1. /\ published \in Nat /\ outbound \in Seq(Outgoing) /\ delivered \in Seq(Nat)
      /\ dispatcher.msg \in Outgoing
  BY DEF Types
<1>2. /\ Len(outbound) \in Nat /\ DOMAIN outbound = 1 .. Len(outbound)
      /\ Len(delivered) \in Nat /\ DOMAIN delivered = 1 .. Len(delivered)
  BY <1>1, LenProperties
<1>3. \A i \in DOMAIN outbound : outbound[i] \in Outgoing
  BY <1>1, <1>2, ElementOfSeq
<1>4. \A i \in DOMAIN delivered : delivered[i] \in Nat
  BY <1>1, <1>2, ElementOfSeq
<1>5. QED
  BY <1>1, <1>2, <1>3, <1>4 DEF Outgoing

LEMMA PublishOrdered ==
    ASSUME Types, Ordered, NEW to \in Address, Publish(to),
           UNCHANGED <<dispatcher, delivered>>
    PROVE  Ordered'
<1> DEFINE n == Len(outbound)
           msg == [id |-> published + 1, to |-> to]
<1>1. /\ outbound' = Append(outbound, msg) /\ published' = published + 1
      /\ msg \in Outgoing /\ msg.id = published + 1
  BY Queues DEF Publish, Outgoing
<1> HIDE DEF msg
<1>2. /\ n \in Nat /\ published \in Nat /\ DOMAIN outbound = 1 .. n
      /\ \A i \in 1 .. n : outbound[i].id \in Nat
      /\ \A i \in DOMAIN delivered : delivered[i] \in Nat
      /\ dispatcher.msg.id \in Nat
  BY Queues
<1>3. /\ DOMAIN outbound' = 1 .. n + 1
      /\ \A i \in 1 .. n : outbound'[i] = outbound[i]
      /\ outbound'[n + 1] = msg
  <2>1. outbound \in Seq(Outgoing)
    BY Queues
  <2>2. /\ outbound' \in Seq(Outgoing) /\ Len(outbound') = n + 1
        /\ \A i \in 1 .. n : outbound'[i] = outbound[i]
        /\ outbound'[n + 1] = msg
    BY <1>1, <2>1, AppendProperties
  <2>3. QED
    BY <2>2, LenProperties
<1>4. \A i \in 1 .. n + 1 : i \in 1 .. n \/ i = n + 1
  BY <1>2
<1>5. Queued'
  <2>1. \A i \in DOMAIN outbound' : outbound'[i].id <= published'
    BY <1>1, <1>2, <1>3, <1>4 DEF Ordered, Queued
  <2>2. \A i, j \in DOMAIN outbound' : i < j => outbound'[i].id < outbound'[j].id
    BY <1>1, <1>2, <1>3, <1>4 DEF Ordered, Queued
  <2>3. QED
    BY <2>1, <2>2 DEF Queued
<1>6. Given'
  BY <1>1, <1>2, <1>3, <1>4 DEF Ordered, Given
<1>7. Sent'
  <2>1. \A i \in DOMAIN delivered : delivered[i] <= published + 1 /\ delivered[i] < published + 1
    BY <1>2 DEF Ordered, Sent
  <2>2. QED
    BY <1>1, <1>2, <1>3, <1>4, <2>1 DEF Ordered, Sent, DeliveredInOrder
<1>8. QED
  BY <1>5, <1>6, <1>7 DEF Ordered

LEMMA TakeOrdered == ASSUME Types, Ordered, Take PROVE Ordered'
<1> DEFINE n == Len(outbound)
<1>1. /\ outbound # <<>> /\ outbound' = Tail(outbound) /\ UNCHANGED <<published, delivered>>
      /\ dispatcher.pc = "idle"
      /\ \/ dispatcher' = [pc |-> "lookup", msg |-> outbound[1]]
         \/ dispatcher' = dispatcher
  BY DEF Take
<1>2. /\ n \in Nat /\ DOMAIN outbound = 1 .. n /\ outbound \in Seq(Outgoing)
      /\ published \in Nat
  BY Queues
<1>3. /\ n >= 1 /\ DOMAIN outbound' = 1 .. n - 1
      /\ \A i \in 1 .. n - 1 : outbound'[i] = outbound[i + 1]
  <2>1. n # 0
    BY <1>1, <1>2, EmptySeq
  <2>2. /\ outbound' \in Seq(Outgoing) /\ Len(outbound') = n - 1
        /\ \A i \in 1 .. Len(outbound') : outbound'[i] = outbound[i + 1]
    BY <1>1, <1>2, HeadTailProperties
  <2>3. QED
    BY <1>2, <2>1, <2>2, LenProperties
<1>4. \A i \in 1 .. n - 1 : i + 1 \in 1 .. n /\ 1 < i + 1
  BY <1>2
<1>5. Queued'
  BY <1>1, <1>2, <1>3, <1>4 DEF Ordered, Queued
<1>6. Given'
  <2>1. CASE dispatcher' = [pc |-> "lookup", msg |-> outbound[1]]
    <3>1. dispatcher'.msg = outbound[1] /\ 1 \in 1 .. n
      BY <1>2, <1>3, <2>1
    <3>2. /\ outbound[1].id <= published
          /\ \A i \in 2 .. n : outbound[1].id < outbound[i].id
          /\ \A i \in DOMAIN delivered : delivered[i] < outbound[1].id
      BY <1>2, <3>1 DEF Ordered, Queued, Sent
    <3>3. QED
      BY <1>1, <1>2, <1>3, <1>4, <3>1, <3>2 DEF Given
  <2>2. CASE dispatcher' = dispatcher
    BY <1>1, <2>2 DEF Given
  <2>3. QED
    BY <1>1, <2>1, <2>2
<1>7. Sent'
  BY <1>1, <1>2, <1>3, <1>4 DEF Ordered, Sent, DeliveredInOrder
<1>8. QED
  BY <1>5, <1>6, <1>7 DEF Ordered

LEMMA SendOrdered == ASSUME Types, Ordered, Send PROVE Ordered'
<1>1. /\ dispatcher.pc = "send" /\ dispatcher'.pc = "idle" /\ UNCHANGED <<outbound, published>>
      /\ delivered' = delivered \/ delivered' = Append(delivered, dispatcher.msg.id)
  BY DEF Send
<1>2. Queued' /\ Given'
  BY <1>1 DEF Ordered, Queued, Given
<1>3. CASE delivered' = delivered
  BY <1>1, <1>2, <1>3 DEF Ordered, Sent, DeliveredInOrder
<1>4. CASE delivered' = Append(delivered, dispatcher.msg.id)
  <2> DEFINE n == Len(delivered)
  <2>1. /\ n \in Nat /\ DOMAIN delivered = 1 .. n /\ delivered \in Seq(Nat)
        /\ dispatcher.msg.id \in Nat
    BY Queues
  <2>2. /\ DOMAIN delivered' = 1 .. n + 1
        /\ \A i \in 1 .. n : delivered'[i] = delivered[i]
        /\ delivered'[n + 1] = dispatcher.msg.id
    <3>1. /\ delivered' \in Seq(Nat) /\ Len(delivered') = n + 1
          /\ \A i \in 1 .. n : delivered'[i] = delivered[i]
          /\ delivered'[n + 1] = dispatcher.msg.id
      BY <1>4, <2>1, AppendProperties
    <3>2. QED
      BY <3>1, LenProperties
  <2>3. \A i \in 1 .. n + 1 : i \in 1 .. n \/ i = n + 1
    BY <2>1
  <2>4. /\ dispatcher.msg.id <= published
        /\ \A i \in DOMAIN outbound : dispatcher.msg.id < outbound[i].id
        /\ \A i \in 1 .. n : delivered[i] < dispatcher.msg.id
    BY <1>1, <2>1 DEF Ordered, Given
  <2>5. /\ \A i \in 1 .. n : delivered[i] <= published
        /\ \A i \in 1 .. n, j \in DOMAIN outbound : delivered[i] < outbound[j].id
        /\ \A i, j \in 1 .. n : i < j => delivered[i] < delivered[j]
    BY <2>1 DEF Ordered, Sent, DeliveredInOrder
  <2>6. /\ \A i \in DOMAIN delivered' : delivered'[i] <= published'
        /\ \A i \in DOMAIN delivered', j \in DOMAIN outbound' : delivered'[i] < outbound'[j].id
    BY <1>1, <2>2, <2>3, <2>4, <2>5
  <2>7. \A i, j \in DOMAIN delivered' : i < j => delivered'[i] < delivered'[j]
    BY <2>1, <2>2, <2>3, <2>4, <2>5
  <2>8. QED
    BY <1>2, <2>6, <2>7 DEF Ordered, Sent, DeliveredInOrder
<1>5. QED
  BY <1>1, <1>3, <1>4

LEMMA OrderedKept == ASSUME Types, Ordered, [Next]_vars PROVE Ordered'
<1>1. CASE UNCHANGED <<outbound, published, delivered, dispatcher>>
  BY <1>1 DEF Ordered, Queued, Given, Sent, DeliveredInOrder
<1>2. CASE UNCHANGED <<outbound, published, delivered>> /\ dispatcher'.pc \in {"off", "idle"}
  BY <1>2 DEF Ordered, Queued, Given, Sent, DeliveredInOrder
<1>3. ASSUME NEW r \in Runner, TurnStep(r) PROVE Ordered'
  <2>1. CASE RunJob(r) \/ Record(r) \/ Finish(r)
    BY <1>1, <2>1 DEF RunJob, Record, Finish, busVars, dispatchVars
  <2>2. CASE PublishAnswer(r)
    <3>1. turn[r].to \in Address
      BY DEF Types, TurnTypes
    <3>2. UNCHANGED <<dispatcher, delivered>> /\ Publish(turn[r].to)
      BY <2>2 DEF PublishAnswer, dispatchVars
    <3>3. QED
      BY <3>1, <3>2, PublishOrdered
  <2>3. QED
    BY <1>3, <2>1, <2>2 DEF TurnStep
<1>4. CASE MonitorStep \/ HandlerStep
  <2>1. CASE PublishNotification
    <3>1. handler.to \in Address
      BY DEF Types, Address
    <3>2. QED
      BY <2>1, <3>1, PublishOrdered DEF PublishNotification, dispatchVars
  <2>2. CASE ReadBlocks \/ MonitorEnds \/ HandleEvent \/ Notify
    BY <1>1, <2>2 DEF ReadBlocks, MonitorEnds, HandleEvent, Notify, busVars, dispatchVars
  <2>3. QED
    BY <1>4, <2>1, <2>2 DEF MonitorStep, HandlerStep
<1>5. CASE DispatchStep
  <2>1. CASE DispatcherEnds
    <3>1. dispatcher'.pc = "off"
      BY <2>1 DEF DispatcherEnds, Types
    <3>2. QED
      BY <1>2, <2>1, <3>1 DEF DispatcherEnds, busVars
  <2>2. CASE Lookup
    <3>1. /\ dispatcher.pc = "lookup" /\ dispatcher'.msg = dispatcher.msg
          /\ UNCHANGED <<outbound, published, delivered>>
      BY <2>2 DEF Lookup, Types, busVars
    <3>2. QED
      BY <3>1 DEF Ordered, Queued, Given, Sent, DeliveredInOrder
  <2>3. QED
    BY <1>5, <2>1, <2>2, TakeOrdered, SendOrdered DEF DispatchStep
<1>6. CASE StartAll
  <2>1. dispatcher' = dispatcher \/ dispatcher'.pc = "idle"
    BY <1>6 DEF StartAll, Types
  <2>2. QED
    BY <1>1, <1>2, <1>6, <2>1 DEF StartAll, busVars
<1>7. CASE StopAll \/ CrashProcess
  <2>1. End
    BY <1>7 DEF StopAll, CrashProcess
  <2>2. QED
    BY <2>1 DEF End, Ordered, Queued, Given, Sent, DeliveredInOrder
<1>8. CASE NewAgent \/ NewDevices \/ StopDevices \/ StopCron \/ Interrupt \/ Plug
  BY <1>1, <1>8 DEF NewAgent, NewDevices, StopDevices, StopCron, Interrupt, Plug, busVars, dispatchVars
<1>9. CASE \/ \E r \in Runner, to \in UserChats \cup JobChats : Begin(r, to)
           \/ \E m \in Managers : Save(m)
           \/ UNCHANGED vars
  BY <1>1, <1>9 DEF Begin, Save, vars, busVars, dispatchVars
<1>10. QED
  BY <1>3, <1>4, <1>5, <1>6, <1>7, <1>8, <1>9 DEF Next, MainStep, Runner

\* For any capacity of the bus and any number of senders that wait for it: what Telegram
\* accepts it accepts once and in the order of publication, also when sends fail and when the
\* gateway is stopped in the middle (manager.go:133).
THEOREM DeliveryInOrder == Spec => []DeliveredInOrder
<1>1. Init => Ordered
  BY DEF Init, Ordered, Queued, Given, Sent, DeliveredInOrder
<1>2. Ordered => DeliveredInOrder
  BY DEF Ordered, Sent
<1>3. QED
  BY <1>1, <1>2, OrderedKept, TypesIsInvariant, PTL DEF Spec
=============================================================================
