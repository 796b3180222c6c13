------------------------- MODULE CronServiceProofs -------------------------
(***************************************************************************)
(* Proofs about CronService for any set of jobs, any delays and any bounds.*)
(***************************************************************************)
EXTENDS CronService, TLAPS

USE ConstantsAssumption DEF ConstantsAssumption

-----------------------------------------------------------------------------
\* What computeNextRun returns: nil or a time, for `at' the due time and only if it is
\* still to come, for the others a time after t.
LEMMA ComputeNextType ==
    ASSUME NEW s, s.kind \in Kind, s.arg \in Nat, NEW t \in Nat
    PROVE  /\ ComputeNext(s, t) \in Nat \cup {None}
           /\ s.kind = "at" => ComputeNext(s, t) = None \/ (ComputeNext(s, t) = s.arg /\ s.arg > t)
           /\ s.kind = "every" => ComputeNext(s, t) = None \/ ComputeNext(s, t) = t + s.arg
           /\ s.kind # "at" /\ s.arg > 0 => ComputeNext(s, t) # None
<1>1. s.arg > 0 => t + s.arg - (t % s.arg) \in Nat
  OBVIOUS
<1>2. QED
  BY <1>1 DEF ComputeNext, Kind

-----------------------------------------------------------------------------
\* The API's inputs have the types the store needs.
LEMMA SchedulesType ==
    ASSUME TypeOK, NEW s \in Schedules, NEW c
    PROVE  /\ s.kind \in Kind /\ s.arg \in Nat /\ s.del \in BOOLEAN
           /\ s.kind = "at" => s.del
           /\ NewEntry(s) \in Entry
           /\ c \in BOOLEAN => SpecOf(s, c) \in Spec0
<1>1. s.kind \in Kind /\ s.arg \in Nat /\ s.del \in BOOLEAN /\ (s.kind = "at" => s.del)
  <2>1. CASE \E d \in Delay : s = [kind |-> "at", arg |-> now + d, del |-> TRUE]
    BY <2>1 DEF Kind, TypeOK
  <2>2. CASE s \in [kind : {"every", "cron"}, arg : Delay, del : {FALSE}]
    BY <2>2 DEF Kind
  <2>3. QED
    BY <2>1, <2>2 DEF Schedules
<1>2. ComputeNext(s, now) \in Nat \cup {None}
  BY <1>1, ComputeNextType DEF TypeOK
<1>3. QED
  BY <1>1, <1>2 DEF NewEntry, Entry, SpecOf, Spec0

\* A job in the store, the file, a snapshot or a pending copy has a specification.
KnownIn(s) == \A j \in Job : s[j] # Absent => spec[j] # Absent
Known == /\ KnownIn(store) /\ KnownIn(pending)
         /\ disk # Corrupt => KnownIn(disk)
         /\ cli # None => KnownIn(cli)

TInv == TypeOK /\ Known

LEMMA RecomputeType ==
    ASSUME TypeOK, NEW s \in Store, KnownIn(s)
    PROVE  Recompute(s) \in Store /\ KnownIn(Recompute(s))
<1>1. ASSUME NEW j \in Job, s[j] # Absent
      PROVE  ComputeNext(spec[j], now) \in Nat \cup {None}
  <2>1. spec[j] \in Spec0
    BY <1>1 DEF KnownIn, TypeOK
  <2>2. QED
    BY <2>1, ComputeNextType DEF Spec0, TypeOK
<1>2. QED
  BY <1>1 DEF Recompute, Store, Entry, KnownIn

LEMMA EnabledType ==
    ASSUME TypeOK, NEW s \in Store, KnownIn(s), NEW j \in Job, s[j] # Absent,
           NEW on \in BOOLEAN
    PROVE  Enabled(s, j, on) \in Store /\ KnownIn(Enabled(s, j, on))
<1>1. spec[j] \in Spec0 /\ s[j] \in Entry
  BY DEF KnownIn, TypeOK, Store
<1>2. ComputeNext(spec[j], now) \in Nat \cup {None}
  BY <1>1, ComputeNextType DEF Spec0, TypeOK
<1>3. QED
  BY <1>1, <1>2 DEF Enabled, Store, Entry, KnownIn

LEMMA LoadedType ==
    ASSUME TInv
    PROVE  Loaded \in Store /\ KnownIn(Loaded)
BY DEF TInv, TypeOK, Known, KnownIn, Loaded, Store, NoJobs

\* Whatever becomes of a save, the file holds what it held, what was saved, or nothing
\* that parses.
LEMMA SaveEffect ==
    ASSUME TypeOK, NEW s, Save(s)
    PROVE  disk' \in {disk, s, Corrupt} /\ faults' \in 0 .. MaxFaults
BY DEF Save, SaveOk, SaveFails, TypeOK

-----------------------------------------------------------------------------
\* Every action preserves the types, one lemma per group of actions.

LEMMA ProcessType == ASSUME TInv, Process PROVE TInv'
<1> USE DEF TInv
<1>1. CASE Boot
  BY <1>1, LoadedType DEF Boot, TypeOK, Known, KnownIn
<1>2. CASE Start
  <2>1. disk # Corrupt => Recompute(disk) \in Store /\ KnownIn(Recompute(disk))
    BY RecomputeType DEF TypeOK, Known
  <2>2. NoJobs \in Store /\ KnownIn(NoJobs)
    BY DEF NoJobs, Store, KnownIn
  <2>3. store' \in Store /\ KnownIn(store') /\ disk' \in {disk, store', Corrupt}
    BY <1>2, <2>1, <2>2 DEF Start, SaveOk, SaveFails
  <2>4. running' = running \/ running' = TRUE
    BY <1>2 DEF Start
  <2>5. faults' \in 0 .. MaxFaults
    BY <1>2 DEF Start, SaveOk, SaveFails, TypeOK
  <2>6. running' \in BOOLEAN
    BY <2>4 DEF TypeOK
  <2>7. QED
    BY <1>2, <2>3, <2>5, <2>6 DEF Start, TypeOK, Known, KnownIn
<1>3. CASE Stop
  BY <1>3 DEF Stop, TypeOK, Known, KnownIn
<1>4. CASE Crash
  <2>1. NoJobs \in Store /\ KnownIn(NoJobs)
    BY DEF NoJobs, Store, KnownIn
  <2>2. disk' \in {disk, Corrupt} /\ faults' \in 0 .. MaxFaults
    BY <1>4 DEF Crash, TypeOK
  <2>3. QED
    BY <1>4, <2>1, <2>2 DEF Crash, TypeOK, Known, KnownIn
<1>5. QED
  BY <1>1, <1>2, <1>3, <1>4 DEF Process

LEMMA LoopType == ASSUME TInv, Loop PROVE TInv'
<1> USE DEF TInv
<1>1. CASE CheckJobs
  <2>1. store' \in Store /\ KnownIn(store')
    BY <1>1 DEF CheckJobs, IsDue, TypeOK, Known, KnownIn, Store, Entry
  <2>2. disk' \in {disk, store', Corrupt} /\ faults' \in 0 .. MaxFaults
    BY <1>1, SaveEffect DEF CheckJobs
  <2>3. QED
    BY <1>1, <2>1, <2>2 DEF CheckJobs, TypeOK, Known, KnownIn
<1>2. ASSUME NEW j \in Job, BeginJob(j) PROVE TInv'
  BY <1>2 DEF BeginJob, TypeOK, Known, KnownIn
<1>3. ASSUME NEW j \in Job, FinishJob(j) PROVE TInv'
  <2>1. CASE store[j] = Absent
    BY <1>3, <2>1 DEF FinishJob, TypeOK, Known, KnownIn
  <2>2. CASE store[j] # Absent
    <3>1. spec[j] \in Spec0
      BY <2>2 DEF TypeOK, Known, KnownIn
    <3>2. ComputeNext(spec[j], now) \in Nat \cup {None}
      BY <3>1, ComputeNextType DEF Spec0, TypeOK
    <3>3. AfterRun(j) \in Entry \cup {Absent}
      <4>1. store[j] \in Entry
        BY <2>2 DEF TypeOK, Store
      <4>2. [store[j] EXCEPT !.enabled = FALSE, !.next = None] \in Entry
        BY <4>1 DEF Entry
      <4>3. [store[j] EXCEPT !.next = ComputeNext(spec[j], now)] \in Entry
        BY <3>2, <4>1 DEF Entry
      <4>4. QED
        BY <4>2, <4>3 DEF AfterRun
    <3>4. store' \in Store /\ KnownIn(store')
      BY <1>3, <2>2, <3>1, <3>3 DEF FinishJob, TypeOK, Known, KnownIn, Store
    <3>5. disk' \in {disk, store', Corrupt} /\ faults' \in 0 .. MaxFaults
      BY <1>3, <2>2, SaveEffect DEF FinishJob
    <3>6. QED
      BY <1>3, <2>2, <3>4, <3>5 DEF FinishJob, TypeOK, Known, KnownIn
  <2>3. QED
    BY <2>1, <2>2
<1>4. QED
  BY <1>1, <1>2, <1>3 DEF Loop

LEMMA ApiType == ASSUME TInv, Api PROVE TInv'
<1> USE DEF TInv
<1>1. ASSUME NEW j \in Job, AddJob(j) PROVE TInv'
  <2>1. PICK s \in Schedules, c \in BOOLEAN :
          /\ spec' = [spec EXCEPT ![j] = SpecOf(s, c)]
          /\ store' = [store EXCEPT ![j] = NewEntry(s)]
          /\ \/ /\ SaveOk(store')
                /\ acked' = acked \cup {j}
                /\ pending' = IF c THEN [pending EXCEPT ![j] = NewEntry(s)] ELSE pending
             \/ SaveFails /\ UNCHANGED <<acked, pending>>
    BY <1>1 DEF AddJob
  <2>2. SpecOf(s, c) \in Spec0 /\ NewEntry(s) \in Entry
    BY <2>1, SchedulesType
  <2>3. spec' \in [Job -> Spec0 \cup {Absent}] /\ store' \in Store
    BY <2>1, <2>2 DEF TypeOK, Store
  <2>4. spec'[j] # Absent /\ \A k \in Job : spec[k] # Absent => spec'[k] # Absent
    BY <2>1, <2>2 DEF TypeOK
  <2>5. pending' \in Store /\ acked' \subseteq Job
    BY <2>1, <2>2 DEF TypeOK, Store
  <2>6. disk' \in {disk, store', Corrupt} /\ faults' \in 0 .. MaxFaults
    BY <2>1, SaveEffect DEF Save
  <2>7. \A k \in Job : k # j => store'[k] = store[k] /\ pending'[k] = pending[k]
    BY <2>1 DEF TypeOK, Store
  <2>8. KnownIn(store)' /\ KnownIn(pending)'
    BY <2>4, <2>7 DEF Known, KnownIn
  <2>9. disk' # Corrupt => KnownIn(disk)'
    BY <2>4, <2>6, <2>8 DEF Known, KnownIn
  <2>10. cli' # None => KnownIn(cli)'
    BY <1>1, <2>4 DEF AddJob, Known, KnownIn
  <2>11. UNCHANGED <<now, proc, running, due, cur, cli, lastStart>>
    BY <1>1 DEF AddJob
  <2>12. TypeOK'
    BY <2>3, <2>5, <2>6, <2>11 DEF TypeOK
  <2>13. QED
    BY <2>8, <2>9, <2>10, <2>12 DEF Known
<1>2. ASSUME NEW j \in Job, UpdateJob(j) PROVE TInv'
  <2>1. pending' \in Store /\ KnownIn(pending')
    BY <1>2 DEF UpdateJob, TypeOK, Store, Known, KnownIn
  <2>2. CASE store[j] = Absent
    BY <1>2, <2>1, <2>2 DEF UpdateJob, TypeOK, Known, KnownIn
  <2>3. CASE store[j] # Absent
    <3>1. [pending[j] EXCEPT !.cmd = TRUE] \in Entry
      <4>1. pending[j] \in Entry
        BY <1>2 DEF UpdateJob, TypeOK, Store
      <4>2. QED
        BY <4>1 DEF Entry
    <3>2. store' = [store EXCEPT ![j] = [pending[j] EXCEPT !.cmd = TRUE]]
      BY <1>2, <2>3 DEF UpdateJob
    <3> store' \in Store
      BY <3>1, <3>2 DEF TypeOK, Store
    <3> KnownIn(store')
      BY <2>3, <3>2 DEF TypeOK, Store, Known, KnownIn
    <3>3. disk' \in {disk, store', Corrupt} /\ faults' \in 0 .. MaxFaults
      BY <1>2, <2>3, SaveEffect DEF UpdateJob
    <3>4. QED
      BY <1>2, <2>1, <3>2, <3>3 DEF UpdateJob, TypeOK, Known, KnownIn
  <2>4. QED
    BY <2>2, <2>3
<1>3. ASSUME NEW j \in Job, RemoveJob(j) PROVE TInv'
  <2>1. store' \in Store /\ KnownIn(store')
    BY <1>3 DEF RemoveJob, TypeOK, Store, Known, KnownIn
  <2>2. disk' \in {disk, store', Corrupt} /\ faults' \in 0 .. MaxFaults
    BY <1>3, SaveEffect DEF RemoveJob
  <2>3. QED
    BY <1>3, <2>1, <2>2 DEF RemoveJob, TypeOK, Known, KnownIn
<1>4. ASSUME NEW j \in Job, NEW on \in BOOLEAN, EnableJob(j, on) PROVE TInv'
  <2>1. store' \in Store /\ KnownIn(store')
    BY <1>4, EnabledType DEF EnableJob, TypeOK, Known
  <2>2. disk' \in {disk, store', Corrupt} /\ faults' \in 0 .. MaxFaults
    BY <1>4, SaveEffect DEF EnableJob
  <2>3. QED
    BY <1>4, <2>1, <2>2 DEF EnableJob, TypeOK, Known, KnownIn
<1>5. QED
  BY <1>1, <1>2, <1>3, <1>4 DEF Api

LEMMA CliType == ASSUME TInv, Cli PROVE TInv'
<1> USE DEF TInv
<1>1. CASE CliOpen
  <2>1. cli' \in Store /\ KnownIn(cli')
    BY <1>1, LoadedType DEF CliOpen, NoJobs, Store, KnownIn
  <2>2. faults' \in 0 .. MaxFaults
    BY <1>1 DEF CliOpen, TypeOK
  <2>3. QED
    BY <1>1, <2>1, <2>2 DEF CliOpen, TypeOK, Known, KnownIn
<1>2. ASSUME NEW j \in Job, CliAdd(j) PROVE TInv'
  <2>1. PICK s \in Schedules :
          /\ spec' = [spec EXCEPT ![j] = SpecOf(s, FALSE)]
          /\ \/ SaveOk([cli EXCEPT ![j] = NewEntry(s)]) /\ acked' = acked \cup {j}
             \/ SaveFails /\ UNCHANGED acked
    BY <1>2 DEF CliAdd
  <2> DEFINE s2 == [cli EXCEPT ![j] = NewEntry(s)]
  <2>2. SpecOf(s, FALSE) \in Spec0 /\ NewEntry(s) \in Entry
    BY SchedulesType
  <2>3. spec' \in [Job -> Spec0 \cup {Absent}] /\ s2 \in Store
    BY <1>2, <2>1, <2>2 DEF CliAdd, TypeOK, Store
  <2>4. spec'[j] # Absent /\ \A k \in Job : spec[k] # Absent => spec'[k] # Absent
    BY <2>1, <2>2 DEF TypeOK
  <2>5. disk' \in {disk, s2, Corrupt} /\ faults' \in 0 .. MaxFaults /\ acked' \subseteq Job
    BY <2>1 DEF SaveOk, SaveFails, TypeOK
  <2>6. \A k \in Job : s2[k] # Absent => spec'[k] # Absent
    BY <1>2, <2>4 DEF CliAdd, TypeOK, Store, Known, KnownIn
  <2>7. disk' # Corrupt => KnownIn(disk)'
    BY <2>4, <2>5, <2>6 DEF Known, KnownIn
  <2>8. KnownIn(store)' /\ KnownIn(pending)'
    BY <1>2, <2>4 DEF CliAdd, Known, KnownIn
  <2>9. QED
    BY <1>2, <2>3, <2>5, <2>7, <2>8 DEF CliAdd, TypeOK, Known
<1>3. ASSUME NEW j \in Job, CliRemove(j) PROVE TInv'
  <2> DEFINE s2 == [cli EXCEPT ![j] = Absent]
  <2>1. s2 \in Store /\ KnownIn(s2)
    BY <1>3 DEF CliRemove, TypeOK, Store, Known, KnownIn
  <2>2. disk' \in {disk, s2, Corrupt} /\ faults' \in 0 .. MaxFaults
    BY <1>3, SaveEffect DEF CliRemove
  <2>3. QED
    BY <1>3, <2>1, <2>2 DEF CliRemove, TypeOK, Known, KnownIn
<1>4. ASSUME NEW j \in Job, NEW on \in BOOLEAN, CliEnable(j, on) PROVE TInv'
  <2> DEFINE s2 == Enabled(cli, j, on)
  <2>1. s2 \in Store /\ KnownIn(s2)
    BY <1>4, EnabledType DEF CliEnable, TypeOK, Known
  <2>2. disk' \in {disk, s2, Corrupt} /\ faults' \in 0 .. MaxFaults
    BY <1>4, SaveEffect DEF CliEnable
  <2>3. QED
    BY <1>4, <2>1, <2>2 DEF CliEnable, TypeOK, Known, KnownIn
<1>5. QED
  BY <1>1, <1>2, <1>3, <1>4 DEF Cli

\* The types are preserved, with the fact that every job has a specification.
LEMMA TypeAndKnown == Spec => []TInv
<1>1. Init => TInv
  <2> SUFFICES ASSUME Init PROVE TInv
    OBVIOUS
  <2>1. NoJobs \in Store /\ disk \in Store
    BY DEF Init, NoJobs, Store, Entry
  <2>2. [kind |-> "at", arg |-> 1, del |-> FALSE, cmd |-> FALSE] \in Spec0
    BY DEF Spec0, Kind
  <2>3. spec \in [Job -> Spec0 \cup {Absent}] /\ lastStart \in [Job -> Nat \cup {None}]
    BY <2>2 DEF Init
  <2>4. TypeOK
    <3>1. now \in Nat /\ faults \in 0 .. MaxFaults /\ cur \in Job \cup {None}
      BY DEF Init
    <3>2. running \in BOOLEAN /\ proc \in {"down", "booting", "up"}
      BY DEF Init
    <3>3. due \subseteq Job /\ acked \subseteq Job
      BY DEF Init
    <3>4. store \in Store /\ pending \in Store /\ cli \in Store \cup {None}
      BY <2>1 DEF Init
    <3>5. QED
      BY <2>1, <2>3, <3>1, <3>2, <3>3, <3>4 DEF TypeOK
  <2>5. [kind |-> "at", arg |-> 1, del |-> FALSE, cmd |-> FALSE] # Absent
    BY <2>2
  <2>6. Known
    BY <2>5 DEF Init, Known, KnownIn, NoJobs
  <2>7. QED
    BY <2>4, <2>6 DEF TInv
<1>2. TInv /\ [Next]_vars => TInv'
  <2> SUFFICES ASSUME TInv, [Next]_vars PROVE TInv'
    OBVIOUS
  <2>1. CASE Tick
    BY <2>1 DEF Tick, TInv, TypeOK, Known, KnownIn
  <2>2. CASE UNCHANGED vars
    BY <2>2 DEF vars, TInv, TypeOK, Known, KnownIn
  <2>3. QED
    BY <2>1, <2>2, ProcessType, LoopType, ApiType, CliType DEF Next
<1>3. QED
  BY <1>1, <1>2, PTL DEF Spec

\* The type invariant, for any number of jobs and any bounds.
THEOREM TypeCorrect == Spec => []TypeOK
<1>1. TInv => TypeOK
  BY DEF TInv
<1>2. QED
  BY <1>1, TypeAndKnown, PTL

-----------------------------------------------------------------------------
\* The inductive invariant behind the two properties of executions.  Outside "up" no
\* goroutine of the gateway runs; a job nobody created was never in anyone's hands.
Quiet ==
    /\ running => proc = "up"
    /\ proc # "up" => pending = NoJobs /\ due = {} /\ cur = None
    /\ \A j \in Job : spec[j] = Absent => ~Started(j) /\ j \notin due /\ cur # j
    /\ \A j \in Job : Started(j) => lastStart[j] <= now

\* An armed one-time job is armed for its own time, wherever its entry is kept
AtTimes(s) ==
    \A j \in Job : s[j] # Absent /\ spec[j].kind = "at" => s[j].next \in {None, spec[j].arg}

\* A started one-time job is past its time and disarmed, unless it is running (UpdateJob
\* may arm it then, but the update after the callback deletes or disables it).
AtInv(j) ==
    spec[j] # Absent /\ spec[j].kind = "at" =>
      /\ Started(j) => spec[j].arg <= now
      /\ j \in due => ~Started(j) /\ spec[j].arg <= now
      /\ proc = "up" /\ Started(j) /\ store[j] # Absent /\ store[j].enabled /\ cur # j
           => store[j].next = None
      /\ pending[j] # Absent => spec[j].del
      /\ pending[j] # Absent /\ Started(j) /\ store[j] # Absent => cur = j

\* A started recurring job without a command is armed no earlier than a period after it
\* started, unless it is running and will be armed anew.
EveryInv(j) ==
    spec[j] # Absent /\ spec[j].kind = "every" /\ ~spec[j].cmd =>
      /\ pending[j] = Absent
      /\ j \in due /\ Started(j) => now >= lastStart[j] + spec[j].arg
      /\ /\ proc = "up" /\ Started(j) /\ cur # j
         /\ store[j] # Absent /\ store[j].enabled /\ store[j].next # None
         => store[j].next >= lastStart[j] + spec[j].arg

IInv ==
    /\ Quiet
    /\ AtTimes(store) /\ AtTimes(pending)
    /\ disk # Corrupt => AtTimes(disk)
    /\ cli # None => AtTimes(cli)
    /\ \A j \in Job : AtInv(j) /\ EveryInv(j)

\* Arming a job gives a one-time job its own time.
LEMMA RecomputeTimes ==
    ASSUME TypeOK, NEW s \in Store, KnownIn(s), AtTimes(s)
    PROVE  AtTimes(Recompute(s))
<1>1. ASSUME NEW j \in Job, s[j] # Absent, spec[j].kind = "at"
      PROVE  ComputeNext(spec[j], now) \in {None, spec[j].arg}
  <2>1. spec[j] \in Spec0
    BY <1>1 DEF KnownIn, TypeOK
  <2>2. QED
    BY <1>1, <2>1, ComputeNextType DEF Spec0, TypeOK
<1>2. QED
  BY <1>1 DEF Recompute, AtTimes, Store, Entry

LEMMA EnabledTimes ==
    ASSUME TypeOK, NEW s \in Store, KnownIn(s), AtTimes(s), NEW j \in Job, s[j] # Absent,
           NEW on \in BOOLEAN
    PROVE  AtTimes(Enabled(s, j, on))
<1>1. spec[j] \in Spec0 /\ s[j] \in Entry
  BY DEF KnownIn, TypeOK, Store
<1>2. spec[j].kind = "at" => ComputeNext(spec[j], now) \in {None, spec[j].arg}
  BY <1>1, ComputeNextType DEF Spec0, TypeOK
<1>3. QED
  BY <1>1, <1>2 DEF Enabled, AtTimes, Store, Entry

LEMMA ProcessInv == ASSUME TInv, IInv, Process PROVE IInv'
<1> USE DEF TInv
<1>1. CASE Boot
  <2>1. AtTimes(Loaded)
    BY DEF IInv, AtTimes, Loaded, NoJobs
  <2>2. Quiet' /\ pending = NoJobs
    BY <1>1 DEF Boot, IInv, Quiet, Started
  <2>3. ASSUME NEW j \in Job PROVE AtInv(j)' /\ EveryInv(j)'
    BY <1>1, <2>2 DEF Boot, IInv, AtInv, EveryInv, Started, NoJobs
  <2>4. QED
    BY <1>1, <2>1, <2>2, <2>3 DEF Boot, IInv, AtTimes
<1>2. CASE Start
  <2>1. NoJobs \in Store /\ AtTimes(NoJobs)
    BY DEF NoJobs, Store, AtTimes
  <2>2. disk # Corrupt => AtTimes(Recompute(disk))
    BY RecomputeTimes DEF TypeOK, Known, IInv
  <2>3. AtTimes(store') /\ disk' \in {disk, store', Corrupt}
    BY <1>2, <2>1, <2>2 DEF Start, SaveOk, SaveFails
  <2>4. Quiet'
    BY <1>2 DEF Start, IInv, Quiet, Started
  <2>5. pending = NoJobs /\ due = {} /\ cur = None
    BY <1>2 DEF Start, IInv, Quiet
  <2>6. ASSUME NEW j \in Job, spec[j] # Absent, store'[j] # Absent, store'[j].enabled
        PROVE  store'[j].next = ComputeNext(spec[j], now)
    <3>1. disk # Corrupt /\ disk \in Store /\ store' = Recompute(disk)
      BY <1>2, <2>6 DEF Start, NoJobs, TypeOK
    <3>2. disk[j] # Absent /\ disk[j] \in Entry
      BY <2>6, <3>1 DEF Recompute, Store
    <3>3. disk[j].enabled
      BY <2>6, <3>1, <3>2 DEF Recompute
    <3>4. QED
      BY <3>1, <3>2, <3>3 DEF Recompute, Entry
  <2>7. ASSUME NEW j \in Job PROVE AtInv(j)' /\ EveryInv(j)'
    <3> SUFFICES ASSUME spec[j] # Absent PROVE AtInv(j)' /\ EveryInv(j)'
      BY <1>2 DEF Start, AtInv, EveryInv
    <3>1. spec[j] \in Spec0
      BY DEF TypeOK
    <3>2. AtInv(j)'
      BY <1>2, <2>5, <2>6, <3>1, ComputeNextType
      DEF Start, IInv, AtInv, NoJobs, Started, Spec0, TypeOK
    <3>3. EveryInv(j)'
      BY <1>2, <2>5, <2>6, <3>1, ComputeNextType
      DEF Start, IInv, EveryInv, Quiet, NoJobs, Started, Spec0, TypeOK
    <3>4. QED
      BY <3>2, <3>3
  <2>8. QED
    BY <1>2, <2>3, <2>4, <2>7 DEF Start, IInv, AtTimes
<1>3. CASE Stop
  BY <1>3 DEF Stop, IInv, Quiet, AtTimes, AtInv, EveryInv, Started
<1>4. CASE Crash
  <2>1. AtTimes(NoJobs)
    BY DEF NoJobs, AtTimes
  <2>2. \A j \in Job : NoJobs[j] = Absent
    BY DEF NoJobs
  <2>3. disk' \in {disk, Corrupt}
    BY <1>4 DEF Crash
  <2>4. Quiet'
    BY <1>4 DEF Crash, IInv, Quiet, Started
  <2>5. ASSUME NEW j \in Job PROVE AtInv(j)' /\ EveryInv(j)'
    BY <1>4, <2>2 DEF Crash, IInv, AtInv, EveryInv, Started
  <2>6. QED
    BY <1>4, <2>1, <2>3, <2>4, <2>5 DEF Crash, IInv, AtTimes
<1>5. QED
  BY <1>1, <1>2, <1>3, <1>4 DEF Process

LEMMA LoopInv == ASSUME TInv, IInv, Loop PROVE IInv'
<1> USE DEF TInv
<1>1. CASE CheckJobs
  <2>1. proc = "up" /\ due = {} /\ cur = None
    BY <1>1 DEF CheckJobs, IInv, Quiet
  <2>2. Quiet'
    BY <1>1, <2>1 DEF CheckJobs, IInv, Quiet, Started, IsDue, Known, KnownIn
  <2>3. AtTimes(store')
    BY <1>1 DEF CheckJobs, IInv, AtTimes, IsDue, TypeOK, Store, Entry
  <2>4. disk' \in {disk, store', Corrupt}
    BY <1>1, SaveEffect DEF CheckJobs
  <2>5. ASSUME NEW j \in Job PROVE AtInv(j)' /\ EveryInv(j)'
    <3> SUFFICES ASSUME spec[j] # Absent PROVE AtInv(j)' /\ EveryInv(j)'
      BY <1>1 DEF CheckJobs, AtInv, EveryInv
    <3>1. /\ j \in due' <=> IsDue(j)
          /\ store'[j] = IF IsDue(j) THEN [store[j] EXCEPT !.next = None] ELSE store[j]
      BY <1>1 DEF CheckJobs
    <3>2. IsDue(j) => store'[j] # Absent /\ store'[j].next = None
      BY <3>1 DEF IsDue, TypeOK, Store, Entry
    <3>3. UNCHANGED <<now, proc, cur, pending, spec, lastStart>>
      BY <1>1 DEF CheckJobs
    <3>4. AtInv(j)'
      <4>1. CASE IsDue(j)
        <5>1. spec[j].kind = "at" => store[j].next = spec[j].arg
          BY <4>1 DEF IsDue, IInv, AtTimes
        <5>2. spec[j].kind = "at" => ~Started(j)
          BY <2>1, <4>1 DEF IsDue, IInv, AtInv, Started
        <5>3. QED
          BY <3>1, <3>2, <3>3, <4>1, <5>1, <5>2 DEF IInv, AtInv, IsDue, Started
      <4>2. CASE ~IsDue(j)
        BY <3>1, <3>3, <4>2, <2>1 DEF IInv, AtInv, Started
      <4>3. QED
        BY <4>1, <4>2
    <3>5. EveryInv(j)'
      <4>1. spec[j] \in Spec0
        BY DEF TypeOK
      <4>2. CASE IsDue(j)
        <5>1. /\ Started(j) /\ spec[j].kind = "every" /\ ~spec[j].cmd
              => store[j].next >= lastStart[j] + spec[j].arg
          BY <2>1, <4>2 DEF IsDue, IInv, EveryInv
        <5>2. /\ Started(j) /\ spec[j].kind = "every" /\ ~spec[j].cmd
              => now >= lastStart[j] + spec[j].arg
          BY <4>1, <4>2, <5>1 DEF IsDue, TypeOK, Store, Entry, Started, Spec0
        <5>3. EveryInv(j) /\ store'[j].next = None
          BY <3>2, <4>2 DEF IInv
        <5>4. QED
          BY <3>3, <5>2, <5>3 DEF EveryInv, Started
      <4>3. CASE ~IsDue(j)
        <5>1. j \notin due' /\ store'[j] = store[j] /\ EveryInv(j)
          BY <3>1, <4>3 DEF IInv
        <5>2. QED
          BY <2>1, <3>3, <5>1 DEF EveryInv, Started
      <4>4. QED
        BY <4>2, <4>3
    <3>6. QED
      BY <3>4, <3>5
  <2>6. QED
    BY <1>1, <2>2, <2>3, <2>4, <2>5 DEF CheckJobs, IInv, AtTimes
<1>2. ASSUME NEW k \in Job, BeginJob(k) PROVE IInv'
  <2>1. proc = "up" /\ cur = None /\ k \in due
    BY <1>2 DEF BeginJob, IInv, Quiet
  <2>2. CASE store[k] = Absent
    BY <1>2, <2>1, <2>2 DEF BeginJob, IInv, Quiet, AtTimes, AtInv, EveryInv, Started
  <2>3. CASE store[k] # Absent
    <3>1. /\ cur' = k /\ due' = due \ {k}
          /\ lastStart' = [lastStart EXCEPT ![k] = now]
          /\ UNCHANGED <<now, proc, running, store, disk, pending, cli, spec, faults, acked>>
      BY <1>2, <2>3 DEF BeginJob
    <3>2. lastStart'[k] = now /\ \A j \in Job : j # k => lastStart'[j] = lastStart[j]
      BY <3>1 DEF TypeOK
    <3>3. spec[k] # Absent
      BY <2>3 DEF Known, KnownIn
    <3>4. Quiet'
      BY <2>1, <3>1, <3>2, <3>3 DEF IInv, Quiet, Started, TypeOK
    <3>5. ASSUME NEW j \in Job PROVE AtInv(j)' /\ EveryInv(j)'
      <4>1. CASE j = k
        BY <2>1, <3>1, <3>2, <4>1 DEF IInv, AtInv, EveryInv, Started
      <4>2. CASE j # k
        BY <2>1, <3>1, <3>2, <4>2 DEF IInv, AtInv, EveryInv, Started
      <4>3. QED
        BY <4>1, <4>2
    <3>6. QED
      BY <3>1, <3>4, <3>5 DEF IInv, AtTimes
  <2>4. QED
    BY <2>2, <2>3
<1>3. ASSUME NEW k \in Job, FinishJob(k) PROVE IInv'
  <2>1. proc = "up" /\ cur = k /\ cur' = None /\ None # k
    BY <1>3 DEF FinishJob, IInv, Quiet
  <2>2. UNCHANGED <<now, proc, running, due, pending, cli, spec, lastStart>>
    BY <1>3 DEF FinishJob
  <2>3. Quiet'
    BY <2>1, <2>2 DEF IInv, Quiet, Started
  <2>4. CASE store[k] = Absent
    <3>1. ASSUME NEW j \in Job PROVE AtInv(j)' /\ EveryInv(j)'
      BY <1>3, <2>1, <2>2, <2>4 DEF FinishJob, IInv, AtInv, EveryInv, Started
    <3>2. QED
      BY <1>3, <2>2, <2>3, <2>4, <3>1 DEF FinishJob, IInv, AtTimes
  <2>5. CASE store[k] # Absent
    <3>1. spec[k] \in Spec0 /\ store[k] \in Entry
      BY <2>5 DEF TypeOK, Known, KnownIn, Store
    <3>2. /\ store'[k] = AfterRun(k)
          /\ \A j \in Job : j # k => store'[j] = store[j]
      BY <1>3, <2>5 DEF FinishJob, TypeOK, Store
    <3>3. disk' \in {disk, store', Corrupt}
      BY <1>3, <2>5, SaveEffect DEF FinishJob
    <3>4. /\ spec[k].kind = "at" => store'[k] = Absent \/ (store'[k].next = None /\ ~spec[k].del)
          /\ spec[k].kind # "at" => store'[k].next = ComputeNext(spec[k], now)
      BY <3>1, <3>2 DEF AfterRun, Entry
    <3>5. AtTimes(store')
      BY <3>2, <3>4 DEF IInv, AtTimes
    <3>6. ASSUME NEW j \in Job PROVE AtInv(j)' /\ EveryInv(j)'
      <4>1. CASE j = k
        <5>1. AtInv(k)'
          BY <2>1, <2>2, <3>4 DEF IInv, AtInv, Started
        <5>2. EveryInv(k)'
          BY <2>1, <2>2, <3>1, <3>4, ComputeNextType
          DEF IInv, EveryInv, Quiet, Started, TypeOK, Spec0
        <5>3. QED
          BY <4>1, <5>1, <5>2
      <4>2. CASE j # k
        BY <2>1, <2>2, <3>2, <4>2 DEF IInv, AtInv, EveryInv, Started
      <4>3. QED
        BY <4>1, <4>2
    <3>7. QED
      BY <2>2, <2>3, <3>3, <3>5, <3>6 DEF IInv, AtTimes
  <2>6. QED
    BY <2>4, <2>5
<1>4. QED
  BY <1>1, <1>2, <1>3 DEF Loop

LEMMA ApiInv == ASSUME TInv, IInv, Api PROVE IInv'
<1> USE DEF TInv
<1>1. ASSUME NEW k \in Job, AddJob(k) PROVE IInv'
  <2>1. PICK s \in Schedules, c \in BOOLEAN :
          /\ spec' = [spec EXCEPT ![k] = SpecOf(s, c)]
          /\ store' = [store EXCEPT ![k] = NewEntry(s)]
          /\ \/ /\ SaveOk(store')
                /\ acked' = acked \cup {k}
                /\ pending' = IF c THEN [pending EXCEPT ![k] = NewEntry(s)] ELSE pending
             \/ SaveFails /\ UNCHANGED <<acked, pending>>
    BY <1>1 DEF AddJob
  <2>2. /\ proc = "up" /\ spec[k] = Absent
        /\ UNCHANGED <<now, proc, running, due, cur, cli, lastStart>>
    BY <1>1 DEF AddJob, Fresh
  <2>3. /\ spec'[k] = SpecOf(s, c) /\ spec'[k] \in Spec0 /\ spec'[k] # Absent
        /\ store'[k] = NewEntry(s) /\ NewEntry(s) \in Entry
        /\ \A j \in Job : j # k => /\ spec'[j] = spec[j] /\ store'[j] = store[j]
                                   /\ pending'[j] = pending[j]
    BY <2>1, SchedulesType DEF TypeOK, Store
  <2>4. /\ ~Started(k) /\ k \notin due /\ cur # k
        /\ pending[k] = Absent
        /\ disk # Corrupt => disk[k] = Absent
        /\ cli # None => cli[k] = Absent
    BY <2>2 DEF IInv, Quiet, Known, KnownIn
  <2>5. /\ pending'[k] \in {NewEntry(s), Absent}
        /\ ~c => pending'[k] = Absent
    BY <2>1, <2>4 DEF TypeOK, Store
  <2>6. disk' \in {disk, store', Corrupt}
    BY <2>1 DEF SaveOk, SaveFails
  <2>7. /\ spec'[k].kind = "at" => /\ NewEntry(s).next \in {None, spec'[k].arg}
                                   /\ spec'[k].del
        /\ spec'[k].cmd = c
    BY <2>3, SchedulesType, ComputeNextType DEF SpecOf, NewEntry, TypeOK
  <2>8. Quiet'
    BY <2>2, <2>3 DEF IInv, Quiet, Started
  <2>9. AtTimes(store)' /\ AtTimes(pending)'
    BY <2>3, <2>5, <2>7 DEF IInv, AtTimes
  <2>10. (disk' # Corrupt => AtTimes(disk)') /\ (cli' # None => AtTimes(cli)')
    BY <2>2, <2>3, <2>4, <2>6, <2>9 DEF IInv, AtTimes
  <2>11. ASSUME NEW j \in Job PROVE AtInv(j)' /\ EveryInv(j)'
    <3>1. CASE j = k
      BY <2>2, <2>4, <2>5, <2>7, <3>1 DEF AtInv, EveryInv, Started
    <3>2. CASE j # k
      <4>1. AtInv(j) /\ EveryInv(j)
        BY DEF IInv
      <4>2. QED
        BY <2>2, <2>3, <3>2, <4>1 DEF AtInv, EveryInv, Started
    <3>3. QED
      BY <3>1, <3>2
  <2>12. QED
    BY <2>8, <2>9, <2>10, <2>11 DEF IInv
<1>2. ASSUME NEW k \in Job, UpdateJob(k) PROVE IInv'
  <2>1. /\ pending[k] # Absent
        /\ pending'[k] = Absent /\ \A j \in Job : j # k => pending'[j] = pending[j]
        /\ UNCHANGED <<now, proc, running, due, cur, cli, spec, lastStart>>
    BY <1>2 DEF UpdateJob, TypeOK, Store
  <2>2. proc = "up"
    BY <2>1 DEF IInv, Quiet, NoJobs
  <2>3. Quiet'
    BY <2>1, <2>2 DEF IInv, Quiet, Started
  <2>4. AtTimes(pending)'
    BY <2>1 DEF IInv, AtTimes
  <2>5. CASE store[k] = Absent
    <3>1. store' = store /\ disk' = disk
      BY <1>2, <2>5 DEF UpdateJob
    <3>2. ASSUME NEW j \in Job PROVE AtInv(j)' /\ EveryInv(j)'
      <4>1. AtInv(j) /\ EveryInv(j)
        BY DEF IInv
      <4>2. QED
        BY <2>1, <3>1, <4>1 DEF AtInv, EveryInv, Started
    <3>3. QED
      BY <2>1, <2>3, <2>4, <3>1, <3>2 DEF IInv, AtTimes
  <2>6. CASE store[k] # Absent
    <3>1. spec[k] # Absent /\ pending[k] \in Entry
      BY <2>1 DEF TypeOK, Known, KnownIn, Store
    <3>2. store'[k].next = pending[k].next /\ \A j \in Job : j # k => store'[j] = store[j]
      BY <1>2, <2>6, <3>1 DEF UpdateJob, TypeOK, Store, Entry
    <3>3. disk' \in {disk, store', Corrupt}
      BY <1>2, <2>6, SaveEffect DEF UpdateJob
    <3>4. AtTimes(store')
      BY <2>1, <3>2 DEF IInv, AtTimes
    <3>5. ASSUME NEW j \in Job PROVE AtInv(j)' /\ EveryInv(j)'
      <4>1. AtInv(j) /\ EveryInv(j)
        BY DEF IInv
      <4>2. CASE j = k
        BY <2>1, <2>6, <4>1, <4>2 DEF AtInv, EveryInv, Started
      <4>3. CASE j # k
        BY <2>1, <3>2, <4>1, <4>3 DEF AtInv, EveryInv, Started
      <4>4. QED
        BY <4>2, <4>3
    <3>6. QED
      BY <2>1, <2>3, <2>4, <3>3, <3>4, <3>5 DEF IInv, AtTimes
  <2>7. QED
    BY <2>5, <2>6
<1>3. ASSUME NEW k \in Job, RemoveJob(k) PROVE IInv'
  <2>1. /\ store'[k] = Absent /\ \A j \in Job : j # k => store'[j] = store[j]
        /\ UNCHANGED <<now, proc, running, due, cur, pending, cli, spec, lastStart>>
    BY <1>3 DEF RemoveJob, TypeOK, Store
  <2>2. disk' \in {disk, store', Corrupt}
    BY <1>3, SaveEffect DEF RemoveJob
  <2>3. AtTimes(store')
    BY <2>1 DEF IInv, AtTimes
  <2>4. Quiet'
    BY <2>1 DEF IInv, Quiet, Started
  <2>5. ASSUME NEW j \in Job PROVE AtInv(j)' /\ EveryInv(j)'
    <3>1. AtInv(j) /\ EveryInv(j)
      BY DEF IInv
    <3>2. QED
      BY <2>1, <3>1 DEF AtInv, EveryInv, Started
  <2>6. QED
    BY <2>1, <2>2, <2>3, <2>4, <2>5 DEF IInv, AtTimes
<1>4. ASSUME NEW k \in Job, NEW on \in BOOLEAN, EnableJob(k, on) PROVE IInv'
  <2>1. /\ store' = Enabled(store, k, on) /\ store[k] # Absent
        /\ UNCHANGED <<now, proc, running, due, cur, pending, cli, spec, lastStart>>
    BY <1>4 DEF EnableJob
  <2>2. disk' \in {disk, store', Corrupt}
    BY <1>4, SaveEffect DEF EnableJob
  <2>3. AtTimes(store')
    BY <2>1, EnabledTimes DEF TypeOK, Known, IInv
  <2>4. Quiet'
    BY <2>1 DEF IInv, Quiet, Started
  <2>5. spec[k] \in Spec0 /\ store[k] \in Entry
    BY <2>1 DEF TypeOK, Known, KnownIn, Store
  <2>6. /\ \A j \in Job : j # k => store'[j] = store[j]
        /\ store'[k].next = ComputeNext(spec[k], now) \/ store'[k].next = None
    BY <2>1, <2>5 DEF Enabled, TypeOK, Store, Entry
  <2>7. ASSUME NEW j \in Job PROVE AtInv(j)' /\ EveryInv(j)'
    <3>1. AtInv(j) /\ EveryInv(j)
      BY DEF IInv
    <3>2. CASE j = k
      <4>1. AtInv(k)'
        BY <2>1, <2>5, <2>6, <3>1, <3>2, ComputeNextType DEF AtInv, Started, TypeOK, Spec0
      <4>2. EveryInv(k)'
        BY <2>1, <2>5, <2>6, <3>1, <3>2, ComputeNextType
        DEF EveryInv, IInv, Quiet, Started, TypeOK, Spec0
      <4>3. QED
        BY <3>2, <4>1, <4>2
    <3>3. CASE j # k
      BY <2>1, <2>6, <3>1, <3>3 DEF AtInv, EveryInv, Started
    <3>4. QED
      BY <3>2, <3>3
  <2>8. QED
    BY <2>1, <2>2, <2>3, <2>4, <2>7 DEF IInv, AtTimes
<1>5. QED
  BY <1>1, <1>2, <1>3, <1>4 DEF Api

LEMMA CliInv == ASSUME TInv, IInv, Cli PROVE IInv'
<1> USE DEF TInv
<1>1. CASE CliOpen
  <2>1. UNCHANGED <<now, proc, running, store, disk, due, cur, pending, spec, lastStart>>
    BY <1>1 DEF CliOpen
  <2>2. AtTimes(cli')
    BY <1>1 DEF CliOpen, Loaded, NoJobs, IInv, AtTimes
  <2>3. ASSUME NEW j \in Job PROVE AtInv(j)' /\ EveryInv(j)'
    <3>1. AtInv(j) /\ EveryInv(j)
      BY DEF IInv
    <3>2. QED
      BY <2>1, <3>1 DEF AtInv, EveryInv, Started
  <2>4. QED
    BY <2>1, <2>2, <2>3 DEF IInv, Quiet, AtTimes, Started
<1>2. ASSUME NEW k \in Job, CliAdd(k) PROVE IInv'
  <2>1. PICK s \in Schedules :
          /\ s.kind # "at"
          /\ spec' = [spec EXCEPT ![k] = SpecOf(s, FALSE)]
          /\ disk' \in {disk, [cli EXCEPT ![k] = NewEntry(s)], Corrupt}
    BY <1>2 DEF CliAdd, SaveOk, SaveFails
  <2>2. /\ spec[k] = Absent /\ cli' = None /\ cli \in Store
        /\ UNCHANGED <<now, proc, running, store, due, cur, pending, lastStart>>
    BY <1>2 DEF CliAdd, Fresh, TypeOK
  <2>3. /\ spec'[k] = SpecOf(s, FALSE) /\ spec'[k].kind # "at"
        /\ \A j \in Job : j # k => spec'[j] = spec[j]
    BY <2>1, SchedulesType DEF SpecOf, TypeOK
  <2>4. /\ ~Started(k) /\ k \notin due /\ cur # k
        /\ pending[k] = Absent /\ store[k] = Absent
    BY <2>2 DEF IInv, Quiet, Known, KnownIn
  <2>5. Quiet'
    BY <2>2, <2>3 DEF IInv, Quiet, Started
  <2>6. AtTimes(store)' /\ AtTimes(pending)'
    <3>1. AtTimes(store) /\ AtTimes(pending)
      BY DEF IInv
    <3>2. QED
      BY <2>2, <2>3, <2>4, <3>1 DEF AtTimes
  <2>7. disk' # Corrupt => AtTimes(disk)'
    <3>1. CASE disk' = disk
      BY <2>3, <3>1 DEF IInv, AtTimes
    <3>2. CASE disk' = [cli EXCEPT ![k] = NewEntry(s)]
      <4>1. \A j \in Job : j # k => disk'[j] = cli[j]
        BY <2>2, <3>2 DEF Store
      <4>2. AtTimes(cli)
        BY <1>2 DEF CliAdd, IInv
      <4>3. QED
        BY <2>3, <4>1, <4>2 DEF AtTimes
    <3>3. QED
      BY <2>1, <3>1, <3>2
  <2>8. ASSUME NEW j \in Job PROVE AtInv(j)' /\ EveryInv(j)'
    <3>1. AtInv(j) /\ EveryInv(j)
      BY DEF IInv
    <3>2. CASE j = k
      BY <2>2, <2>3, <2>4, <3>2 DEF AtInv, EveryInv, Started
    <3>3. CASE j # k
      BY <2>2, <2>3, <3>1, <3>3 DEF AtInv, EveryInv, Started
    <3>4. QED
      BY <3>2, <3>3
  <2>9. QED
    BY <2>2, <2>5, <2>6, <2>7, <2>8 DEF IInv
\* What CliRemove and CliEnable share: they change the file only.
<1>3. ASSUME NEW s2, AtTimes(s2), disk' \in {disk, s2, Corrupt}, cli' = None,
             UNCHANGED <<now, proc, running, store, due, cur, pending, spec, lastStart>>
      PROVE  IInv'
  <2>1. ASSUME NEW j \in Job PROVE AtInv(j)' /\ EveryInv(j)'
    <3>1. AtInv(j) /\ EveryInv(j)
      BY DEF IInv
    <3>2. QED
      BY <1>3, <3>1 DEF AtInv, EveryInv, Started
  <2>2. QED
    BY <1>3, <2>1 DEF IInv, Quiet, AtTimes, Started
<1>4. ASSUME NEW k \in Job, CliRemove(k) PROVE IInv'
  <2> DEFINE s2 == [cli EXCEPT ![k] = Absent]
  <2>1. AtTimes(s2)
    BY <1>4 DEF CliRemove, IInv, AtTimes, TypeOK, Store
  <2>2. disk' \in {disk, s2, Corrupt}
    BY <1>4, SaveEffect DEF CliRemove
  <2>3. QED
    BY <1>3, <1>4, <2>1, <2>2 DEF CliRemove
<1>5. ASSUME NEW k \in Job, NEW on \in BOOLEAN, CliEnable(k, on) PROVE IInv'
  <2> DEFINE s2 == Enabled(cli, k, on)
  <2>1. AtTimes(s2)
    BY <1>5, EnabledTimes DEF CliEnable, TypeOK, Known, IInv
  <2>2. disk' \in {disk, s2, Corrupt}
    BY <1>5, SaveEffect DEF CliEnable
  <2>3. QED
    BY <1>3, <1>5, <2>1, <2>2 DEF CliEnable
<1>6. QED
  BY <1>1, <1>2, <1>4, <1>5 DEF Cli

\* IInv is an invariant.
LEMMA Invariance == Spec => []IInv
<1>1. Init => IInv
  <2> SUFFICES ASSUME Init PROVE IInv
    OBVIOUS
  <2>1. \A j \in Job : ~Started(j) /\ store[j] = Absent /\ pending[j] = Absent
    BY DEF Init, Started, NoJobs
  <2>2. Quiet
    BY <2>1 DEF Init, Quiet
  <2>3. AtTimes(store) /\ AtTimes(pending) /\ AtTimes(disk)
    BY <2>1 DEF Init, AtTimes
  <2>4. \A j \in Job : AtInv(j) /\ EveryInv(j)
    BY <2>1 DEF Init, AtInv, EveryInv
  <2>5. QED
    BY <2>2, <2>3, <2>4 DEF Init, IInv
<1>2. TInv /\ IInv /\ [Next]_vars => IInv'
  <2> SUFFICES ASSUME TInv, IInv, [Next]_vars PROVE IInv'
    OBVIOUS
  <2>1. CASE Tick
    <3>1. /\ now' = now + 1 /\ now \in Nat
          /\ UNCHANGED <<proc, running, store, disk, due, cur, pending, cli, spec, lastStart>>
      BY <2>1 DEF Tick, TInv, TypeOK
    <3>2. \A j \in Job : Started(j) => lastStart[j] \in Nat
      BY DEF TInv, TypeOK, Started
    <3>3. Quiet'
      BY <3>1, <3>2 DEF IInv, Quiet, Started
    <3>4. ASSUME NEW j \in Job PROVE AtInv(j)' /\ EveryInv(j)'
      <4>1. AtInv(j) /\ EveryInv(j)
        BY DEF IInv
      <4>2. spec[j] # Absent => spec[j].arg \in Nat
        BY DEF TInv, TypeOK, Spec0
      <4>3. QED
        BY <3>1, <3>2, <4>1, <4>2 DEF AtInv, EveryInv, Started
    <3>5. QED
      BY <3>1, <3>3, <3>4 DEF IInv, AtTimes
  <2>2. CASE UNCHANGED vars
    <3>1. ASSUME NEW j \in Job PROVE AtInv(j)' /\ EveryInv(j)'
      <4>1. AtInv(j) /\ EveryInv(j)
        BY DEF IInv
      <4>2. QED
        BY <2>2, <4>1 DEF vars, AtInv, EveryInv, Started
    <3>2. QED
      BY <2>2, <3>1 DEF vars, IInv, Quiet, AtTimes, Started
  <2>3. QED
    BY <2>1, <2>2, ProcessInv, LoopInv, ApiInv, CliInv DEF Next
<1>3. QED
  BY <1>1, <1>2, TypeAndKnown, PTL DEF Spec

-----------------------------------------------------------------------------
\* No interleaving of scheduler, tool calls, command-line edits, failed saves, crashes and
\* restarts starts a one-time job twice (checkJobs, executeJobByID, recomputeNextRuns).
THEOREM AtMostOnce == Spec => AtJobRunsAtMostOnce
<1>1. IInv /\ [Next]_vars
        => [\A j \in Job : Starts(j) /\ spec[j].kind = "at" => ~Started(j)]_vars
  <2> SUFFICES ASSUME IInv, NEW j \in Job, BeginJob(j), cur' = j, spec[j].kind = "at"
               PROVE  ~Started(j)
    BY DEF Starts
  <2>1. j \in due
    BY DEF BeginJob
  <2>2. spec[j] # Absent
    BY <2>1 DEF IInv, Quiet
  <2>3. QED
    BY <2>1, <2>2 DEF IInv, AtInv
<1>2. QED
  BY <1>1, Invariance, PTL DEF Spec, AtJobRunsAtMostOnce

\* Two starts of a recurring job without a command are a period apart, for every period.
THEOREM PeriodKept == Spec => EveryJobKeepsItsPeriod
<1>1. IInv /\ [Next]_vars
        => [\A j \in Job :
              Starts(j) /\ Started(j) /\ spec[j].kind = "every" /\ ~spec[j].cmd
                => now >= lastStart[j] + spec[j].arg]_vars
  <2> SUFFICES ASSUME IInv, NEW j \in Job, BeginJob(j), cur' = j,
                      Started(j), spec[j].kind = "every", ~spec[j].cmd
               PROVE  now >= lastStart[j] + spec[j].arg
    BY DEF Starts
  <2>1. j \in due
    BY DEF BeginJob
  <2>2. spec[j] # Absent
    BY <2>1 DEF IInv, Quiet
  <2>3. QED
    BY <2>1, <2>2 DEF IInv, EveryInv
<1>2. QED
  BY <1>1, Invariance, PTL DEF Spec, EveryJobKeepsItsPeriod

-----------------------------------------------------------------------------
\* While the loop runs, a recurring job that is enabled is armed or in the loop's hands, and
\* the copies that the tool will put back by UpdateJob are armed.
Recurring(j) == spec[j] # Absent /\ spec[j].kind # "at" /\ spec[j].arg > 0

Armed(j) ==
    Recurring(j) =>
      /\ running /\ store[j] # Absent /\ store[j].enabled
           => store[j].next # None \/ j \in due \/ cur = j
      /\ pending[j] # Absent => pending[j].next # None

AllArmed == \A j \in Job : Armed(j)

\* What a recurring job is armed with is never nil.
LEMMA RecurringIsArmed ==
    ASSUME TypeOK, NEW j \in Job, Recurring(j)
    PROVE  ComputeNext(spec[j], now) # None
<1>1. spec[j] \in Spec0
  BY DEF TypeOK, Recurring
<1>2. QED
  BY <1>1, ComputeNextType DEF Recurring, TypeOK, Spec0

LEMMA ProcessArmed == ASSUME TInv, IInv, AllArmed, Process PROVE AllArmed'
<1> USE DEF TInv
<1>1. CASE Boot
  <2>1. ~running' /\ UNCHANGED <<pending, spec>>
    BY <1>1 DEF Boot, IInv, Quiet
  <2>2. QED
    BY <2>1 DEF AllArmed, Armed, Recurring
<1>2. CASE Start
  <2> SUFFICES ASSUME NEW j \in Job, Recurring(j) PROVE Armed(j)'
    BY <1>2 DEF Start, AllArmed, Armed, Recurring
  <2>1. UNCHANGED <<now, due, cur, pending, spec>> /\ ~running
    BY <1>2 DEF Start, IInv, Quiet
  <2>2. ASSUME running', store'[j] # Absent, store'[j].enabled PROVE store'[j].next # None
    <3>1. disk # Corrupt /\ disk \in Store /\ store' = Recompute(disk)
      BY <1>2, <2>1, <2>2 DEF Start, TypeOK
    <3>2. disk[j] # Absent /\ disk[j] \in Entry
      BY <2>2, <3>1 DEF Recompute, Store
    <3>3. disk[j].enabled
      BY <2>2, <3>1, <3>2 DEF Recompute
    <3>4. store'[j].next = ComputeNext(spec[j], now)
      BY <3>1, <3>2, <3>3 DEF Recompute, Entry
    <3>5. QED
      BY <3>4, RecurringIsArmed
  <2>3. QED
    BY <2>1, <2>2 DEF AllArmed, Armed, Recurring
<1>3. CASE Stop
  BY <1>3 DEF Stop, AllArmed, Armed, Recurring
<1>4. CASE Crash
  <2>1. \A j \in Job : NoJobs[j] = Absent
    BY DEF NoJobs
  <2>2. QED
    BY <1>4, <2>1 DEF Crash, AllArmed, Armed, Recurring
<1>5. QED
  BY <1>1, <1>2, <1>3, <1>4 DEF Process

LEMMA LoopArmed == ASSUME TInv, IInv, AllArmed, Loop PROVE AllArmed'
<1> USE DEF TInv
<1>1. CASE CheckJobs
  <2> SUFFICES ASSUME NEW j \in Job PROVE Armed(j)'
    BY DEF AllArmed
  <2>1. /\ j \in due' <=> IsDue(j)
        /\ store'[j] = IF IsDue(j) THEN [store[j] EXCEPT !.next = None] ELSE store[j]
        /\ UNCHANGED <<running, pending, spec>>
        /\ due = {} /\ cur = None
    BY <1>1 DEF CheckJobs
  <2>2. QED
    BY <2>1 DEF AllArmed, Armed, Recurring
<1>2. ASSUME NEW k \in Job, BeginJob(k) PROVE AllArmed'
  <2>1. due' = due \ {k} /\ cur = None /\ UNCHANGED <<running, store, pending, spec>>
    BY <1>2 DEF BeginJob
  <2>2. store[k] # Absent => cur' = k
    BY <1>2 DEF BeginJob
  <2>3. QED
    BY <2>1, <2>2 DEF AllArmed, Armed, Recurring
<1>3. ASSUME NEW k \in Job, FinishJob(k) PROVE AllArmed'
  <2>1. cur = k /\ cur' = None /\ UNCHANGED <<now, running, due, pending, spec>>
    BY <1>3 DEF FinishJob
  <2>2. CASE store[k] = Absent
    <3>1. store' = store
      BY <1>3, <2>2 DEF FinishJob
    <3>2. QED
      BY <2>1, <2>2, <3>1 DEF AllArmed, Armed, Recurring
  <2>3. CASE store[k] # Absent
    <3>1. store[k] \in Entry
      BY <2>3 DEF TypeOK, Store
    <3>2. store'[k] = AfterRun(k) /\ \A j \in Job : j # k => store'[j] = store[j]
      BY <1>3, <2>3 DEF FinishJob, TypeOK, Store
    <3>3. Recurring(k) => store'[k].next # None
      BY <3>1, <3>2, RecurringIsArmed DEF AfterRun, Recurring, Entry
    <3>4. QED
      BY <2>1, <3>2, <3>3 DEF AllArmed, Armed, Recurring
  <2>4. QED
    BY <2>2, <2>3
<1>4. QED
  BY <1>1, <1>2, <1>3 DEF Loop

LEMMA ApiArmed == ASSUME TInv, IInv, AllArmed, Api PROVE AllArmed'
<1> USE DEF TInv
<1>1. ASSUME NEW k \in Job, AddJob(k) PROVE AllArmed'
  <2>1. PICK s \in Schedules, c \in BOOLEAN :
          /\ spec' = [spec EXCEPT ![k] = SpecOf(s, c)]
          /\ store' = [store EXCEPT ![k] = NewEntry(s)]
          /\ pending' \in {[pending EXCEPT ![k] = NewEntry(s)], pending}
    BY <1>1 DEF AddJob
  <2>2. spec[k] = Absent /\ pending[k] = Absent /\ UNCHANGED <<running, due, cur>>
    BY <1>1 DEF AddJob, Fresh, Known, KnownIn
  <2>3. /\ spec'[k] = SpecOf(s, c) /\ store'[k] = NewEntry(s)
        /\ pending'[k] \in {NewEntry(s), Absent}
        /\ \A j \in Job : j # k => /\ spec'[j] = spec[j] /\ store'[j] = store[j]
                                   /\ pending'[j] = pending[j]
    BY <2>1, <2>2 DEF TypeOK, Store
  <2>4. s.kind # "at" /\ s.arg > 0 => NewEntry(s).next # None
    BY SchedulesType, ComputeNextType DEF NewEntry, TypeOK
  <2>5. Armed(k)'
    BY <2>3, <2>4 DEF Armed, Recurring, SpecOf
  <2>6. ASSUME NEW j \in Job, j # k PROVE Armed(j)'
    BY <2>2, <2>3, <2>6 DEF AllArmed, Armed, Recurring
  <2>7. QED
    BY <2>5, <2>6 DEF AllArmed
<1>2. ASSUME NEW k \in Job, UpdateJob(k) PROVE AllArmed'
  <2>1. /\ pending[k] # Absent /\ pending'[k] = Absent
        /\ \A j \in Job : j # k => pending'[j] = pending[j]
        /\ UNCHANGED <<running, due, cur, spec>>
    BY <1>2 DEF UpdateJob, TypeOK, Store
  <2>2. /\ store'[k] # Absent => store'[k].next = pending[k].next
        /\ \A j \in Job : j # k => store'[j] = store[j]
    <3>1. pending[k] \in Entry
      BY <2>1 DEF TypeOK, Store
    <3>2. QED
      BY <1>2, <3>1 DEF UpdateJob, TypeOK, Store, Entry
  <2>3. QED
    BY <2>1, <2>2 DEF AllArmed, Armed, Recurring
<1>3. ASSUME NEW k \in Job, RemoveJob(k) PROVE AllArmed'
  BY <1>3 DEF RemoveJob, AllArmed, Armed, Recurring, TypeOK, Store
<1>4. ASSUME NEW k \in Job, NEW on \in BOOLEAN, EnableJob(k, on) PROVE AllArmed'
  <2>1. /\ store' = Enabled(store, k, on) /\ store[k] \in Entry
        /\ UNCHANGED <<now, running, due, cur, pending, spec>>
    BY <1>4 DEF EnableJob, TypeOK, Store
  <2>2. /\ store'[k].enabled = on
        /\ on => store'[k].next = ComputeNext(spec[k], now)
        /\ \A j \in Job : j # k => store'[j] = store[j]
    BY <2>1 DEF Enabled, TypeOK, Store, Entry
  <2>3. QED
    BY <2>1, <2>2, RecurringIsArmed DEF AllArmed, Armed, Recurring
<1>5. QED
  BY <1>1, <1>2, <1>3, <1>4 DEF Api

LEMMA CliArmed == ASSUME TInv, AllArmed, Cli PROVE AllArmed'
<1> USE DEF TInv
<1>1. UNCHANGED <<running, store, due, cur, pending>>
  BY DEF Cli, CliOpen, CliAdd, CliRemove, CliEnable
<1>2. ASSUME NEW j \in Job, store[j] # Absent \/ pending[j] # Absent PROVE spec'[j] = spec[j]
  <2>1. spec[j] # Absent
    BY <1>2 DEF Known, KnownIn
  <2>2. QED
    BY <2>1 DEF Cli, CliOpen, CliAdd, CliRemove, CliEnable, Fresh, TypeOK
<1>3. QED
  BY <1>1, <1>2 DEF AllArmed, Armed, Recurring

\* No interleaving of an execution with tool calls, command-line edits, failed saves or
\* restarts strands a recurring job (executeJobByID, UpdateJob, EnableJob).
THEOREM RecurringJobsStayArmed == Spec => []NoStrandedRecurringJob
<1>1. Init => AllArmed
  BY DEF Init, AllArmed, Armed, NoJobs
<1>2. TInv /\ IInv /\ AllArmed /\ [Next]_vars => AllArmed'
  <2> SUFFICES ASSUME TInv, IInv, AllArmed, [Next]_vars PROVE AllArmed'
    OBVIOUS
  <2>1. CASE Tick
    BY <2>1 DEF Tick, AllArmed, Armed, Recurring
  <2>2. CASE UNCHANGED vars
    BY <2>2 DEF vars, AllArmed, Armed, Recurring
  <2>3. QED
    BY <2>1, <2>2, ProcessArmed, LoopArmed, ApiArmed, CliArmed DEF Next
<1>3. TInv /\ AllArmed => NoStrandedRecurringJob
  BY DEF TInv, Known, KnownIn, AllArmed, Armed, Recurring, NoStrandedRecurringJob
<1>4. QED
  BY <1>1, <1>2, <1>3, TypeAndKnown, Invariance, PTL DEF Spec

-----------------------------------------------------------------------------
\* As long as no file access has failed, the file of a gateway that is up is its store, and
\* every acknowledged job is in it.
Durable ==
    /\ cli = None
    /\ faults = 0 =>
         /\ disk # Corrupt
         /\ proc = "up" => disk = store
         /\ \A j \in acked : disk[j] # Absent

\* Without the command-line process, an acknowledged job is in the file until it is removed or
\* has run once, in every gateway whose file accesses have succeeded so far (saveStoreUnsafe).
THEOREM AckedUntilAFault ==
    ASSUME ~WithCli
    PROVE  Spec => [](faults = 0 => AckedJobsAreDurable)
<1>1. Init => Durable
  <2>1. [enabled |-> TRUE, next |-> 1, cmd |-> FALSE] \in Entry
    BY DEF Entry
  <2>2. [enabled |-> TRUE, next |-> 1, cmd |-> FALSE] # Absent
    BY <2>1
  <2>3. Init => disk \in Store
    BY <2>1 DEF Init, Store
  <2>4. QED
    BY <2>2, <2>3 DEF Init, Durable
<1>2. TInv /\ IInv /\ Durable /\ [Next]_vars => Durable'
  <2> SUFFICES ASSUME TInv, IInv, Durable, Next PROVE Durable'
    BY DEF vars, Durable
  <2>1. SaveFails => faults' # 0
    BY DEF SaveFails, TInv, TypeOK
  <2>2. store' \in Store
    BY ProcessType, LoopType, ApiType, CliType DEF Next, Tick, TInv, TypeOK
  <2>3. \A j \in acked : j \in Job
    BY DEF TInv, TypeOK
  \* What an action does that saves the store
  <2>4. ASSUME SaveOk(store') \/ SaveFails, cli' = cli,
               faults = 0 => \A j \in acked' : store'[j] # Absent
        PROVE  Durable'
    <3>1. store' # Corrupt
      BY <2>2
    <3>2. QED
      BY <2>1, <2>2, <2>4, <3>1 DEF SaveOk, Durable
  <2>5. ASSUME proc = "up", faults = 0 PROVE \A j \in acked : store[j] # Absent
    BY <2>5 DEF Durable
  <2>6. CASE Tick
    BY <2>6 DEF Tick, Durable
  <2>7. CASE Process
    <3>1. CASE Boot
      BY <3>1 DEF Boot, Durable
    <3>2. CASE Start
      <4>1. CASE disk = Corrupt
        BY <3>2, <4>1 DEF Start, Durable
      <4>2. CASE disk # Corrupt
        <5>1. store' = Recompute(disk) /\ (SaveOk(store') \/ SaveFails)
          BY <3>2, <4>2 DEF Start
        <5>2. ASSUME NEW j \in Job, disk[j] # Absent PROVE store'[j] # Absent
          <6>1. disk[j] \in Entry
            BY <4>2, <5>2 DEF TInv, TypeOK, Store
          <6>2. store'[j] = disk[j] \/ store'[j] = [disk[j] EXCEPT !.next = ComputeNext(spec[j], now)]
            BY <5>1 DEF Recompute
          <6>3. spec[j] \in Spec0
            BY <4>2, <5>2 DEF TInv, TypeOK, Known, KnownIn
          <6>4. ComputeNext(spec[j], now) \in Nat \cup {None}
            BY <6>3, ComputeNextType DEF Spec0, TInv, TypeOK
          <6>5. store'[j] \in Entry
            BY <6>1, <6>2, <6>4 DEF Entry
          <6>6. QED
            BY <6>5
        <5>3. UNCHANGED <<cli, acked>>
          BY <3>2 DEF Start
        <5>4. faults = 0 => \A j \in acked' : store'[j] # Absent
          BY <2>3, <5>2, <5>3 DEF Durable
        <5>5. QED
          BY <2>4, <5>1, <5>3, <5>4
      <4>3. QED
        BY <4>1, <4>2
    <3>3. CASE Stop
      BY <3>3 DEF Stop, Durable
    <3>4. CASE Crash
      <4>1. faults' = 0 => UNCHANGED <<disk, faults>>
        BY <3>4 DEF Crash, TInv, TypeOK
      <4>2. QED
        BY <3>4, <4>1 DEF Crash, Durable
    <3>5. QED
      BY <2>7, <3>1, <3>2, <3>3, <3>4 DEF Process
  <2>8. CASE Loop
    <3>1. CASE CheckJobs
      <4>1. proc = "up" /\ UNCHANGED <<cli, acked>>
        BY <3>1 DEF CheckJobs, IInv, Quiet
      <4>2. \A j \in Job : store'[j] = Absent => store[j] = Absent
        BY <3>1 DEF CheckJobs, IsDue, TInv, TypeOK, Store, Entry
      <4>3. QED
        BY <2>3, <2>4, <2>5, <3>1, <4>1, <4>2 DEF CheckJobs, Save
    <3>2. ASSUME NEW k \in Job, BeginJob(k) PROVE Durable'
      BY <3>2 DEF BeginJob, Durable
    <3>3. ASSUME NEW k \in Job, FinishJob(k) PROVE Durable'
      <4>1. proc = "up" /\ cli' = cli
        BY <3>3 DEF FinishJob, IInv, Quiet
      <4>2. CASE store[k] = Absent
        BY <3>3, <4>2 DEF FinishJob, Durable
      <4>3. CASE store[k] # Absent
        <5>1. /\ \A j \in Job : j # k => store'[j] = store[j]
              /\ acked' = IF store'[k] = Absent THEN acked \ {k} ELSE acked
              /\ Save(store')
          BY <3>3, <4>3 DEF FinishJob, TInv, TypeOK, Store
        <5>2. QED
          BY <2>3, <2>4, <2>5, <4>1, <5>1 DEF Save
      <4>4. QED
        BY <4>2, <4>3
    <3>4. QED
      BY <2>8, <3>1, <3>2, <3>3 DEF Loop
  <2>9. CASE Api
    <3>1. ASSUME NEW k \in Job, AddJob(k) PROVE Durable'
      <4>1. proc = "up" /\ cli' = cli /\ (acked' = acked \cup {k} \/ acked' = acked)
        BY <3>1 DEF AddJob
      <4>2. PICK s \in Schedules, c \in BOOLEAN :
              store' = [store EXCEPT ![k] = NewEntry(s)] /\ (SaveOk(store') \/ SaveFails)
        BY <3>1 DEF AddJob
      <4>3. store'[k] = NewEntry(s) /\ \A j \in Job : j # k => store'[j] = store[j]
        BY <4>2 DEF TInv, TypeOK, Store
      <4>4. NewEntry(s) # Absent
        BY SchedulesType DEF TInv
      <4>5. QED
        BY <2>3, <2>4, <2>5, <4>1, <4>2, <4>3, <4>4
    <3>2. ASSUME NEW k \in Job, UpdateJob(k) PROVE Durable'
      <4>1. proc = "up" /\ UNCHANGED <<cli, acked>>
        BY <3>2 DEF UpdateJob, IInv, Quiet, NoJobs
      <4>2. CASE store[k] = Absent
        BY <3>2, <4>2 DEF UpdateJob, Durable
      <4>3. CASE store[k] # Absent
        <5>1. pending[k] \in Entry
          BY <3>2 DEF UpdateJob, TInv, TypeOK, Store
        <5>2. [pending[k] EXCEPT !.cmd = TRUE] \in Entry
          BY <5>1 DEF Entry
        <5>3. /\ store'[k] # Absent
              /\ \A j \in Job : j # k => store'[j] = store[j]
              /\ Save(store')
          BY <3>2, <4>3, <5>2 DEF UpdateJob, TInv, TypeOK, Store
        <5>4. QED
          BY <2>3, <2>4, <2>5, <4>1, <5>3 DEF Save
      <4>4. QED
        BY <4>2, <4>3
    <3>3. ASSUME NEW k \in Job, RemoveJob(k) PROVE Durable'
      <4>1. /\ proc = "up" /\ cli' = cli /\ acked' = acked \ {k} /\ Save(store')
            /\ \A j \in Job : j # k => store'[j] = store[j]
        BY <3>3 DEF RemoveJob, TInv, TypeOK, Store
      <4>2. QED
        BY <2>3, <2>4, <2>5, <4>1 DEF Save
    <3>4. ASSUME NEW k \in Job, NEW on \in BOOLEAN, EnableJob(k, on) PROVE Durable'
      <4>1. /\ proc = "up" /\ UNCHANGED <<cli, acked>> /\ Save(store')
            /\ store' = Enabled(store, k, on) /\ store[k] \in Entry
        BY <3>4 DEF EnableJob, TInv, TypeOK, Store
      <4>2. \A j \in Job : j # k => store'[j] = store[j]
        BY <4>1 DEF Enabled, TInv, TypeOK, Store
      <4>3. spec[k] \in Spec0
        BY <3>4 DEF EnableJob, TInv, TypeOK, Known, KnownIn
      <4>4. ComputeNext(spec[k], now) \in Nat \cup {None}
        BY <4>3, ComputeNextType DEF Spec0, TInv, TypeOK
      <4>5. store'[k] \in Entry
        BY <4>1, <4>4 DEF Enabled, TInv, TypeOK, Store, Entry
      <4>6. QED
        BY <2>3, <2>4, <2>5, <4>1, <4>2, <4>5 DEF Save
    <3>5. QED
      BY <2>9, <3>1, <3>2, <3>3, <3>4 DEF Api
  <2>10. ~Cli
    BY DEF Cli, CliOpen, CliAdd, CliRemove, CliEnable, Durable
  <2>11. QED
    BY <2>6, <2>7, <2>8, <2>9, <2>10 DEF Next
<1>3. Durable => (faults = 0 => AckedJobsAreDurable)
  BY DEF Durable, AckedJobsAreDurable
<1>4. QED
  BY <1>1, <1>2, <1>3, TypeAndKnown, Invariance, PTL DEF Spec
=============================================================================
