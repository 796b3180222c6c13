---------------------------- MODULE CronService ----------------------------
(***************************************************************************)
(* The cron scheduler of pkg/cron/service.go as the gateway runs it:       *)
(* one CronService per process, its single runLoop goroutine, the cron     *)
(* tool of pkg/tools/cron.go that calls its API from agent turns, the      *)
(* store file, and the `mortis-agent cron` command, a second process that  *)
(* works on the same file.                                                 *)
(*                                                                         *)
(* A job is an identifier.  What AddJob writes once and nobody changes     *)
(* (schedule, DeleteAfterRun, whether the tool attaches a command to it)   *)
(* is kept in `spec'; what changes is an entry [enabled, next, cmd] of the *)
(* memory store, of the file, of the copy AddJob returned, or of the       *)
(* snapshot the command-line process loaded.  Names, payloads, LastRun and *)
(* LastStatus, and the order of the jobs in the slice are left out.        *)
(***************************************************************************)
EXTENDS Naturals

CONSTANTS
    Job,        \* identifiers generateID may draw
    Delay,      \* seconds or periods a caller may ask for
    None,       \* nil *int64
    Absent,     \* no such job
    Corrupt,    \* a file json.Unmarshal rejects
    MaxTime,    \* bound on the clock
    MaxFaults,  \* bound on failed or torn file accesses
    WithCli,    \* whether the `mortis-agent cron` process is used
    Preset      \* jobs.json as an earlier version or a user left it: its at jobs

Kind == {"at", "every", "cron"}
Spec0 == [kind : Kind, arg : Nat, del : BOOLEAN, cmd : BOOLEAN]
Entry == [enabled : BOOLEAN, next : Nat \cup {None}, cmd : BOOLEAN]
Store == [Job -> Entry \cup {Absent}]
NoJobs == [j \in Job |-> Absent]

ASSUME ConstantsAssumption ==
    /\ Delay \subseteq Nat
    /\ None \notin Nat \cup Job
    /\ Absent \notin Entry \cup Spec0
    /\ Corrupt \notin Store
    /\ MaxTime \in Nat /\ MaxFaults \in Nat
    /\ WithCli \in BOOLEAN
    /\ Preset \subseteq Job

VARIABLES
    now,        \* time.Now(), in ticks of the loop's ticker
    proc,       \* the gateway process: "down", "booting" (before Start), "up"
    running,    \* cs.running
    store,      \* cs.store
    disk,       \* jobs.json
    due,        \* dueJobIDs still to be executed by the loop goroutine
    cur,        \* the job whose callback the loop goroutine is in
    pending,    \* copies AddJob returned to the tool, not yet passed to UpdateJob
    cli,        \* the store the command-line process loaded, or None
    spec,       \* immutable part of every job ever created
    faults,     \* failed or torn file accesses so far
    lastStart,  \* history: when the job's callback last started
    acked       \* history: jobs whose creator was told they exist

vars == <<now, proc, running, store, disk, due, cur, pending, cli, spec,
          faults, lastStart, acked>>

-----------------------------------------------------------------------------
\* Mutants of computeNextRun: a one-time job is given the delay to its time, also when that
\* has passed; it is re-armed although its time has passed; a period is aligned to the clock
\* instead of counted from now.
ComputeNextDelta(s, t) ==
    IF s.kind = "at" THEN s.arg - t
    ELSE IF s.arg = 0 THEN None
    ELSE IF s.kind = "every" THEN t + s.arg ELSE t + s.arg - (t % s.arg)
ComputeNextPast(s, t) ==
    IF s.kind = "at" THEN s.arg
    ELSE IF s.arg = 0 THEN None
    ELSE IF s.kind = "every" THEN t + s.arg ELSE t + s.arg - (t % s.arg)
ComputeNextAligned(s, t) ==
    IF s.kind = "at" THEN IF s.arg > t THEN s.arg ELSE None
    ELSE IF s.arg = 0 THEN None ELSE t + s.arg - (t % s.arg)

\* computeNextRun.  A cron expression is a period whose multiples it matches; a
\* period of zero stands for an expression gronx rejects.
ComputeNext(s, t) ==
    IF s.kind = "at" THEN IF s.arg > t THEN s.arg ELSE None
    ELSE IF s.arg = 0 THEN None
    ELSE IF s.kind = "every" THEN t + s.arg ELSE t + s.arg - (t % s.arg)

\* recomputeNextRuns
Recompute(s) ==
    [j \in Job |-> IF s[j] # Absent /\ s[j].enabled
                   THEN [s[j] EXCEPT !.next = ComputeNext(spec[j], now)]
                   ELSE s[j]]

\* loadStore: the store is reset first, so a file that does not parse loads as empty
Loaded == IF disk = Corrupt THEN NoJobs ELSE disk

\* Mutant of saveStoreUnsafe: an existing file is not replaced when jobs are added to it.
SaveOkStale(s) ==
    /\ disk' = [j \in Job |-> IF disk # Corrupt /\ disk[j] = Absent THEN Absent ELSE s[j]]
    /\ UNCHANGED faults

\* saveStoreUnsafe: MkdirAll or the open may fail and leave the file, and
\* os.WriteFile truncates before it writes, so that a failed write spoils it
SaveOk(s) == disk' = s /\ UNCHANGED faults
SaveFails ==
    /\ faults < MaxFaults
    /\ faults' = faults + 1
    /\ disk' \in {disk, Corrupt}
Save(s) == SaveOk(s) \/ SaveFails

-----------------------------------------------------------------------------
Init ==
    /\ now = 0
    /\ proc = "down"
    /\ running = FALSE
    /\ store = NoJobs
    /\ disk = [j \in Job |-> IF j \in Preset
                             THEN [enabled |-> TRUE, next |-> 1, cmd |-> FALSE]
                             ELSE Absent]
    /\ due = {} /\ cur = None
    /\ pending = NoJobs
    /\ cli = None
    /\ spec = [j \in Job |-> IF j \in Preset
                             THEN [kind |-> "at", arg |-> 1, del |-> FALSE, cmd |-> FALSE]
                             ELSE Absent]
    /\ faults = 0
    /\ lastStart = [j \in Job |-> None]
    /\ acked = Preset

Tick ==
    /\ now < MaxTime
    /\ now' = now + 1
    /\ UNCHANGED <<proc, running, store, disk, due, cur, pending, cli, spec,
                   faults, lastStart, acked>>

-----------------------------------------------------------------------------
\* The life of the gateway process.

\* NewCronService in setupCronTool
Boot ==
    /\ proc = "down"
    /\ proc' = "booting"
    /\ store' = Loaded
    /\ UNCHANGED <<now, running, disk, due, cur, pending, cli, spec, faults,
                   lastStart, acked>>

\* Start, called once by gatewayCmd before any channel or agent goroutine exists.
\* Its errors are printed and the gateway goes on without the loop.
Start ==
    /\ proc = "booting"
    /\ proc' = "up"
    /\ \/ /\ disk = Corrupt
          /\ store' = NoJobs
          /\ UNCHANGED <<running, disk, faults>>
       \/ /\ disk # Corrupt
          /\ store' = Recompute(disk)
          /\ \/ SaveOk(store') /\ running' = TRUE
             \/ SaveFails /\ UNCHANGED running
    /\ UNCHANGED <<now, due, cur, pending, cli, spec, lastStart, acked>>

\* Stop at shutdown; a loop in the middle of its jobs goes on with them
Stop ==
    /\ running
    /\ running' = FALSE
    /\ UNCHANGED <<now, proc, store, disk, due, cur, pending, cli, spec, faults,
                   lastStart, acked>>

\* The process ends: after Stop, or killed.  It may be inside os.WriteFile.
Crash ==
    /\ proc # "down"
    /\ proc' = "down"
    /\ running' = FALSE
    /\ store' = NoJobs
    /\ due' = {} /\ cur' = None
    /\ pending' = NoJobs
    /\ \/ UNCHANGED <<disk, faults>>
       \/ proc = "up" /\ faults < MaxFaults /\ disk' = Corrupt /\ faults' = faults + 1
    /\ UNCHANGED <<now, cli, spec, lastStart, acked>>

-----------------------------------------------------------------------------
\* The runLoop goroutine.

IsDue(j) ==
    /\ store[j] # Absent
    /\ store[j].enabled
    /\ store[j].next # None
    /\ store[j].next <= now

\* checkJobs up to the unlock: due jobs are collected and disarmed, the store is saved
CheckJobs ==
    /\ running
    /\ due = {} /\ cur = None
    /\ due' = {j \in Job : IsDue(j)}
    /\ store' = [j \in Job |-> IF IsDue(j) THEN [store[j] EXCEPT !.next = None]
                               ELSE store[j]]
    /\ Save(store')
    /\ UNCHANGED <<now, proc, running, cur, pending, cli, spec, lastStart, acked>>

\* Mutant of the loop over dueJobIDs: it ends with the first job it starts.
BeginJobAndStop(j) ==
    /\ cur = None
    /\ j \in due
    /\ due' = {}
    /\ cur' = j
    /\ lastStart' = [lastStart EXCEPT ![j] = now]
    /\ UNCHANGED <<now, proc, running, store, disk, pending, cli, spec, faults, acked>>

\* executeJobByID up to the callback: the job is copied under the read lock
BeginJob(j) ==
    /\ cur = None
    /\ j \in due
    /\ due' = due \ {j}
    /\ IF store[j] = Absent
       THEN UNCHANGED <<cur, lastStart>>
       ELSE /\ cur' = j
            /\ lastStart' = [lastStart EXCEPT ![j] = now]
    /\ UNCHANGED <<now, proc, running, store, disk, pending, cli, spec, faults, acked>>

\* Mutant of the update after the callback: the job is not armed again.
AfterRunDisarmed(j) ==
    IF spec[j].kind = "at" /\ spec[j].del THEN Absent ELSE [store[j] EXCEPT !.next = None]

\* executeJobByID after the callback, under the lock taken again
AfterRun(j) ==
    IF spec[j].kind = "at"
    THEN IF spec[j].del THEN Absent
         ELSE [store[j] EXCEPT !.enabled = FALSE, !.next = None]
    ELSE [store[j] EXCEPT !.next = ComputeNext(spec[j], now)]

FinishJob(j) ==
    /\ cur = j
    /\ cur' = None
    /\ IF store[j] = Absent
       THEN UNCHANGED <<store, disk, faults, acked>>
       ELSE /\ store' = [store EXCEPT ![j] = AfterRun(j)]
            /\ acked' = IF store'[j] = Absent THEN acked \ {j} ELSE acked
            /\ Save(store')
    /\ UNCHANGED <<now, proc, running, due, pending, cli, spec, lastStart>>

-----------------------------------------------------------------------------
\* The API, called by the cron tool from agent turns while the gateway is up.

Fresh(j) == spec[j] = Absent

NewEntry(s) == [enabled |-> TRUE, next |-> ComputeNext(s, now), cmd |-> FALSE]

Schedules ==
    {[kind |-> "at", arg |-> now + d, del |-> TRUE] : d \in Delay}
      \cup [kind : {"every", "cron"}, arg : Delay, del : {FALSE}]

SpecOf(s, c) == [kind |-> s.kind, arg |-> s.arg, del |-> s.del, cmd |-> c]

\* AddJob, called by addJob.  When the save fails the caller gets an error, but
\* the job stays in memory.  The copy is kept when a command is still to be set.
AddJob(j) ==
    /\ proc = "up"
    /\ Fresh(j)
    /\ \E s \in Schedules, c \in BOOLEAN :
         /\ spec' = [spec EXCEPT ![j] = SpecOf(s, c)]
         /\ store' = [store EXCEPT ![j] = NewEntry(s)]
         /\ \/ /\ SaveOk(store')
               /\ acked' = acked \cup {j}
               /\ pending' = IF c THEN [pending EXCEPT ![j] = NewEntry(s)] ELSE pending
            \/ SaveFails /\ UNCHANGED <<acked, pending>>
    /\ UNCHANGED <<now, proc, running, due, cur, cli, lastStart>>

\* UpdateJob, called by addJob with the copy AddJob returned and the command in it
UpdateJob(j) ==
    /\ pending[j] # Absent
    /\ pending' = [pending EXCEPT ![j] = Absent]
    /\ IF store[j] = Absent
       THEN UNCHANGED <<store, disk, faults>>
       ELSE /\ store' = [store EXCEPT ![j] = [pending[j] EXCEPT !.cmd = TRUE]]
            /\ Save(store')
    /\ UNCHANGED <<now, proc, running, due, cur, cli, spec, lastStart, acked>>

\* RemoveJob: the store is saved only when a job was removed
RemoveJob(j) ==
    /\ proc = "up"
    /\ store[j] # Absent
    /\ store' = [store EXCEPT ![j] = Absent]
    /\ acked' = acked \ {j}
    /\ Save(store')
    /\ UNCHANGED <<now, proc, running, due, cur, pending, cli, spec, lastStart>>

Enabled(s, j, on) ==
    [s EXCEPT ![j].enabled = on,
              ![j].next = IF on THEN ComputeNext(spec[j], now) ELSE None]

EnableJob(j, on) ==
    /\ proc = "up"
    /\ store[j] # Absent
    /\ store' = Enabled(store, j, on)
    /\ Save(store')
    /\ UNCHANGED <<now, proc, running, due, cur, pending, cli, spec, lastStart, acked>>

-----------------------------------------------------------------------------
\* The command-line process: it loads the file, changes its own copy, writes it back.

\* NewCronService ignores the error of loadStore; a read that meets the gateway
\* inside os.WriteFile sees a truncated file
CliOpen ==
    /\ WithCli
    /\ cli = None
    /\ \/ cli' = Loaded /\ UNCHANGED faults
       \/ proc = "up" /\ faults < MaxFaults /\ cli' = NoJobs /\ faults' = faults + 1
    /\ UNCHANGED <<now, proc, running, store, disk, due, cur, pending, spec,
                   lastStart, acked>>

\* cronAddCmd: only --every and --cron
CliAdd(j) ==
    /\ cli # None
    /\ Fresh(j)
    /\ \E s \in {x \in Schedules : x.kind # "at"} :
         /\ spec' = [spec EXCEPT ![j] = SpecOf(s, FALSE)]
         /\ \/ SaveOk([cli EXCEPT ![j] = NewEntry(s)]) /\ acked' = acked \cup {j}
            \/ SaveFails /\ UNCHANGED acked
    /\ cli' = None
    /\ UNCHANGED <<now, proc, running, store, due, cur, pending, lastStart>>

\* cronRemoveCmd
CliRemove(j) ==
    /\ cli # None
    /\ cli[j] # Absent
    /\ Save([cli EXCEPT ![j] = Absent])
    /\ acked' = acked \ {j}
    /\ cli' = None
    /\ UNCHANGED <<now, proc, running, store, due, cur, pending, spec, lastStart>>

\* cronEnableCmd
CliEnable(j, on) ==
    /\ cli # None
    /\ cli[j] # Absent
    /\ Save(Enabled(cli, j, on))
    /\ cli' = None
    /\ UNCHANGED <<now, proc, running, store, due, cur, pending, spec, lastStart, acked>>

-----------------------------------------------------------------------------
Loop == CheckJobs \/ \E j \in Job : BeginJob(j) \/ FinishJob(j)

Api == \E j \in Job :
          \/ AddJob(j) \/ UpdateJob(j) \/ RemoveJob(j)
          \/ \E on \in BOOLEAN : EnableJob(j, on)

Cli == \/ CliOpen
       \/ \E j \in Job :
            \/ CliAdd(j) \/ CliRemove(j)
            \/ \E on \in BOOLEAN : CliEnable(j, on)

Process == Boot \/ Start \/ Stop \/ Crash

Next == Tick \/ Process \/ Loop \/ Api \/ Cli

Spec == Init /\ [][Next]_vars

\* The clock advances, the ticker fires and the loop goes on when it is not in a callback.
\* Whether a callback returns depends on the agent's turn: that is left to the properties.  The
\* user owes nothing.
Fairness ==
    /\ WF_vars(Tick)
    /\ WF_vars(CheckJobs \/ \E j \in Job : BeginJob(j))

FairSpec == Spec /\ Fairness

-----------------------------------------------------------------------------
Started(j) == lastStart[j] # None
Starts(j) == BeginJob(j) /\ cur' = j

TypeOK ==
    /\ now \in Nat
    /\ proc \in {"down", "booting", "up"}
    /\ running \in BOOLEAN
    /\ store \in Store
    /\ disk \in Store \cup {Corrupt}
    /\ due \subseteq Job
    /\ cur \in Job \cup {None}
    /\ pending \in Store
    /\ cli \in Store \cup {None}
    /\ spec \in [Job -> Spec0 \cup {Absent}]
    /\ faults \in 0 .. MaxFaults
    /\ lastStart \in [Job -> Nat \cup {None}]
    /\ acked \subseteq Job

\* A one-time job is started at most once, whatever the order of ticks, tool calls,
\* command-line edits, failed saves, crashes and restarts.  It rests on the strict
\* comparison in computeNextRun, which Start applies to every job of the file again, and
\* on the reset of NextRunAtMS before the unlock (service.go:153).
AtJobRunsAtMostOnce ==
    [][\A j \in Job : Starts(j) /\ spec[j].kind = "at" => ~Started(j)]_vars

\* Two starts of an `every' job are at least its period apart, also when it is disabled
\* and enabled again while it runs or when the gateway restarts.  Jobs with a command
\* are excepted: addJob's UpdateJob may put back the first due time after a run.
EveryJobKeepsItsPeriod ==
    [][\A j \in Job :
         Starts(j) /\ Started(j) /\ spec[j].kind = "every" /\ ~spec[j].cmd
           => now >= lastStart[j] + spec[j].arg]_vars

\* While the loop runs, an enabled recurring job is armed, or the loop has it in hand
\* and will arm it again: no interleaving of an execution with a tool call strands it.
NoStrandedRecurringJob ==
    running =>
      \A j \in Job :
        /\ store[j] # Absent
        /\ store[j].enabled
        /\ spec[j].kind # "at"
        /\ spec[j].arg > 0
        => store[j].next # None \/ j \in due \/ cur = j

\* A job whose creator was told it exists is in the file until somebody removes it or it
\* has run once, so that it outlives a crash.
AckedJobsAreDurable == \A j \in acked : disk # Corrupt /\ disk[j] # Absent

CallbacksReturn == []<>(cur = None)

\* While callbacks return, a job that the loop has disarmed is started, even if it is disabled
\* or the loop is stopped meanwhile, unless it is removed or the process ends: no other due job
\* makes the loop forget it.  A recurring job that is due in a running loop is started, too,
\* unless it is removed, disabled, or put off a period by EnableJob.  That does not hold of a
\* one-time job: EnableJob takes its time away when it is due but not yet collected
\* (service.go:436).
DueJobStarts ==
    CallbacksReturn =>
      \A j \in Job :
        /\ (j \in due) ~> (cur = j \/ store[j] = Absent \/ proc = "down")
        /\ (running /\ IsDue(j) /\ spec[j].kind # "at") ~>
             (\/ cur = j \/ ~running \/ store[j] = Absent \/ ~store[j].enabled
              \/ store[j].next # None /\ store[j].next > now)

=============================================================================
