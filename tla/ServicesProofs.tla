--------------------------- MODULE ServicesProofs ---------------------------
(***************************************************************************)
(* Theorems about the small components that Services composes, for any     *)
(* callers, requests, files, configurations, chats and bounds: what a      *)
(* command leaves in auth.json stays, a login that succeeds had the user's *)
(* consent, a migration loses neither files nor what the user configured,  *)
(* and to-do lists of chats stay apart.                                    *)
(* Since one component moves while the others rest, each has its own       *)
(* inductive invariant and is proved as if it were alone.                  *)
(***************************************************************************)
EXTENDS Services, StreamProcessorProofs, QuestionProofs

\* A step of Services is one of each component, or leaves it alone
LEMMA OneMoves ==
    ASSUME [Next]_vars
    PROVE  /\ [ProcessorNext]_partsVars /\ [QuestionNext]_questionVars
           /\ [CredentialsNext]_credentialVars
           /\ [LO!Next]_loginVars /\ [MI!Next]_migrationVars
           /\ [TL!Next]_todoVars
BY DEF Next, Is, vars

-----------------------------------------------------------------------------
\* Login

HandlerState == [pc : {"none", "send", "served"}, request : LO!Request]

\* A request with our state and a code was served
Consented == \E h \in Handlers : handler[h] = [pc |-> "served", request |-> LO!Consent]

LoginInv ==
    /\ way \in {"browser", "device"} /\ granted \in BOOLEAN
    /\ outcome \in {"", "failed", "credential"}
    /\ login \in IF way = "browser" THEN {"start", "wait", "exchange", "shutdown", "ended"}
                 ELSE {"start", "poll", "polling", "ended"}
    /\ handler \in [Handlers -> HandlerState]
    \* the channel holds what a handler that was served made of its request
    /\ \/ resultCh = <<>>
       \/ \E h \in Handlers : handler[h].pc = "served" /\ resultCh = <<LO!Result(handler[h].request)>>
    /\ login = "exchange" => Consented
    /\ outcome = "credential" => IF way = "browser" THEN Consented ELSE granted

LEMMA HeadOfOne ==
    ASSUME NEW r
    PROVE  Head(<<r>>) = r
OBVIOUS

LEMMA ConsentIsServed ==
    ASSUME NEW r, r = [pc |-> "served", request |-> LO!Consent]
    PROVE  r.pc = "served"
OBVIOUS

LEMMA LoginInit == Init => LoginInv
<1>1. SUFFICES ASSUME LO!Init \/ NoLogin PROVE LoginInv
  BY DEF Init
<1>2. handler = [h \in Handlers |-> [pc |-> "none", request |-> [ours |-> FALSE, code |-> FALSE]]]
  BY <1>1 DEF NoLogin, LO!Init
<1>3. handler \in [Handlers -> HandlerState]
  BY <1>2 DEF HandlerState, LO!Request
<1>4. QED
  BY <1>1, <1>3 DEF NoLogin, LO!Init, LoginInv

\* Who was served remains so
LEMMA ServedRemains ==
    ASSUME LoginInv, LO!Next
    PROVE  /\ \A h \in Handlers : handler[h].pc = "served" => handler'[h] = handler[h]
           /\ Consented => Consented'
<1>1. \A h \in Handlers : handler[h].pc = "served" => handler'[h] = handler[h]
  BY DEF LoginInv, HandlerState, LO!Next, LO!LoginStep, LO!Listen, LO!TakeResult, LO!BrowserTimeout,
         LO!Exchange, LO!Shutdown, LO!RequestCode, LO!Poll, LO!PollEnds, LO!DeviceTimeout,
         LO!EnterCode, LO!SendResult, LO!Callback
<1>2. QED
  BY <1>1 DEF Consented

LEMMA LoginKept == LoginInv /\ [LO!Next]_loginVars => LoginInv'
<1> SUFFICES ASSUME LoginInv, [LO!Next]_loginVars PROVE LoginInv'
  OBVIOUS
<1> USE DEF LoginInv, LO!Goes
<1>1. CASE UNCHANGED loginVars
  BY <1>1 DEF loginVars, Consented
<1>2. ASSUME LO!Next, UNCHANGED handler, UNCHANGED resultCh \/ resultCh' = <<>>
      PROVE  LoginInv'
  <2>1. /\ Consented' <=> Consented
        /\ \/ resultCh' = <<>>
           \/ \E h \in Handlers : handler'[h].pc = "served" /\ resultCh' = <<LO!Result(handler'[h].request)>>
    BY <1>2 DEF Consented
  <2>2. CASE LO!Listen \/ LO!BrowserTimeout \/ LO!Exchange \/ LO!Shutdown \/ LO!RequestCode
    BY <1>2, <2>1, <2>2 DEF LO!Listen, LO!BrowserTimeout, LO!Exchange, LO!Shutdown, LO!RequestCode
  <2>3. CASE LO!TakeResult
    <3>1. Head(resultCh) = "code" => Consented
      <4>1. PICK h \in Handlers : handler[h].pc = "served" /\ resultCh = <<LO!Result(handler[h].request)>>
        BY <2>3 DEF LO!TakeResult
      <4>2. Head(resultCh) = LO!Result(handler[h].request)
        BY <4>1, HeadOfOne
      <4>3. handler[h] \in HandlerState
        OBVIOUS
      <4>6. LO!Result(handler[h].request) = "code" => handler[h].request = LO!Consent
        BY <4>3 DEF HandlerState, LO!Result, LO!Request, LO!Consent
      <4>4. LO!Result(handler[h].request) = "code" => handler[h] = [pc |-> "served", request |-> LO!Consent]
        BY <4>1, <4>3, <4>6 DEF HandlerState
      <4>5. QED
        BY <4>2, <4>4 DEF Consented
    <3>2. QED
      BY <1>2, <2>1, <2>3, <3>1 DEF LO!TakeResult
  <2>4. CASE LO!Poll \/ LO!PollEnds \/ LO!DeviceTimeout \/ LO!EnterCode
    BY <1>2, <2>1, <2>4 DEF LO!Poll, LO!PollEnds, LO!DeviceTimeout, LO!EnterCode
  <2>5. CASE \E h \in Handlers : LO!SendResult(h)
    <3>1. PICK h \in Handlers : LO!SendResult(h)
      BY <2>5
    <3>2. handler[h].pc = "send" /\ handler' = [handler EXCEPT ![h].pc = "served"]
      BY <3>1 DEF LO!SendResult
    <3>3. handler[h] \in HandlerState /\ handler'[h].pc = "served"
      BY <3>2 DEF HandlerState
    <3>4. QED
      BY <1>2, <3>2, <3>3
  <2>6. CASE \E h \in Handlers, request \in LO!Request : LO!Callback(h, request)
    <3>1. PICK h \in Handlers, request \in LO!Request : LO!Callback(h, request)
      BY <2>6
    <3>2. handler[h].pc = "none" /\ handler'[h].pc = "send"
      BY <3>1 DEF LO!Callback
    <3>3. FALSE
      BY <1>2, <3>2
    <3>4. QED
      BY <3>3
  <2>7. QED
    BY <1>2, <2>2, <2>3, <2>4, <2>5, <2>6 DEF LO!Next, LO!LoginStep
<1>3. ASSUME NEW h \in Handlers, LO!SendResult(h) PROVE LoginInv'
  <2>1. /\ handler[h] \in HandlerState /\ UNCHANGED <<way, login, granted, outcome>>
        /\ handler' = [handler EXCEPT ![h].pc = "served"]
        /\ resultCh' = <<LO!Result(handler[h].request)>>
    BY <1>3 DEF LO!SendResult
  <2>2. handler' \in [Handlers -> HandlerState]
    BY <2>1 DEF HandlerState
  <2>3. handler'[h].pc = "served" /\ handler'[h].request = handler[h].request
    BY <2>1 DEF HandlerState
  <2>4. Consented => Consented'
    BY <1>3, ServedRemains DEF LO!Next
  <2>5. QED
    BY <2>1, <2>2, <2>3, <2>4
<1>4. ASSUME NEW h \in Handlers, NEW request \in LO!Request, LO!Callback(h, request)
      PROVE  LoginInv'
  <2>1. /\ handler[h].pc = "none" /\ UNCHANGED <<way, login, resultCh, granted, outcome>>
        /\ handler' = [handler EXCEPT ![h] = [pc |-> "send", request |-> request]]
    BY <1>4 DEF LO!Callback
  <2>2. handler' \in [Handlers -> HandlerState]
    BY <2>1 DEF HandlerState
  <2>3. \A g \in Handlers : handler[g].pc = "served" => handler'[g] = handler[g]
    BY <2>1
  <2>4. ASSUME Consented PROVE Consented'
    <3>1. PICK g \in Handlers : handler[g] = [pc |-> "served", request |-> LO!Consent]
      BY <2>4 DEF Consented
    <3>2. handler[g].pc = "served"
      BY <3>1, ConsentIsServed
    <3>3. handler'[g] = [pc |-> "served", request |-> LO!Consent]
      BY <2>3, <3>1, <3>2
    <3>4. QED
      BY <3>3 DEF Consented
  <2>5. QED
    BY <2>1, <2>2, <2>3, <2>4
<1>5. CASE LO!LoginStep \/ LO!DeviceTimeout \/ LO!EnterCode
  <2>1. LO!Next /\ UNCHANGED handler /\ (UNCHANGED resultCh \/ resultCh' = <<>>)
    BY <1>5 DEF LO!Next, LO!LoginStep, LO!Listen, LO!TakeResult, LO!BrowserTimeout,
         LO!Exchange, LO!Shutdown, LO!RequestCode, LO!Poll, LO!PollEnds, LO!DeviceTimeout,
         LO!EnterCode
  <2>2. QED
    BY <1>2, <2>1
<1>6. QED
  BY <1>1, <1>3, <1>4, <1>5 DEF LO!Next

\* Whatever requests reach the callback, in any number and order, a login that gives a credential
\* was consented to by the user.
THEOREM LoginHadConsent == Spec => []SuccessNeedsConsent
<1>1. LoginInv => SuccessNeedsConsent
  BY DEF LoginInv, Consented, SuccessNeedsConsent, LO!SuccessNeedsConsent
<1>2. LoginInv /\ [Next]_vars => LoginInv'
  BY LoginKept, OneMoves
<1>3. QED
  BY <1>1, <1>2, LoginInit, PTL DEF Spec

-----------------------------------------------------------------------------
\* Migration

Todo == {"skip", "backup", "overwrite", "copy"}
RunState == [pc : {"idle", "confirm", "config", "files"}, force : BOOLEAN, config : BOOLEAN,
             plan : [Files -> Todo]]
ConfigFile == [state : {"absent", "broken", "whole"}, content : MI!Config]

MigrationTypes ==
    /\ source \in [Files -> MI!Content]
    /\ file \in [Paths -> MI!Content] /\ before \in [Paths -> MI!Content]
    /\ config \in ConfigFile /\ mine \in ConfigFile /\ clawConfig \in ConfigFile
    /\ run \in RunState /\ touched \subseteq Paths /\ runs \in 0 .. MaxRuns

\* Where the content is that a plan promised to keep, as long as the agent has not written the
\* file or its backup: the plan tells how far the run has come with it
Promised(f) ==
    before[f].by # "absent" /\ f \notin touched /\ BakOf[f] \notin touched /\ MI!Apart(f)
KeptSoFar(f) ==
    Promised(f) =>
      /\ run.plan[f] # "copy"
      /\ run.plan[f] = "backup" => file[f] = before[f]
      /\ run.plan[f] = "overwrite" => file[BakOf[f]] = before[f]
      /\ before[f] \in {file[f], file[BakOf[f]]}

\* Only what OpenClaw has is planned
SourcesPlanned == \A f \in Files : run.plan[f] # "skip" => source[f].by # "absent"

\* A configuration that there was is never absent again, and if it can be read it is still mine
StillMine(was, is) ==
    /\ \A p \in MI!ConfigProviders :
         was.providers[p].key # "" \/ p \notin MI!Migrated \/ (p = "vllm" /\ was.providers[p].base # "")
           => is.providers[p] = was.providers[p]
    /\ was.telegram.enabled => is.telegram = was.telegram
    /\ was.brave # "" => is.brave = was.brave
ConfigKept ==
    mine.state = "whole" =>
      /\ config.state # "absent"
      /\ config.state = "whole" => StillMine(mine.content, config.content)

MigrationInv ==
    MigrationTypes /\ SourcesPlanned /\ (\A f \in Files : KeptSoFar(f)) /\ ConfigKept

LEMMA Backups ==
    ASSUME NEW f \in Files
    PROVE  /\ f \in Paths /\ BakOf[f] \in Paths /\ BakOf[f] # f
           /\ \A g \in Files : BakOf[f] = BakOf[g] => f = g
BY ServicesAssumption

LEMMA HeldTyped ==
    /\ \A present : MI!Held(Files, present, "claw") \in [Files -> MI!Content]
    /\ \A present : MI!Held(Paths, present, "mine") \in [Paths -> MI!Content]
    /\ \A f \in Paths : MI!Held(Paths, {}, "mine")[f].by = "absent"
BY ServicesAssumption DEF MI!Held, MI!By, MI!Content

LEMMA ConfigFiles ==
    /\ MI!Absent \in ConfigFile /\ MI!Broken \in ConfigFile
    /\ \A c \in MI!Config : MI!Whole(c) \in ConfigFile
<1>1. MI!NoProvider \in MI!ProviderConfig
  BY DEF MI!NoProvider, MI!ProviderConfig, MI!Owner
<1>2. [p \in MI!ConfigProviders |-> MI!NoProvider] \in [MI!ConfigProviders -> MI!ProviderConfig]
  BY <1>1
<1>3. MI!DefaultConfig \in MI!Config
  BY <1>2 DEF MI!DefaultConfig, MI!Config, MI!Owner
<1>4. QED
  BY <1>3 DEF MI!Absent, MI!Broken, MI!Whole, ConfigFile

LEMMA NoRunIsRun == MI!NoRun \in RunState /\ \A f \in Files : MI!NoRun.plan[f] = "skip"
BY DEF MI!NoRun, RunState, Todo

LEMMA MigrationInit == Init => MigrationInv
<1>1. SUFFICES ASSUME MI!Init \/ NoMigration PROVE MigrationInv
  BY DEF Init
<1>2. run \in RunState /\ runs \in 0 .. MaxRuns /\ \A f \in Files : run.plan[f] = "skip"
  <2>1. run = MI!NoRun /\ runs = 0
    BY <1>1 DEF MI!Init, NoMigration
  <2>2. 0 \in 0 .. MaxRuns
    <3>1. MaxRuns \in Nat
      BY ServicesAssumption
    <3>2. QED
      BY <3>1
  <2>3. QED
    BY <2>1, <2>2, NoRunIsRun
<1>3. config \in ConfigFile /\ mine = config /\ clawConfig \in ConfigFile
  <2>1. MyConfigs \subseteq MI!Config /\ ClawConfigs \subseteq MI!Config
    BY ServicesAssumption
  <2>2. CASE MI!Init
    BY <2>1, <2>2, ConfigFiles DEF MI!Init
  <2>3. CASE NoMigration
    BY <2>3, ConfigFiles DEF NoMigration
  <2>4. QED
    BY <1>1, <2>2, <2>3
<1>4. /\ source \in [Files -> MI!Content] /\ file \in [Paths -> MI!Content]
      /\ before = file /\ touched = {}
  BY <1>1, HeldTyped DEF MI!Init, NoMigration
<1>5. MigrationTypes
  BY <1>2, <1>3, <1>4 DEF MigrationTypes
<1>6. SourcesPlanned /\ \A f \in Files : KeptSoFar(f)
  BY <1>2, <1>4 DEF KeptSoFar, SourcesPlanned
<1>7. ConfigKept
  BY <1>3 DEF ConfigKept, StillMine, ConfigFile
<1>8. QED
  BY <1>5, <1>6, <1>7 DEF MigrationInv

LEMMA ConvertTyped ==
    ASSUME NEW c \in MI!Config
    PROVE  MI!ConvertConfig(c) \in MI!Config
<1> DEFINE providers == [p \in MI!ConfigProviders |->
                          IF p \in MI!Migrated
                          THEN [MI!NoProvider EXCEPT !.key = c.providers[p].key,
                                                     !.base = c.providers[p].base]
                          ELSE MI!NoProvider]
<1>1. ASSUME NEW p \in MI!ConfigProviders PROVE providers[p] \in MI!ProviderConfig
  <2>1. c.providers[p].key \in MI!Owner /\ c.providers[p].base \in MI!Owner
    BY DEF MI!Config, MI!ProviderConfig
  <2>2. QED
    BY <2>1 DEF MI!NoProvider, MI!ProviderConfig, MI!Owner
<1>2. providers \in [MI!ConfigProviders -> MI!ProviderConfig]
  BY <1>1
<1> HIDE DEF providers
<1>3. [c EXCEPT !.providers = providers] \in MI!Config
  BY <1>2 DEF MI!Config
<1>4. QED
  BY <1>3 DEF MI!ConvertConfig, providers

LEMMA MergeTyped ==
    ASSUME NEW c \in MI!Config, NEW d \in MI!Config
    PROVE  MI!MergeConfig(c, d) \in MI!Config
<1> DEFINE providers == [p \in MI!ConfigProviders |->
                          IF MI!Fills(p, c.providers[p]) THEN d.providers[p] ELSE c.providers[p]]
<1>1. providers \in [MI!ConfigProviders -> MI!ProviderConfig]
  BY DEF MI!Config
<1> HIDE DEF providers
<1>2. QED
  BY <1>1 DEF MI!MergeConfig, MI!Config, providers

\* The merge keeps what is mine
LEMMA MergeKeepsMine ==
    ASSUME NEW was, NEW is \in MI!Config, NEW d \in MI!Config, StillMine(was, is)
    PROVE  StillMine(was, MI!MergeConfig(is, d))
<1> DEFINE merged == MI!MergeConfig(is, d)
<1>1. /\ \A p \in MI!ConfigProviders :
           merged.providers[p] = IF MI!Fills(p, is.providers[p]) THEN d.providers[p] ELSE is.providers[p]
      /\ merged.telegram = IF ~is.telegram.enabled /\ d.telegram.enabled
                           THEN d.telegram ELSE is.telegram
      /\ merged.brave = IF is.brave = "" THEN d.brave ELSE is.brave
  BY DEF MI!MergeConfig
<1> HIDE DEF merged
<1>2. ASSUME NEW p \in MI!ConfigProviders,
             was.providers[p].key # "" \/ p \notin MI!Migrated \/ (p = "vllm" /\ was.providers[p].base # "")
      PROVE  merged.providers[p] = was.providers[p]
  <2>1. is.providers[p] = was.providers[p]
    BY <1>2 DEF StillMine
  <2>2. ~MI!Fills(p, is.providers[p])
    BY <1>2, <2>1 DEF MI!Fills
  <2>3. QED
    BY <1>1, <2>1, <2>2
<1>3. was.telegram.enabled => merged.telegram = was.telegram
  BY <1>1 DEF StillMine
<1>4. was.brave # "" => merged.brave = was.brave
  BY <1>1 DEF StillMine
<1>5. QED
  BY <1>2, <1>3, <1>4 DEF StillMine, merged

\* Steps that only end the run, or go on to its next phase
LEMMA RunMoves ==
    ASSUME MigrationInv, run' \in RunState, runs' \in 0 .. MaxRuns,
           UNCHANGED MI!filesVars, UNCHANGED MI!configVars,
           \A f \in Files : run'.plan[f] \in {run.plan[f], "skip"}
    PROVE  MigrationInv'
<1>1. MigrationTypes' /\ SourcesPlanned'
  BY DEF MigrationInv, MigrationTypes, SourcesPlanned, MI!filesVars, MI!configVars
<1>2. ASSUME NEW f \in Files PROVE KeptSoFar(f)'
  <2>1. /\ KeptSoFar(f) /\ run'.plan[f] \in {run.plan[f], "skip"}
        /\ UNCHANGED <<source, file, before, touched>>
    BY DEF MigrationInv, MI!filesVars
  <2>2. QED
    BY <2>1 DEF KeptSoFar, Promised, MI!Apart
<1>3. ConfigKept'
  BY DEF MigrationInv, ConfigKept, MI!configVars
<1>4. QED
  BY <1>1, <1>2, <1>3 DEF MigrationInv

\* Steps on a file that OpenClaw has, which write it or its backup
LEMMA FileMoves ==
    ASSUME MigrationInv, NEW g \in Files, run.plan[g] # "skip", run' \in RunState,
           UNCHANGED <<runs, source, before, touched>>, UNCHANGED MI!configVars,
           file' \in [Paths -> MI!Content],
           \A p \in Paths \ {g, BakOf[g]} : file'[p] = file[p],
           \A f \in Files \ {g} : run'.plan[f] = run.plan[f],
           KeptSoFar(g)'
    PROVE  MigrationInv'
<1>1. MigrationTypes' /\ SourcesPlanned'
  BY DEF MigrationInv, MigrationTypes, SourcesPlanned, MI!configVars
<1>2. ASSUME NEW f \in Files \ {g} PROVE KeptSoFar(f)'
  <2>1. KeptSoFar(f) /\ run'.plan[f] = run.plan[f]
    BY DEF MigrationInv
  <2>2. CASE MI!Apart(f)
    <3>1. source[g].by # "absent"
      BY DEF MigrationInv, SourcesPlanned
    <3>2. BakOf[f] # g /\ BakOf[g] # f /\ BakOf[f] # BakOf[g]
      BY <2>2, <3>1, Backups DEF MI!Apart
    <3>3. file'[f] = file[f] /\ file'[BakOf[f]] = file[BakOf[f]]
      BY <3>2, Backups
    <3>4. QED
      BY <2>1, <3>3 DEF KeptSoFar, Promised, MI!Apart
  <2>3. QED
    BY <2>2 DEF KeptSoFar, Promised, MI!Apart
<1>3. ConfigKept'
  BY DEF MigrationInv, ConfigKept, MI!configVars
<1>4. QED
  BY <1>1, <1>2, <1>3 DEF MigrationInv

LEMMA Planned ==
    ASSUME MigrationInv, NEW o \in MI!Options, MI!Plan(o)
    PROVE  MigrationInv'
<1> DEFINE force == o.force \/ o.refresh
<1>1. /\ UNCHANGED <<source, file, MI!configVars>> /\ touched' = {}
      /\ before' = IF force THEN MI!Held(Paths, {}, "mine") ELSE file
      /\ runs < MaxRuns /\ runs' = runs + 1
  BY DEF MI!Plan
<1>2. \A f \in Files : run'.plan[f] = IF o.configOnly THEN "skip" ELSE MI!PlanFile(f, force)
  BY DEF MI!Plan
<1>3. run' \in RunState
  <2>1. \A f \in Files : (IF o.configOnly THEN "skip" ELSE MI!PlanFile(f, force)) \in Todo
    BY DEF MI!PlanFile, Todo
  <2>2. o.force \in BOOLEAN /\ force \in BOOLEAN
    BY DEF MI!Options
  <2>3. QED
    BY <2>1, <2>2 DEF MI!Plan, RunState
<1>4. MigrationTypes'
  <2>1. runs' \in 0 .. MaxRuns
    <3>1. runs \in 0 .. MaxRuns /\ MaxRuns \in Nat
      BY ServicesAssumption DEF MigrationInv, MigrationTypes
    <3>2. QED
      BY <1>1, <3>1
  <2>2. before' \in [Paths -> MI!Content]
    BY <1>1, HeldTyped DEF MigrationInv, MigrationTypes
  <2>3. QED
    BY <1>1, <1>3, <2>1, <2>2 DEF MigrationInv, MigrationTypes, MI!configVars
<1>5. ASSUME NEW f \in Files PROVE KeptSoFar(f)'
  <2>1. CASE force
    <3>1. before'[f].by = "absent"
      BY <1>1, <2>1, HeldTyped, Backups
    <3>2. QED
      BY <3>1 DEF KeptSoFar, Promised
  <2>2. CASE ~force
    <3>1. before'[f] = file[f] /\ file'[f] = file[f]
      BY <1>1, <2>2
    <3>2. file[f].by # "absent" => run'.plan[f] \in {"skip", "backup"}
      BY <1>2, <2>2 DEF MI!PlanFile
    <3>3. QED
      BY <3>1, <3>2 DEF KeptSoFar, Promised
  <2>3. QED
    BY <2>1, <2>2
<1>6. SourcesPlanned'
  BY <1>1, <1>2 DEF SourcesPlanned, MI!PlanFile
<1>7. ConfigKept'
  BY <1>1 DEF MigrationInv, ConfigKept, MI!configVars
<1>8. QED
  BY <1>4, <1>5, <1>6, <1>7 DEF MigrationInv

LEMMA ConfigExecuted ==
    ASSUME MigrationInv, MI!ExecuteConfig
    PROVE  MigrationInv'
<1> DEFINE incoming == MI!ConvertConfig(clawConfig.content)
           merged == IF config.state = "whole" THEN MI!MergeConfig(config.content, incoming)
                     ELSE incoming
<1>1. /\ run' = [run EXCEPT !.pc = "files"] /\ UNCHANGED <<runs, MI!filesVars, clawConfig, mine>>
      /\ config' = config \/ (config' \in {MI!Whole(merged), MI!Broken} /\ config.state # "broken")
  BY DEF MI!ExecuteConfig
<1>2. incoming \in MI!Config /\ config.content \in MI!Config /\ merged \in MI!Config
  <2>1. config.content \in MI!Config /\ clawConfig.content \in MI!Config
    BY DEF MigrationInv, MigrationTypes, ConfigFile
  <2>2. QED
    BY <2>1, ConvertTyped, MergeTyped
<1>3. config' \in ConfigFile
  BY <1>1, <1>2, ConfigFiles DEF MigrationInv, MigrationTypes
<1>4. run' \in RunState /\ run'.plan = run.plan
  BY <1>1 DEF MigrationInv, MigrationTypes, RunState
<1>5. MigrationTypes'
  BY <1>1, <1>3, <1>4 DEF MigrationInv, MigrationTypes, MI!filesVars
<1>6. SourcesPlanned' /\ \A f \in Files : KeptSoFar(f)'
  BY <1>1, <1>4 DEF MigrationInv, SourcesPlanned, KeptSoFar, Promised, MI!Apart, MI!filesVars
<1>7. ConfigKept'
  <2>1. SUFFICES ASSUME mine.state = "whole"
                 PROVE  /\ config'.state # "absent"
                        /\ config'.state = "whole" => StillMine(mine.content, config'.content)
    BY <1>1 DEF ConfigKept
  <2>2. config.state # "absent" /\ (config.state = "whole" => StillMine(mine.content, config.content))
    BY <2>1 DEF MigrationInv, ConfigKept
  <2>3. CASE config' = config
    BY <2>2, <2>3
  <2>4. CASE config' = MI!Broken
    BY <2>4 DEF MI!Broken
  <2>5. CASE config' = MI!Whole(merged) /\ config.state # "broken"
    <3>1. config.state = "whole"
      BY <2>2, <2>5 DEF MigrationInv, MigrationTypes, ConfigFile
    <3>2. StillMine(mine.content, merged)
      BY <1>2, <2>2, <3>1, MergeKeepsMine
    <3> HIDE DEF merged
    <3>3. config'.state = "whole" /\ config'.content = merged
      BY <2>5 DEF MI!Whole
    <3>4. QED
      BY <3>2, <3>3
  <2>6. QED
    BY <1>1, <2>3, <2>4, <2>5
<1>8. QED
  BY <1>5, <1>6, <1>7 DEF MigrationInv

LEMMA FileDone ==
    ASSUME MigrationInv, NEW f \in Files, MI!Backup(f) \/ MI!Copy(f)
    PROVE  MigrationInv'
<1> USE DEF MigrationInv, MigrationTypes
<1>1. /\ KeptSoFar(f) /\ run.plan \in [Files -> Todo] /\ source[f] \in MI!Content
      /\ f \in Paths /\ BakOf[f] \in Paths /\ BakOf[f] # f
  BY Backups DEF RunState
<1>2. ASSUME NEW todo \in Todo
      PROVE  [run EXCEPT !.plan[f] = todo] \in RunState
  BY DEF RunState
<1>3. \A p \in Paths : MI!By("part", p) \in MI!Content
  BY DEF MI!By, MI!Content
<1>4. CASE MI!Backup(f)
  <2>1. PICK content \in MI!Content, todo \in Todo :
          /\ file' = [file EXCEPT ![BakOf[f]] = content]
          /\ run' = [run EXCEPT !.plan[f] = todo]
          /\ todo = "skip" \/ (todo = "overwrite" /\ content = file[f])
    <3>1. file[BakOf[f]] \in MI!Content /\ file[f] \in MI!Content
      BY <1>1
    <3>2. file = [file EXCEPT ![BakOf[f]] = file[BakOf[f]]]
      BY <1>1
    <3>3. QED
      BY <1>1, <1>3, <1>4, <3>1, <3>2 DEF MI!Backup, MI!Failed, MI!Written, Todo
  <2>2. run.plan[f] = "backup" /\ UNCHANGED <<runs, source, before, touched, MI!configVars>>
    BY <1>4 DEF MI!Backup
  <2>3. /\ run' \in RunState /\ file' \in [Paths -> MI!Content]
        /\ run'.plan = [run.plan EXCEPT ![f] = todo]
    BY <1>2, <2>1 DEF RunState
  <2>4. /\ file'[f] = file[f] /\ file'[BakOf[f]] = content /\ run'.plan[f] = todo
        /\ \A p \in Paths \ {f, BakOf[f]} : file'[p] = file[p]
        /\ \A g \in Files \ {f} : run'.plan[g] = run.plan[g]
    BY <1>1, <2>1, <2>3
  <2>5. KeptSoFar(f)'
    BY <1>1, <2>1, <2>2, <2>4 DEF KeptSoFar, Promised, MI!Apart
  <2>6. QED
    BY <2>2, <2>3, <2>4, <2>5, FileMoves
<1>5. CASE MI!Copy(f)
  <2>1. PICK content \in MI!Content : file' = [file EXCEPT ![f] = content]
    <3>1. file[f] \in MI!Content /\ file = [file EXCEPT ![f] = file[f]]
      BY <1>1
    <3>2. QED
      BY <1>1, <1>3, <1>5, <3>1 DEF MI!Copy, MI!Failed, MI!Written
  <2>2. /\ run.plan[f] \in {"copy", "overwrite"} /\ run' = [run EXCEPT !.plan[f] = "skip"]
        /\ UNCHANGED <<runs, source, before, touched, MI!configVars>>
    BY <1>5 DEF MI!Copy
  <2>3. /\ run' \in RunState /\ file' \in [Paths -> MI!Content]
        /\ run'.plan = [run.plan EXCEPT ![f] = "skip"]
    BY <1>2, <2>1, <2>2 DEF RunState, Todo
  <2>4. /\ file'[BakOf[f]] = file[BakOf[f]] /\ run'.plan[f] = "skip"
        /\ \A p \in Paths \ {f, BakOf[f]} : file'[p] = file[p]
        /\ \A g \in Files \ {f} : run'.plan[g] = run.plan[g]
    BY <1>1, <2>1, <2>3
  <2>5. KeptSoFar(f)'
    BY <1>1, <2>2, <2>4 DEF KeptSoFar, Promised, MI!Apart
  <2>6. QED
    BY <2>2, <2>3, <2>4, <2>5, FileMoves
<1>6. QED
  BY <1>4, <1>5

LEMMA AgentWrote ==
    ASSUME MigrationInv, NEW p \in Paths, MI!AgentWrites(p)
    PROVE  MigrationInv'
<1>1. /\ file' = [file EXCEPT ![p] = MI!By("agent", p)] /\ touched' = touched \cup {p}
      /\ UNCHANGED <<run, runs, source, before, MI!configVars>>
  BY DEF MI!AgentWrites, MI!Written
<1>2. MI!By("agent", p) \in MI!Content
  BY DEF MI!By, MI!Content
<1>3. MigrationTypes' /\ SourcesPlanned' /\ ConfigKept'
  BY <1>1, <1>2 DEF MigrationInv, MigrationTypes, SourcesPlanned, ConfigKept, MI!configVars
<1>4. ASSUME NEW f \in Files PROVE KeptSoFar(f)'
  <2>1. SUFFICES ASSUME Promised(f)' PROVE KeptSoFar(f)'
    BY DEF KeptSoFar
  <2>2. Promised(f) /\ f # p /\ BakOf[f] # p
    BY <1>1, <2>1 DEF Promised, MI!Apart
  <2>3. file'[f] = file[f] /\ file'[BakOf[f]] = file[BakOf[f]]
    BY <1>1, <2>2, Backups DEF MigrationInv, MigrationTypes
  <2>4. KeptSoFar(f)
    BY DEF MigrationInv
  <2>5. QED
    BY <1>1, <2>2, <2>3, <2>4 DEF KeptSoFar
<1>5. QED
  BY <1>3, <1>4 DEF MigrationInv

LEMMA Configured ==
    ASSUME MigrationInv, NEW c \in MyConfigs, MI!Configure(c)
    PROVE  MigrationInv'
<1>1. /\ config' = MI!Whole(c) /\ mine' = config' /\ UNCHANGED clawConfig
      /\ UNCHANGED <<run, runs, MI!filesVars>>
  BY DEF MI!Configure
<1>2. MI!Whole(c) \in ConfigFile
  BY ServicesAssumption, ConfigFiles
<1>3. MigrationTypes' /\ SourcesPlanned'
  BY <1>1, <1>2 DEF MigrationInv, MigrationTypes, SourcesPlanned, MI!filesVars
<1>4. \A f \in Files : KeptSoFar(f)'
  BY <1>1 DEF MigrationInv, KeptSoFar, Promised, MI!Apart, MI!filesVars
<1>5. ConfigKept'
  <2>1. config'.state = "whole"
    BY <1>1 DEF MI!Whole
  <2>2. QED
    BY <1>1, <2>1 DEF ConfigKept, StillMine
<1>6. QED
  BY <1>3, <1>4, <1>5 DEF MigrationInv

LEMMA MigrationKept == MigrationInv /\ [MI!Next]_migrationVars => MigrationInv'
<1> SUFFICES ASSUME MigrationInv, [MI!Next]_migrationVars PROVE MigrationInv'
  OBVIOUS
<1>1. run \in RunState /\ runs \in 0 .. MaxRuns
  BY DEF MigrationInv, MigrationTypes
<1>2. CASE UNCHANGED migrationVars
  BY <1>1, <1>2, RunMoves DEF migrationVars, MI!filesVars, MI!configVars
<1>3. CASE MI!EndRun \/ MI!Crash
  BY <1>1, <1>3, NoRunIsRun, RunMoves DEF MI!EndRun, MI!Crash
<1>4. ASSUME NEW yes \in BOOLEAN, MI!Confirm(yes) PROVE MigrationInv'
  <2>1. [run EXCEPT !.pc = "config"] \in RunState /\ [run EXCEPT !.pc = "config"].plan = run.plan
    BY <1>1 DEF RunState
  <2>2. QED
    BY <1>1, <1>4, <2>1, NoRunIsRun, RunMoves DEF MI!Confirm
<1>5. QED
  BY <1>2, <1>3, <1>4, Planned, ConfigExecuted, FileDone, AgentWrote, Configured DEF MI!Next

\* However often migrations run, fail and are killed, and whatever the agent writes meanwhile: a
\* file that a plan found, and that it should back up, is in its place or in its backup, if the
\* agent wrote neither and OpenClaw has no file that takes the path of one of the two.
THEOREM MigrationKeepsFiles == Spec => []KeptOrBackedUp
<1>1. MigrationInv => KeptOrBackedUp
  BY DEF MigrationInv, KeptSoFar, Promised, KeptOrBackedUp, MI!KeptOrBackedUp
<1>2. MigrationInv /\ [Next]_vars => MigrationInv'
  BY MigrationKept, OneMoves
<1>3. QED
  BY <1>1, <1>2, MigrationInit, PTL DEF Spec

\* Whatever the user configures, and however often migrations run: a provider that has a key or
\* is not migrated, an enabled channel and the key of the search stay as the user left them.
THEOREM MigrationKeepsConfig == Spec => []ConfigKeepsMine
<1>1. MigrationInv => ConfigKeepsMine
  BY DEF MigrationInv, ConfigKept, StillMine, ConfigKeepsMine, MI!ConfigKeepsMine
<1>2. MigrationInv /\ [Next]_vars => MigrationInv'
  BY MigrationKept, OneMoves
<1>3. QED
  BY <1>1, <1>2, MigrationInit, PTL DEF Spec

-----------------------------------------------------------------------------
\* To-do lists

KnownTodo == [status : Statuses \cup {"pending", "torn"}, priority : Priorities \cup {"medium"}]
ListCall == [pc : {"idle", "format"}, items : SUBSET Ids, own : SUBSET Ids, shown : SUBSET Ids]

\* Each id that was given is under one key; what a list has taken is what is its chat's
TodoInv ==
    /\ DOMAIN item \subseteq Ids /\ item \in [DOMAIN item -> KnownTodo]
    /\ \A k \in todos : \E c \in Chats, id \in DOMAIN item : k = TL!Key(c, id)
    /\ \A k1, k2 \in todos : TL!IdOf(k1) = TL!IdOf(k2) => TL!ChatOf(k1) = TL!ChatOf(k2)
    /\ writing = <<>> \/ \E id \in DOMAIN item, status \in Statuses : writing = <<id, status>>
    /\ list \in [Lists -> ListCall]
    /\ \A l \in Lists :
         /\ list[l].items \cup list[l].own \cup list[l].shown \subseteq DOMAIN item
         /\ list[l].pc = "format" => list[l].items = list[l].own

\* Of a key: the chat, the colon, the id
LEMMA KeyIs ==
    ASSUME NEW c \in Seq(Characters), NEW id
    PROVE  LET k == TL!Key(c, id)
               S == Characters \cup {":", id} IN
           /\ k \in Seq(S) /\ Len(k) = Len(c) + 2 /\ Len(c) \in Nat
           /\ \A i \in 1 .. Len(c) : k[i] = c[i]
           /\ k[Len(c) + 1] = ":" /\ k[Len(c) + 2] = id
<1> DEFINE S == Characters \cup {":", id}
           end == <<":", id>>
<1>1. c \in Seq(S) /\ Len(c) \in Nat
  BY LenProperties
<1>2. end \in Seq(S) /\ Len(end) = 2 /\ end[1] = ":" /\ end[2] = id
  OBVIOUS
<1> HIDE DEF S, end
<1>3. /\ c \o end \in Seq(S) /\ Len(c \o end) = Len(c) + 2
      /\ \A i \in 1 .. Len(c) + 2 : (c \o end)[i] = IF i <= Len(c) THEN c[i] ELSE end[i - Len(c)]
  <2>1. /\ c \o end \in Seq(S) /\ Len(c \o end) = Len(c) + Len(end)
        /\ \A i \in 1 .. Len(c) + Len(end) :
             (c \o end)[i] = IF i <= Len(c) THEN c[i] ELSE end[i - Len(c)]
    BY <1>1, <1>2, ConcatProperties
  <2>2. QED
    BY <1>2, <2>1
<1>4. (c \o end)[Len(c) + 1] = ":" /\ (c \o end)[Len(c) + 2] = id
  <2>1. /\ Len(c) + 1 \in 1 .. Len(c) + 2 /\ ~(Len(c) + 1 <= Len(c)) /\ (Len(c) + 1) - Len(c) = 1
        /\ Len(c) + 2 \in 1 .. Len(c) + 2 /\ ~(Len(c) + 2 <= Len(c)) /\ (Len(c) + 2) - Len(c) = 2
    BY <1>1
  <2>2. QED
    BY <1>2, <1>3, <2>1
<1>5. \A i \in 1 .. Len(c) : (c \o end)[i] = c[i]
  BY <1>1, <1>3
<1>6. QED
  BY <1>1, <1>3, <1>4, <1>5 DEF TL!Key, S, end

LEMMA KeyParts ==
    ASSUME NEW c \in Seq(Characters), NEW id
    PROVE  TL!IdOf(TL!Key(c, id)) = id /\ TL!ChatOf(TL!Key(c, id)) = c
<1> DEFINE k == TL!Key(c, id)
           S == Characters \cup {":", id}
           n == Len(c)
<1>1. /\ k \in Seq(S) /\ Len(k) = n + 2 /\ n \in Nat
      /\ \A i \in 1 .. n : k[i] = c[i]
      /\ k[n + 2] = id
  BY KeyIs
<1>2. c \in Seq(S) /\ \A i \in 1 .. n : c[i] \in S
  BY ElementOfSeq
<1> HIDE DEF k, S, n
<1>3. TL!IdOf(k) = id
  BY <1>1 DEF TL!IdOf, TL!Last
<1>4. /\ SubSeq(k, 1, n) \in Seq(S) /\ Len(SubSeq(k, 1, n)) = n
      /\ \A i \in 1 .. n : SubSeq(k, 1, n)[i] = k[i]
  <2>1. \A i \in 1 .. n : k[i] \in S
    BY <1>1, <1>2
  <2>2. 1 \in Int /\ n \in Int /\ n - 1 + 1 = n /\ (IF 1 <= n THEN n - 1 + 1 ELSE 0) = n
        /\ \A i \in 1 .. n : 1 + i - 1 = i
    BY <1>1
  <2>3. /\ SubSeq(k, 1, n) \in Seq(S)
        /\ Len(SubSeq(k, 1, n)) = IF 1 <= n THEN n - 1 + 1 ELSE 0
        /\ \A i \in 1 .. n - 1 + 1 : SubSeq(k, 1, n)[i] = k[1 + i - 1]
    BY <2>1, <2>2, SubSeqProperties
  <2>4. QED
    BY <2>2, <2>3
<1>5. SubSeq(k, 1, n) = c
  <2>1. Len(c) = n
    BY DEF n
  <2>2. \A i \in 1 .. n : SubSeq(k, 1, n)[i] = c[i]
    BY <1>1, <1>4
  <2>3. QED
    BY <1>2, <1>4, <2>1, <2>2, SeqEqual
<1>6. Len(k) - 2 = n
  BY <1>1
<1>7. QED
  BY <1>3, <1>5, <1>6 DEF TL!ChatOf, k

LEMMA PrefixIs ==
    ASSUME NEW S, NEW s \in Seq(S), NEW t \in Seq(S)
    PROVE  TL!IsPrefix(s, t) <=> Len(s) <= Len(t) /\ \A i \in 1 .. Len(s) : s[i] = t[i]
<1>1. SUFFICES ASSUME Len(s) <= Len(t)
               PROVE  SubSeq(s, 1, Len(s)) = SubSeq(t, 1, Len(s))
                        <=> \A i \in 1 .. Len(s) : s[i] = t[i]
  BY DEF TL!IsPrefix
<1> DEFINE n == Len(s)
<1>2. n \in Nat /\ Len(t) \in Nat
  BY LenProperties
<1>3. ASSUME NEW q \in Seq(S), n <= Len(q)
      PROVE  /\ SubSeq(q, 1, n) \in Seq(S) /\ Len(SubSeq(q, 1, n)) = n
             /\ \A i \in 1 .. n : SubSeq(q, 1, n)[i] = q[i]
  <2>1. \A i \in 1 .. n : q[i] \in S
    <3>1. \A i \in 1 .. n : i \in 1 .. Len(q)
      <4>1. Len(q) \in Nat
        BY LenProperties
      <4>2. QED
        BY <1>2, <1>3, <4>1
    <3>2. QED
      BY <3>1, ElementOfSeq
  <2>2. /\ 1 \in Int /\ n \in Int /\ n - 1 + 1 = n /\ (IF 1 <= n THEN n - 1 + 1 ELSE 0) = n
        /\ \A i \in 1 .. n : 1 + i - 1 = i
    BY <1>2
  <2>3. /\ SubSeq(q, 1, n) \in Seq(S)
        /\ Len(SubSeq(q, 1, n)) = IF 1 <= n THEN n - 1 + 1 ELSE 0
        /\ \A i \in 1 .. n - 1 + 1 : SubSeq(q, 1, n)[i] = q[1 + i - 1]
    BY <2>1, <2>2, SubSeqProperties
  <2>4. QED
    BY <2>2, <2>3
<1> DEFINE x == SubSeq(s, 1, n)
           y == SubSeq(t, 1, n)
<1>4. /\ x \in Seq(S) /\ Len(x) = n /\ \A i \in 1 .. n : x[i] = s[i]
      /\ y \in Seq(S) /\ Len(y) = n /\ \A i \in 1 .. n : y[i] = t[i]
  <2>1. n <= Len(s) /\ n <= Len(t)
    BY <1>1, <1>2
  <2>2. QED
    BY <1>3, <2>1
<1> HIDE DEF x, y
<1>5. x = y <=> \A i \in 1 .. n : s[i] = t[i]
  <2>1. ASSUME \A i \in 1 .. n : s[i] = t[i] PROVE x = y
    <3>1. \A i \in 1 .. Len(x) : x[i] = y[i]
      BY <1>4, <2>1
    <3>2. QED
      BY <1>4, <3>1, SeqEqual
  <2>2. QED
    BY <1>4, <2>1
<1>6. QED
  BY <1>5 DEF x, y

\* A chat with its colon is the beginning of a key exactly if it is the key's chat, also when
\* one chat's name begins with another's: what follows the chat in a key is the colon
LEMMA PrefixIsChat ==
    ASSUME NEW c \in Seq(Characters), NEW d \in Seq(Characters), NEW id,
           ~TL!IsPrefix(Append(c, ":"), d)
    PROVE  TL!IsStrictPrefix(Append(c, ":"), TL!Key(d, id)) <=> d = c
<1> DEFINE k == TL!Key(d, id)
           p == Append(c, ":")
           S == Characters \cup {":", id}
           n == Len(c)
           m == Len(d)
<1>1. /\ k \in Seq(S) /\ Len(k) = m + 2 /\ m \in Nat
      /\ \A i \in 1 .. m : k[i] = d[i]
      /\ k[m + 1] = ":"
  BY KeyIs
<1>2. c \in Seq(S) /\ d \in Seq(S) /\ n \in Nat /\ ":" \in S
  BY LenProperties
<1>3. p \in Seq(S) /\ Len(p) = n + 1 /\ p[n + 1] = ":" /\ \A i \in 1 .. n : p[i] = c[i]
  BY <1>2, AppendProperties
<1>4. ~TL!IsPrefix(p, d) /\ Len(d) = m
  OBVIOUS
<1> HIDE DEF k, p, S, n, m
<1>5. TL!IsStrictPrefix(p, k) <=> n + 1 <= m + 2 /\ (\A i \in 1 .. n + 1 : p[i] = k[i]) /\ p # k
  <2>1. TL!IsPrefix(p, k) <=> Len(p) <= Len(k) /\ \A i \in 1 .. Len(p) : p[i] = k[i]
    <3>1. p \in Seq(S) /\ k \in Seq(S)
      BY <1>1, <1>3
    <3>2. QED
      BY <3>1, PrefixIs, Zenon
  <2>2. TL!IsPrefix(p, k) <=> n + 1 <= m + 2 /\ \A i \in 1 .. n + 1 : p[i] = k[i]
    BY <1>1, <1>3, <2>1
  <2>3. QED
    BY <2>2 DEF TL!IsStrictPrefix
<1>6. ASSUME TL!IsStrictPrefix(p, k) PROVE d = c
  <2>1. n + 1 <= m + 2 /\ (\A i \in 1 .. n + 1 : p[i] = k[i]) /\ p # k
    BY <1>5, <1>6
  <2>2. ~(n < m)
    <3>1. SUFFICES ASSUME n < m PROVE FALSE
      OBVIOUS
    <3>2. n + 1 <= m /\ \A i \in 1 .. n + 1 : i \in 1 .. m
      BY <1>1, <1>2, <3>1
    <3>3. \A i \in 1 .. n + 1 : p[i] = d[i]
      BY <1>1, <2>1, <3>2
    <3>4. Len(p) <= Len(d) /\ \A i \in 1 .. Len(p) : p[i] = d[i]
      BY <1>3, <1>4, <3>2, <3>3
    <3>5. QED
      BY <1>2, <1>3, <1>4, <3>4, PrefixIs
  <2>3. ~(n = m + 1)
    <3>1. SUFFICES ASSUME n = m + 1 PROVE FALSE
      OBVIOUS
    <3>2. Len(p) = Len(k) /\ \A i \in 1 .. Len(p) : p[i] = k[i]
      BY <1>1, <1>3, <2>1, <3>1
    <3>3. QED
      BY <1>1, <1>3, <2>1, <3>2, SeqEqual
  <2>4. n = m
    BY <1>1, <1>2, <2>1, <2>2, <2>3
  <2>5. \A i \in 1 .. n : d[i] = c[i]
    <3>1. ASSUME NEW i \in 1 .. n PROVE i \in 1 .. n + 1 /\ i \in 1 .. m
      BY <1>2, <2>4
    <3>2. QED
      BY <1>1, <1>3, <2>1, <3>1
  <2>6. Len(d) = Len(c) /\ \A i \in 1 .. Len(d) : d[i] = c[i]
    BY <2>4, <2>5 DEF n, m
  <2>7. QED
    BY <2>6, SeqEqual
<1>7. ASSUME d = c PROVE TL!IsStrictPrefix(p, k)
  <2>1. m = n
    BY <1>7 DEF n, m
  <2>2. ASSUME NEW i \in 1 .. n + 1 PROVE p[i] = k[i]
    <3>1. i \in 1 .. n \/ i = n + 1
      BY <1>2
    <3>2. QED
      BY <1>1, <1>3, <1>7, <2>1, <3>1
  <2>3. n + 1 <= m + 2 /\ p # k
    BY <1>1, <1>2, <1>3, <2>1
  <2>4. QED
    BY <1>5, <2>2, <2>3
<1>8. QED
  BY <1>6, <1>7 DEF k, p

\* The keys of todos, told apart by their ids
LEMMA KeysOfTodos ==
    ASSUME TodoInv
    PROVE  /\ Chats \subseteq Seq(Characters)
           /\ \A k \in todos : /\ TL!ChatOf(k) \in Chats /\ TL!IdOf(k) \in DOMAIN item
                               /\ k = TL!Key(TL!ChatOf(k), TL!IdOf(k))
           /\ \A k1, k2 \in todos : TL!IdOf(k1) = TL!IdOf(k2) => k1 = k2
           /\ \A c \in Chats : TL!Matching(c) = {k \in todos : TL!ChatOf(k) = c}
<1>1. Chats \subseteq Seq(Characters) /\ \A c, d \in Chats : ~TL!IsPrefix(Append(c, ":"), d)
  BY ServicesAssumption
<1>2. ASSUME NEW k \in todos
      PROVE  /\ TL!ChatOf(k) \in Chats /\ TL!IdOf(k) \in DOMAIN item
             /\ k = TL!Key(TL!ChatOf(k), TL!IdOf(k))
  <2>1. PICK c \in Chats, id \in DOMAIN item : k = TL!Key(c, id)
    BY DEF TodoInv
  <2>2. TL!IdOf(k) = id /\ TL!ChatOf(k) = c
    BY <1>1, <2>1, KeyParts
  <2>3. QED
    BY <2>1, <2>2
<1>3. ASSUME NEW k1 \in todos, NEW k2 \in todos, TL!IdOf(k1) = TL!IdOf(k2) PROVE k1 = k2
  <2>1. TL!ChatOf(k1) = TL!ChatOf(k2)
    BY <1>3 DEF TodoInv
  <2>2. QED
    BY <1>2, <1>3, <2>1
<1>4. ASSUME NEW c \in Chats PROVE TL!Matching(c) = {k \in todos : TL!ChatOf(k) = c}
  <2>1. ASSUME NEW k \in todos PROVE TL!IsStrictPrefix(Append(c, ":"), k) <=> TL!ChatOf(k) = c
    BY <1>1, <1>2, PrefixIsChat
  <2>2. QED
    BY <2>1 DEF TL!Matching
<1>5. QED
  BY <1>1, <1>2, <1>3, <1>4

LEMMA TodoInit == Init => TodoInv
<1>1. SUFFICES ASSUME TL!Init PROVE TodoInv
  BY DEF Init
<1>2. DOMAIN item = {} /\ item \in [DOMAIN item -> KnownTodo]
  BY <1>1 DEF TL!Init
<1>3. list \in [Lists -> ListCall] /\ \A l \in Lists : list[l] = TL!IdleList
  BY <1>1 DEF TL!Init, TL!IdleList, ListCall
<1>4. QED
  BY <1>1, <1>2, <1>3 DEF TodoInv, TL!Init, TL!IdleList

\* Changes of one to-do's status
LEMMA ItemWritten ==
    ASSUME TodoInv, NEW id \in DOMAIN item, NEW status \in Statuses \cup {"pending", "torn"},
           item' = [item EXCEPT ![id].status = status], UNCHANGED <<todos, list>>,
           writing' = <<>> \/ \E s \in Statuses : writing' = <<id, s>>
    PROVE  /\ TodoInv' /\ DOMAIN item' = DOMAIN item
           /\ \A i \in DOMAIN item \ {id} : item'[i] = item[i]
<1>1. item[id] \in KnownTodo
  BY DEF TodoInv
<1>2. [item[id] EXCEPT !.status = status] \in KnownTodo
  BY <1>1 DEF KnownTodo
<1>3. item' = [item EXCEPT ![id] = [item[id] EXCEPT !.status = status]]
  OBVIOUS
<1>4. /\ DOMAIN item' = DOMAIN item /\ item' \in [DOMAIN item -> KnownTodo]
      /\ \A i \in DOMAIN item \ {id} : item'[i] = item[i]
  BY <1>2, <1>3 DEF TodoInv
<1>5. TodoInv'
  BY <1>4 DEF TodoInv
<1>6. QED
  BY <1>4, <1>5

\* What a step does to the to-dos: the keys it touches have one chat, and no list that is being
\* formatted is lost
OneChatTouched == \A k1, k2 \in TL!Touched : TL!ChatOf(k1) = TL!ChatOf(k2)
ShowsOwn ==
    \A l \in Lists : list[l].pc = "format" /\ list'[l].pc = "idle" =>
      list'[l].shown = {id \in list[l].own : TL!Shows(id)}

\* It touches one key only, or none
LEMMA TouchesOne ==
    ASSUME TodoInv, NEW id, DOMAIN item \subseteq DOMAIN item',
           \A i \in DOMAIN item \ {id} : item'[i] = item[i],
           \A k \in (todos \ todos') \cup (todos' \ todos) : TL!IdOf(k) = id,
           \A k1, k2 \in todos \cup todos' : TL!IdOf(k1) = TL!IdOf(k2) => TL!ChatOf(k1) = TL!ChatOf(k2)
    PROVE  OneChatTouched
<1>1. ASSUME NEW k \in TL!Touched PROVE TL!IdOf(k) = id /\ k \in todos \cup todos'
  <2>1. CASE k \in (todos \ todos') \cup (todos' \ todos)
    BY <2>1
  <2>2. CASE k \in todos /\ item'[TL!IdOf(k)] # item[TL!IdOf(k)]
    BY <2>2, KeysOfTodos
  <2>3. QED
    BY <2>1, <2>2 DEF TL!Touched
<1>2. QED
  BY <1>1 DEF OneChatTouched

LEMMA ListsRest ==
    ASSUME TodoInv, UNCHANGED list
    PROVE  ShowsOwn
BY DEF ShowsOwn, TodoInv, ListCall

LEMMA TodoCreated ==
    ASSUME TodoInv, NEW c \in Chats, NEW id \in Ids, NEW priority \in Priorities,
           TL!CreateTodo(c, id, priority)
    PROVE  TodoInv' /\ OneChatTouched
<1> DEFINE new == [status |-> "pending", priority |-> IF priority = "" THEN "medium" ELSE priority]
           k == TL!Key(c, id)
<1>1. /\ id \notin DOMAIN item /\ todos' = todos \cup {k} /\ UNCHANGED <<writing, list>>
      /\ item' = [i \in DOMAIN item \cup {id} |-> IF i # id THEN item[i] ELSE new]
  BY DEF TL!CreateTodo
<1>2. TL!IdOf(k) = id /\ TL!ChatOf(k) = c
  BY KeysOfTodos, KeyParts
<1>3. new \in KnownTodo
  BY DEF KnownTodo
<1> HIDE DEF new
<1>4. /\ DOMAIN item' = DOMAIN item \cup {id} /\ DOMAIN item' \subseteq Ids
      /\ item' \in [DOMAIN item' -> KnownTodo] /\ \A i \in DOMAIN item : item'[i] = item[i]
  BY <1>1, <1>3 DEF TodoInv
<1>5. \A k1 \in todos' : \E d \in Chats, i \in DOMAIN item' : k1 = TL!Key(d, i)
  BY <1>1, <1>4 DEF TodoInv
<1> HIDE DEF k
<1>6. \A k1, k2 \in todos' : TL!IdOf(k1) = TL!IdOf(k2) => TL!ChatOf(k1) = TL!ChatOf(k2)
  <2>1. \A k1 \in todos : TL!IdOf(k1) # id
    BY <1>1, KeysOfTodos
  <2>2. \A k1, k2 \in todos : TL!IdOf(k1) = TL!IdOf(k2) => TL!ChatOf(k1) = TL!ChatOf(k2)
    BY DEF TodoInv
  <2>3. QED
    BY <1>1, <1>2, <2>1, <2>2
<1>7. TodoInv'
  BY <1>1, <1>4, <1>5, <1>6 DEF TodoInv
<1>8. OneChatTouched
  <2>1. todos \cup todos' = todos' /\ \A q \in (todos \ todos') \cup (todos' \ todos) : q = k
    BY <1>1
  <2>2. QED
    BY <1>2, <1>4, <1>6, <2>1, TouchesOne
<1>9. QED
  BY <1>7, <1>8

LEMMA TodoWritten ==
    ASSUME TodoInv,
           \/ \E c \in Chats, id \in Ids, status \in Statuses : TL!UpdateTodo(c, id, status)
           \/ TL!StatusWritten
    PROVE  TodoInv' /\ OneChatTouched
<1>1. PICK id \in DOMAIN item, status \in Statuses \cup {"pending", "torn"} :
        /\ item' = [item EXCEPT ![id].status = status] /\ UNCHANGED <<todos, list>>
        /\ writing' = <<>> \/ \E s \in Statuses : writing' = <<id, s>>
  <2>1. CASE TL!StatusWritten
    <3>1. PICK id \in DOMAIN item, status \in Statuses : writing = <<id, status>>
      BY <2>1 DEF TodoInv, TL!StatusWritten, TL!Unlocked
    <3>2. writing[1] = id /\ writing[2] = status
      BY <3>1
    <3>3. item' = [item EXCEPT ![id].status = status] /\ writing' = <<>> /\ UNCHANGED <<todos, list>>
      BY <2>1, <3>2 DEF TL!StatusWritten
    <3>4. QED
      BY <3>3
  <2>2. CASE \E c \in Chats, id \in Ids, status \in Statuses : TL!UpdateTodo(c, id, status)
    <3>1. PICK c \in Chats, id \in Ids, status \in Statuses : TL!UpdateTodo(c, id, status)
      BY <2>2
    <3>2. TL!Key(c, id) \in todos /\ writing' = <<id, status>> /\ UNCHANGED <<todos, list>>
          /\ item' = [item EXCEPT ![id].status = "torn"]
      BY <3>1 DEF TL!UpdateTodo
    <3>3. TL!IdOf(TL!Key(c, id)) = id
      BY KeysOfTodos, KeyParts
    <3>4. id \in DOMAIN item
      BY <3>2, <3>3, KeysOfTodos
    <3>5. QED
      BY <3>2, <3>4
  <2>3. QED
    BY <2>1, <2>2
<1>2. /\ TodoInv' /\ DOMAIN item' = DOMAIN item
      /\ \A i \in DOMAIN item \ {id} : item'[i] = item[i]
  BY <1>1, ItemWritten
<1>3. OneChatTouched
  <2>1. todos' = todos /\ (todos \ todos') \cup (todos' \ todos) = {} /\ todos \cup todos' = todos
    BY <1>1
  <2>2. \A k1, k2 \in todos : TL!IdOf(k1) = TL!IdOf(k2) => TL!ChatOf(k1) = TL!ChatOf(k2)
    BY DEF TodoInv
  <2>3. QED
    BY <1>2, <2>1, <2>2, TouchesOne
<1>4. QED
  BY <1>2, <1>3

\* Keys are taken away
LEMMA TodoRemoved ==
    ASSUME TodoInv, NEW c \in Chats, UNCHANGED <<item, writing, list>>, NEW S, todos' = todos \ S,
           \A k \in S \cap todos : TL!ChatOf(k) = c
    PROVE  TodoInv' /\ OneChatTouched
<1>1. TodoInv'
  BY DEF TodoInv
<1>2. ASSUME NEW k \in TL!Touched PROVE k \in S \cap todos
  BY DEF TL!Touched
<1>3. QED
  BY <1>1, <1>2 DEF OneChatTouched

LEMMA TodoListed ==
    ASSUME TodoInv, NEW l \in Lists, NEW c \in Chats, NEW filter \in Statuses,
           TL!ListTodos(l, c, filter)
    PROVE  TodoInv' /\ OneChatTouched /\ ShowsOwn
<1> DEFINE items == {TL!IdOf(k) : k \in {q \in TL!Matching(c) : TL!Passes(q, filter)}}
           own == {TL!IdOf(k) : k \in {q \in todos : TL!ChatOf(q) = c /\ TL!Passes(q, filter)}}
           call == [pc |-> "format", shown |-> {}, items |-> items, own |-> own]
<1>1. list[l].pc = "idle" /\ list' = [list EXCEPT ![l] = call] /\ UNCHANGED <<todos, item, writing>>
  BY DEF TL!ListTodos
<1>2. items = own
  BY KeysOfTodos
<1>3. own \subseteq DOMAIN item /\ DOMAIN item \subseteq Ids
  BY KeysOfTodos DEF TodoInv
<1> HIDE DEF items, own
<1>4. call \in ListCall /\ call.items = items /\ call.own = own /\ call.shown = {} /\ call.pc = "format"
  BY <1>2, <1>3 DEF ListCall
<1> HIDE DEF call
<1>5. list' \in [Lists -> ListCall] /\ list'[l] = call /\ \A q \in Lists \ {l} : list'[q] = list[q]
  BY <1>1, <1>4 DEF TodoInv
<1>6. TodoInv'
  <2>1. \A q \in Lists :
          /\ list'[q].items \cup list'[q].own \cup list'[q].shown \subseteq DOMAIN item
          /\ list'[q].pc = "format" => list'[q].items = list'[q].own
    BY <1>2, <1>3, <1>4, <1>5 DEF TodoInv
  <2>2. QED
    BY <1>1, <1>5, <2>1 DEF TodoInv
<1>7. ShowsOwn
  BY <1>1, <1>4, <1>5 DEF ShowsOwn
<1>8. OneChatTouched
  BY <1>1 DEF OneChatTouched, TL!Touched
<1>9. QED
  BY <1>6, <1>7, <1>8

LEMMA TodoFormatted ==
    ASSUME TodoInv, NEW l \in Lists, TL!FormatTodoList(l)
    PROVE  TodoInv' /\ OneChatTouched /\ ShowsOwn
<1> DEFINE shown == {id \in list[l].items : TL!Shows(id)}
           call == [TL!IdleList EXCEPT !.shown = shown]
<1>1. list[l].pc = "format" /\ list' = [list EXCEPT ![l] = call] /\ UNCHANGED <<todos, item, writing>>
  BY DEF TL!FormatTodoList
<1>2. /\ list[l].items = list[l].own /\ shown \subseteq DOMAIN item /\ DOMAIN item \subseteq Ids
      /\ shown = {id \in list[l].own : TL!Shows(id)}
  BY <1>1 DEF TodoInv
<1> HIDE DEF shown
<1>3. /\ call \in ListCall /\ call.items = {} /\ call.own = {} /\ call.shown = shown
      /\ call.pc = "idle"
  BY <1>2 DEF ListCall, TL!IdleList
<1> HIDE DEF call
<1>4. list' \in [Lists -> ListCall] /\ list'[l] = call /\ \A q \in Lists \ {l} : list'[q] = list[q]
  BY <1>1, <1>3 DEF TodoInv
<1>5. TodoInv'
  <2>1. \A q \in Lists :
          /\ list'[q].items \cup list'[q].own \cup list'[q].shown \subseteq DOMAIN item
          /\ list'[q].pc = "format" => list'[q].items = list'[q].own
    BY <1>2, <1>3, <1>4 DEF TodoInv
  <2>2. QED
    BY <1>1, <1>4, <2>1 DEF TodoInv
<1>6. ShowsOwn
  BY <1>2, <1>3, <1>4 DEF ShowsOwn
<1>7. OneChatTouched
  BY <1>1 DEF OneChatTouched, TL!Touched
<1>8. QED
  BY <1>5, <1>6, <1>7

LEMMA TodoKept == TodoInv /\ [TL!Next]_todoVars => TodoInv' /\ OneChatTouched /\ ShowsOwn
<1> SUFFICES ASSUME TodoInv, [TL!Next]_todoVars PROVE TodoInv' /\ OneChatTouched /\ ShowsOwn
  OBVIOUS
<1>1. CASE UNCHANGED todoVars
  <2>1. TodoInv'
    BY <1>1 DEF TodoInv, todoVars
  <2>2. TL!Touched = {}
    BY <1>1 DEF TL!Touched, todoVars
  <2>3. QED
    BY <1>1, <2>1, <2>2, ListsRest DEF OneChatTouched, todoVars
<1>2. ASSUME NEW c \in Chats, NEW id \in Ids, NEW priority \in Priorities,
             TL!CreateTodo(c, id, priority)
      PROVE  TodoInv' /\ OneChatTouched /\ ShowsOwn
  BY <1>2, TodoCreated, ListsRest DEF TL!CreateTodo
<1>3. ASSUME NEW c \in Chats, NEW id \in Ids, NEW status \in Statuses,
             TL!UpdateTodo(c, id, status)
      PROVE  TodoInv' /\ OneChatTouched /\ ShowsOwn
  BY <1>3, TodoWritten, ListsRest DEF TL!UpdateTodo
<1>4. CASE TL!StatusWritten
  BY <1>4, TodoWritten, ListsRest DEF TL!StatusWritten
<1>5. ASSUME NEW c \in Chats, NEW id \in Ids, TL!DeleteTodo(c, id)
      PROVE  TodoInv' /\ OneChatTouched /\ ShowsOwn
  <2>1. TL!ChatOf(TL!Key(c, id)) = c
    BY KeysOfTodos, KeyParts
  <2>2. todos' = todos \ {TL!Key(c, id)} /\ UNCHANGED <<item, writing, list>>
    BY <1>5 DEF TL!DeleteTodo
  <2>3. \A k \in {TL!Key(c, id)} \cap todos : TL!ChatOf(k) = c
    BY <2>1
  <2>4. TodoInv' /\ OneChatTouched
    BY <2>2, <2>3, TodoRemoved
  <2>5. QED
    BY <2>2, <2>4, ListsRest
<1>6. ASSUME NEW c \in Chats, TL!ClearTodos(c) PROVE TodoInv' /\ OneChatTouched /\ ShowsOwn
  <2>1. todos' = todos \ TL!Matching(c) /\ UNCHANGED <<item, writing, list>>
    BY <1>6 DEF TL!ClearTodos
  <2>2. \A k \in TL!Matching(c) \cap todos : TL!ChatOf(k) = c
    BY KeysOfTodos
  <2>3. TodoInv' /\ OneChatTouched
    BY <2>1, <2>2, TodoRemoved
  <2>4. QED
    BY <2>1, <2>3, ListsRest
<1>7. QED
  BY <1>1, <1>2, <1>3, <1>4, <1>5, <1>6, TodoListed, TodoFormatted DEF TL!Next

\* Whatever chats there are, also such that one's name begins with another's: no call of the to-do
\* tool touches the to-dos of two chats, and a list shows all of its own chat's and no others.
THEOREM TodosStayApart == Spec => ChatsStayApart
<1>1. Init => TodoInv
  BY TodoInit
<1>2. TodoInv /\ [Next]_vars => TodoInv'
  BY TodoKept, OneMoves
<1>3. TodoInv /\ [Next]_vars =>
        [/\ \A k1, k2 \in TL!Touched : TL!ChatOf(k1) = TL!ChatOf(k2)
         /\ \A l \in Lists : list[l].pc = "format" /\ list'[l].pc = "idle" =>
              list'[l].shown = {id \in list[l].own : TL!Shows(id)}]_todoVars
  BY TodoKept, OneMoves DEF OneChatTouched, ShowsOwn
<1>4. QED
  BY <1>1, <1>2, <1>3, PTL DEF Spec, ChatsStayApart, TL!ChatsStayApart, todoVars, TL!todoVars

-----------------------------------------------------------------------------
\* Credentials

ActorPc == {"idle", "refresh", "load", "truncate", "write", "orphan", "config", "config all"}
ActorState == [pc : ActorPc, provider : Providers, cred : Credential,
               store : [Providers -> Credential], base : Nat, asked : Nat]

CredentialTypes ==
    /\ authFile \in [state : {"empty", "corrupt", "whole"}, creds : [Providers -> Credential]]
    /\ authMethod \in [Providers -> Method]
    /\ actor \in [Actors -> ActorState]
    /\ issued \in 0 .. MaxIssued /\ commands \in 0 .. MaxCommands /\ due \subseteq 0 .. MaxIssued
    /\ owner \in [Providers -> Nat] /\ done \in Nat /\ version \in Nat /\ disturbed \in BOOLEAN

\* The logins of a store are those that the last command left
HasOwners(store) == \A p \in Providers : store[p].login = owner[p]

\* What a command or a call holds.  A change that has loaded the present version of the file has
\* the owners' logins, and a call that was not overtaken by a command refreshes its owner's.
ActorOk(a) ==
    LET x == actor[a] IN
    /\ x.base <= version /\ x.asked <= done
    /\ IF a = Cli THEN x.pc \notin {"refresh", "orphan"} ELSE x.pc \notin {"config", "config all"}
    /\ a = Cli /\ x.pc \in {"load", "truncate", "write", "config"} =>
         (x.cred.method # "" <=> x.cred.login # 0)
    /\ x.pc = "config" => owner[x.provider] = x.cred.login
    /\ x.pc = "config all" => \A p \in Providers : owner[p] = 0
    /\ ~disturbed =>
         /\ x.pc \in {"truncate", "write"} /\ x.base = version => HasOwners(x.store)
         /\ x.pc = "write" => x.base = version /\ (a # Cli => x.asked = done)
         /\ a # Cli /\ x.pc \in {"refresh", "load", "truncate", "write"} /\ x.asked = done =>
              x.cred.login = owner[x.provider]

NobodyWrites == \A a \in Actors : actor[a].pc # "write"

\* The file has the owners' logins unless somebody is writing it
FileOk ==
    /\ NobodyWrites => Readable /\ HasOwners(Stored)
    /\ ~NobodyWrites => authFile.state = "empty"

\* config.json is as the owners are, but for what the command is about to change
ConfigOk ==
    \A p \in Providers :
      \/ actor[Cli].pc = "config all"
      \/ actor[Cli].pc = "config" /\ actor[Cli].provider = p
      \/ authMethod[p] # "" <=> owner[p] # 0

Undisturbed == (\A a, b \in Busy : a = b) /\ FileOk /\ ConfigOk

CredentialsInv ==
    CredentialTypes /\ (\A a \in Actors : ActorOk(a)) /\ (~disturbed => Undisturbed)

LEMMA SomeCredentials ==
    /\ None \in Credential /\ NoCredentials \in [Providers -> Credential]
    /\ Idle \in ActorState /\ Idle.pc = "idle" /\ Idle.base = 0 /\ Idle.asked = 0
    /\ None.login = 0 /\ None.method = "" /\ \A p \in Providers : NoCredentials[p] = None
<1>1. 0 \in 0 .. MaxIssued /\ 0 \in 0 .. MaxCommands
  <2>1. MaxIssued \in Nat /\ MaxCommands \in Nat
    BY CredentialsAssumption
  <2>2. QED
    BY <2>1
<1>2. None \in Credential
  BY <1>1 DEF None, Credential, Method
<1>3. NoCredentials \in [Providers -> Credential] /\ \A p \in Providers : NoCredentials[p] = None
  BY <1>2 DEF NoCredentials
<1>4. Idle \in ActorState /\ Idle.pc = "idle" /\ Idle.base = 0 /\ Idle.asked = 0
  BY <1>2, <1>3 DEF Idle, ActorState, ActorPc, Providers
<1>5. QED
  BY <1>2, <1>3, <1>4 DEF None

LEMMA IdleIsOk ==
    ASSUME NEW a \in Actors, (actor[a] = Idle)', version' \in Nat, done' \in Nat
    PROVE  ActorOk(a)'
<1>1. actor'[a].pc = "idle" /\ actor'[a].base = 0 /\ actor'[a].asked = 0
  BY SomeCredentials
<1>2. actor'[a].base <= version' /\ actor'[a].asked <= done'
  BY <1>1
<1>3. QED
  BY <1>1, <1>2 DEF ActorOk

LEMMA CredentialsStart == Init => CredentialsInv
<1>0. SUFFICES ASSUME CredentialsInit PROVE CredentialsInv
  BY DEF Init
<1>1. issued = 0 /\ commands = 0 /\ done = 0 /\ version = 0 /\ due = {} /\ disturbed = FALSE
  BY <1>0 DEF CredentialsInit
<1>2. \A a \in Actors : actor[a] = Idle
  BY <1>0 DEF CredentialsInit
<1>3. CredentialTypes
  <2>1. MaxIssued \in Nat /\ MaxCommands \in Nat
    BY CredentialsAssumption
  <2>2. authFile \in [state : {"empty", "corrupt", "whole"}, creds : [Providers -> Credential]]
    BY <1>0, SomeCredentials DEF CredentialsInit, Whole
  <2>3. actor \in [Actors -> ActorState]
    BY <1>0, SomeCredentials DEF CredentialsInit
  <2>4. authMethod \in [Providers -> Method] /\ owner \in [Providers -> Nat]
    BY <1>0 DEF CredentialsInit, Method
  <2>5. issued \in 0 .. MaxIssued /\ commands \in 0 .. MaxCommands /\ done \in Nat /\ version \in Nat
    BY <1>1, <2>1
  <2>6. due \subseteq 0 .. MaxIssued /\ disturbed \in BOOLEAN
    BY <1>1
  <2>7. QED
    BY <2>2, <2>3, <2>4, <2>5, <2>6 DEF CredentialTypes
<1>4. ASSUME NEW a \in Actors PROVE ActorOk(a)
  <2>1. actor[a].pc = "idle" /\ actor[a].base = 0 /\ actor[a].asked = 0
    BY <1>2, SomeCredentials
  <2>2. actor[a].base <= version /\ actor[a].asked <= done
    BY <1>1, <2>1
  <2>3. QED
    BY <2>1, <2>2 DEF ActorOk
<1>5. Undisturbed
  <2>1. NobodyWrites /\ Busy = {}
    BY <1>2, SomeCredentials DEF NobodyWrites, Busy
  <2>2. Readable /\ HasOwners(Stored)
    BY <1>0, SomeCredentials DEF CredentialsInit, Whole, Readable, Stored, HasOwners
  <2>3. ConfigOk
    BY <1>0 DEF CredentialsInit, ConfigOk
  <2>4. QED
    BY <2>1, <2>2, <2>3 DEF Undisturbed, FileOk
<1>6. QED
  BY <1>3, <1>4, <1>5 DEF CredentialsInv

\* Steps of one actor that touch neither file, nor a history but to disturb it
LEMMA ActorMoves ==
    ASSUME CredentialsInv, NEW a \in Actors, actor' \in [Actors -> ActorState],
           \A b \in Actors : b # a => actor'[b] = actor[b],
           UNCHANGED <<authFile, authMethod, owner, done, version>>,
           issued' \in 0 .. MaxIssued, commands' \in 0 .. MaxCommands, due' \in SUBSET (0 .. MaxIssued),
           disturbed' = TRUE
             \/ /\ disturbed' = disturbed
                /\ actor[a].pc \notin {"write", "config", "config all"}
                /\ actor'[a].pc \notin {"write", "orphan", "config", "config all"},
           ActorOk(a)'
    PROVE  CredentialsInv'
<1> USE DEF CredentialsInv
<1>1. CredentialTypes'
  BY DEF CredentialTypes
<1>2. actor' \in [Actors -> ActorState] /\ \A b \in Actors : b # a => actor'[b] = actor[b]
  OBVIOUS
<1>3. ASSUME NEW b \in Actors PROVE ActorOk(b)'
  <2>1. CASE b # a
    <3>1. ~disturbed' => ~disturbed
      BY Zenon
    <3>2. ActorOk(b) /\ actor'[b] = actor[b]
      BY <1>2, <2>1
    <3>3. QED
      BY <3>1, <3>2 DEF ActorOk, HasOwners
  <2>2. QED
    BY <2>1
<1>4. ASSUME ~disturbed' PROVE Undisturbed'
  <2>1. /\ ~disturbed /\ actor[a].pc \notin {"write", "config", "config all"}
        /\ actor'[a].pc \notin {"write", "orphan", "config", "config all"}
    <3>1. ~(disturbed' = TRUE)
      BY <1>4
    <3>2. disturbed' = disturbed
      BY <3>1
    <3>3. ~disturbed
      BY <1>4, <3>2
    <3>4. QED
      BY <3>1, <3>3
  <2>2. Busy' \subseteq Busy /\ (NobodyWrites' <=> NobodyWrites)
    BY <1>2, <2>1 DEF Busy, NobodyWrites
  <2>3. \A b, c \in Busy' : b = c
    BY <2>1, <2>2 DEF Undisturbed
  <2>4. FileOk'
    BY <2>1, <2>2 DEF Undisturbed, FileOk, HasOwners, Readable, Stored
  <2>5. ConfigOk'
    <3>1. Cli \in Actors
      BY DEF Actors
    <3>2. CASE a = Cli
      BY <1>2, <2>1, <3>2 DEF Undisturbed, ConfigOk
    <3>3. CASE a # Cli
      BY <1>2, <2>1, <3>1, <3>3 DEF Undisturbed, ConfigOk
    <3>4. QED
      BY <3>2, <3>3
  <2>6. QED
    BY <2>3, <2>4, <2>5 DEF Undisturbed
<1>5. QED
  BY <1>1, <1>3, <1>4

LEMMA ActorGivesUp ==
    ASSUME CredentialsInv, NEW a \in Actors, GiveUp(a),
           UNCHANGED <<authFile, authMethod, issued, due, commands, owner, done, version>>,
           \/ disturbed' = TRUE
           \/ disturbed' = disturbed /\ actor[a].pc \notin {"write", "config", "config all"}
    PROVE  CredentialsInv'
<1>1. actor' = [actor EXCEPT ![a] = Idle]
  BY DEF GiveUp
<1>2. /\ actor' \in [Actors -> ActorState] /\ actor'[a] = Idle
      /\ \A b \in Actors : b # a => actor'[b] = actor[b]
  BY <1>1, SomeCredentials DEF CredentialsInv, CredentialTypes
<1>3. ActorOk(a)'
  <2>1. actor'[a] = Idle /\ version' \in Nat /\ done' \in Nat
    BY <1>2 DEF CredentialsInv, CredentialTypes
  <2>2. QED
    BY <2>1, IdleIsOk
<1>4. /\ issued' \in 0 .. MaxIssued /\ commands' \in 0 .. MaxCommands
      /\ due' \in SUBSET (0 .. MaxIssued)
  BY DEF CredentialsInv, CredentialTypes
<1>5. QED
  BY <1>2, <1>3, <1>4, SomeCredentials, ActorMoves

\* A change that finds the file whole loads the owners' logins: nobody is writing it
LEMMA LoadKept == ASSUME CredentialsInv, NEW a \in Actors, LoadToChange(a) PROVE CredentialsInv'
<1>1. CredentialTypes /\ ActorOk(a) /\ (~disturbed => Undisturbed)
  BY DEF CredentialsInv
<1>2. /\ UNCHANGED <<authFile, authMethod, issued, due, commands, owner, done, version, disturbed>>
      /\ actor[a].pc = "load"
  BY DEF LoadToChange
<1>3. CASE GiveUp(a)
  BY <1>2, <1>3, ActorGivesUp
<1>4. CASE /\ Readable
           /\ actor' = [actor EXCEPT ![a].pc = "truncate", ![a].store = Stored, ![a].base = version]
  <2>1. actor[a] \in ActorState /\ Stored \in [Providers -> Credential] /\ version \in Nat /\ done \in Nat
    BY <1>1 DEF CredentialTypes, Stored
  <2>2. /\ actor' \in [Actors -> ActorState]
        /\ \A b \in Actors : b # a => actor'[b] = actor[b]
    BY <1>1, <1>4, <2>1 DEF CredentialTypes, ActorState, ActorPc
  <2>3. /\ actor'[a].pc = "truncate" /\ actor'[a].store = Stored /\ actor'[a].base = version
        /\ actor'[a].cred = actor[a].cred /\ actor'[a].asked = actor[a].asked
        /\ actor'[a].provider = actor[a].provider
    BY <1>1, <1>4, <2>1 DEF CredentialTypes, ActorState
  <2>4. ~disturbed => HasOwners(Stored)
    BY <1>1, <1>4 DEF Undisturbed, FileOk, Readable
  <2>5. ActorOk(a)'
    <3>1. actor'[a].base <= version' /\ actor'[a].asked <= done'
      <4>1. version <= version
        BY <2>1
      <4>2. actor[a].asked <= done
        BY <1>1 DEF ActorOk
      <4>3. QED
        BY <1>2, <2>3, <4>1, <4>2
    <3>2. ~disturbed' => HasOwners(actor[a].store)'
      BY <1>2, <2>3, <2>4 DEF HasOwners
    <3>3. QED
      BY <1>1, <1>2, <2>3, <3>1, <3>2 DEF ActorOk
  <2>6. issued' \in 0 .. MaxIssued /\ commands' \in 0 .. MaxCommands /\ due' \in SUBSET (0 .. MaxIssued)
    BY <1>1, <1>2 DEF CredentialTypes
  <2>7. QED
    BY <1>2, <2>2, <2>3, <2>5, <2>6, ActorMoves
<1>5. QED
  BY <1>3, <1>4 DEF LoadToChange

LEMMA OneMore == \A m \in Nat : \A n \in 0 .. m : n < m => n + 1 \in 0 .. m /\ n + 1 # 0
OBVIOUS

LEMMA NoneIsLess == \A n \in Nat : 0 <= n
OBVIOUS

LEMMA StillLess ==
    \A m, n \in Nat : m <= n => m <= n + 1 /\ m # n + 1
OBVIOUS

LEMMA CommandKept ==
    ASSUME CredentialsInv, NEW p \in Providers, NEW cred \in Credential, Command(p, cred),
           cred.method # "" <=> cred.login # 0, issued' \in 0 .. MaxIssued
    PROVE  CredentialsInv'
<1>1. CredentialTypes /\ Cli \in Actors
  BY DEF CredentialsInv, Actors
<1>2. /\ UNCHANGED <<authFile, authMethod, due, owner, done, version, disturbed>>
      /\ actor[Cli].pc = "idle" /\ commands < MaxCommands /\ commands' = commands + 1
      /\ actor' = [actor EXCEPT ![Cli] = [Idle EXCEPT !.pc = "load", !.provider = p, !.cred = cred]]
  BY DEF Command
<1>3. /\ actor' \in [Actors -> ActorState]
      /\ \A b \in Actors : b # Cli => actor'[b] = actor[b]
  BY <1>1, <1>2, SomeCredentials DEF CredentialTypes, ActorState, ActorPc
<1>4. /\ actor'[Cli].pc = "load" /\ actor'[Cli].cred = cred
      /\ actor'[Cli].base = 0 /\ actor'[Cli].asked = 0
  BY <1>1, <1>2, SomeCredentials DEF CredentialTypes, ActorState
<1>5. ActorOk(Cli)'
  <2>1. actor'[Cli].base <= version' /\ actor'[Cli].asked <= done'
    <3>1. version' \in Nat /\ done' \in Nat
      BY <1>1, <1>2 DEF CredentialTypes
    <3>2. 0 <= version' /\ 0 <= done'
      BY <3>1, NoneIsLess, Zenon
    <3>3. QED
      BY <1>4, <3>2
  <2>2. QED
    BY <1>4, <2>1 DEF ActorOk
<1>6. due' \in SUBSET (0 .. MaxIssued)
  BY <1>1, <1>2 DEF CredentialTypes
<1>7. commands' \in 0 .. MaxCommands
  <2>1. MaxCommands \in Nat /\ commands \in 0 .. MaxCommands
    BY <1>1, CredentialsAssumption DEF CredentialTypes
  <2>2. commands + 1 \in 0 .. MaxCommands
    BY <1>2, <2>1, OneMore
  <2>3. QED
    BY <1>2, <2>2
<1>8. QED
  BY <1>1, <1>2, <1>3, <1>4, <1>5, <1>6, <1>7, ActorMoves

LEMMA LoginCommandKept == ASSUME CredentialsInv, NEW p \in Providers, Login(p) PROVE CredentialsInv'
<1>1. CredentialTypes /\ issued < MaxIssued /\ issued' = issued + 1 /\ commands < MaxCommands
  BY DEF CredentialsInv, Login, Command
<1>2. issued + 1 \in 0 .. MaxIssued /\ commands + 1 \in 0 .. MaxCommands /\ commands + 1 # 0
  <2>1. /\ MaxCommands \in Nat /\ commands \in 0 .. MaxCommands
        /\ MaxIssued \in Nat /\ issued \in 0 .. MaxIssued
    BY <1>1, CredentialsAssumption DEF CredentialTypes
  <2>2. QED
    BY <1>1, <2>1, OneMore
<1>3. \A renews \in BOOLEAN, method \in {"oauth", "token"} :
        LET cred == Issue(commands + 1, method, renews) IN
        cred \in Credential /\ (cred.method # "" <=> cred.login # 0)
  BY <1>2 DEF Issue, Credential, Method
<1>4. PICK renews \in BOOLEAN :
        Command(p, IF p = "openai" THEN Issue(commands + 1, "oauth", renews)
                   ELSE Issue(commands + 1, "token", FALSE))
  BY DEF Login
<1>5. \E cred \in Credential : Command(p, cred) /\ (cred.method # "" <=> cred.login # 0)
  BY <1>3, <1>4
<1>6. issued' \in 0 .. MaxIssued
  BY <1>1, <1>2
<1>7. QED
  BY <1>5, <1>6, CommandKept

LEMMA LogoutCommandKept == ASSUME CredentialsInv, NEW p \in Providers, Logout(p) PROVE CredentialsInv'
<1>1. Command(p, None) /\ issued' = issued /\ issued \in 0 .. MaxIssued
  BY DEF Logout, CredentialsInv, CredentialTypes
<1>2. QED
  BY <1>1, SomeCredentials, CommandKept

LEMMA GetTokenKept ==
    ASSUME CredentialsInv, NEW a \in Callers, NEW p \in Providers, GetToken(a, p)
    PROVE  CredentialsInv'
<1>1. CredentialTypes /\ ActorOk(a) /\ (~disturbed => Undisturbed) /\ a \in Actors /\ a # Cli
  BY CredentialsAssumption DEF CredentialsInv, Actors, Cli
<1>2. /\ UNCHANGED <<authFile, authMethod, issued, due, commands, owner, done, version, disturbed>>
      /\ actor[a].pc = "idle" /\ Readable
      /\ actor' = [actor EXCEPT ![a] = [Idle EXCEPT !.pc = "refresh", !.provider = p,
                                                   !.cred = Stored[p], !.asked = done]]
  BY DEF GetToken
<1>3. Stored[p] \in Credential /\ done \in Nat /\ version \in Nat
  BY <1>1 DEF CredentialTypes, Stored
<1>4. /\ actor' \in [Actors -> ActorState]
      /\ \A b \in Actors : b # a => actor'[b] = actor[b]
  BY <1>1, <1>2, <1>3, SomeCredentials DEF CredentialTypes, ActorState, ActorPc
<1>5. /\ actor'[a].pc = "refresh" /\ actor'[a].provider = p /\ actor'[a].cred = Stored[p]
      /\ actor'[a].base = 0 /\ actor'[a].asked = done
  BY <1>1, <1>2, <1>3, SomeCredentials DEF CredentialTypes, ActorState
<1>6. ActorOk(a)'
  <2>1. actor'[a].base <= version'
    BY <1>2, <1>3, <1>5, NoneIsLess
  <2>2. actor'[a].asked <= done'
    <3>1. done <= done
      BY <1>3
    <3>2. QED
      BY <1>2, <1>5, <3>1
  <2>3. ~disturbed => Stored[p].login = owner[p]
    BY <1>1, <1>2 DEF Undisturbed, FileOk, Readable, HasOwners
  <2>4. QED
    BY <1>1, <1>2, <1>5, <2>1, <2>2, <2>3 DEF ActorOk
<1>7. issued' \in 0 .. MaxIssued /\ commands' \in 0 .. MaxCommands /\ due' \in SUBSET (0 .. MaxIssued)
  BY <1>1, <1>2 DEF CredentialTypes
<1>8. QED
  BY <1>1, <1>2, <1>4, <1>5, <1>6, <1>7, ActorMoves

LEMMA RefreshKept ==
    ASSUME CredentialsInv, NEW a \in Callers, RefreshAccessToken(a) PROVE CredentialsInv'
<1>1. CredentialTypes /\ ActorOk(a) /\ a \in Actors /\ a # Cli /\ actor[a] \in ActorState
  BY CredentialsAssumption DEF CredentialsInv, CredentialTypes, Actors, Cli
<1>2. PICK renews \in BOOLEAN :
        actor' = [actor EXCEPT ![a].cred = Issue(@.login, "oauth", renews), ![a].pc = "load"]
  BY DEF RefreshAccessToken
<1>3. /\ UNCHANGED <<authFile, authMethod, due, commands, owner, done, version, disturbed>>
      /\ actor[a].pc = "refresh" /\ issued < MaxIssued /\ issued' = issued + 1
  BY DEF RefreshAccessToken
<1>4. issued + 1 \in 0 .. MaxIssued
  <2>1. MaxIssued \in Nat /\ issued \in 0 .. MaxIssued
    BY <1>1, CredentialsAssumption DEF CredentialTypes
  <2>2. QED
    BY <1>3, <2>1, OneMore
<1>5. PICK cred \in Credential :
        /\ cred.login = actor[a].cred.login
        /\ actor' = [actor EXCEPT ![a].cred = cred, ![a].pc = "load"]
  <2>1. actor[a].cred \in Credential
    BY <1>1 DEF ActorState
  <2>2. actor[a].cred.login \in 0 .. MaxCommands
    BY <2>1 DEF Credential
  <2>3. Issue(actor[a].cred.login, "oauth", renews) \in Credential
    BY <1>4, <2>2 DEF Issue, Credential, Method
  <2>4. Issue(actor[a].cred.login, "oauth", renews).login = actor[a].cred.login
    BY DEF Issue
  <2>5. actor' = [actor EXCEPT ![a].cred = Issue(actor[a].cred.login, "oauth", renews), ![a].pc = "load"]
    BY <1>1, <1>2 DEF CredentialTypes, ActorState
  <2>6. QED
    BY <2>3, <2>4, <2>5
<1>6. /\ actor' \in [Actors -> ActorState]
      /\ \A b \in Actors : b # a => actor'[b] = actor[b]
  BY <1>1, <1>5 DEF CredentialTypes, ActorState, ActorPc
<1>7. /\ actor'[a].pc = "load" /\ actor'[a].provider = actor[a].provider
      /\ actor'[a].cred.login = actor[a].cred.login
      /\ actor'[a].base = actor[a].base /\ actor'[a].asked = actor[a].asked
  BY <1>1, <1>5 DEF CredentialTypes, ActorState
<1>8. ActorOk(a)'
  BY <1>1, <1>3, <1>7 DEF ActorOk
<1>9. issued' \in 0 .. MaxIssued /\ commands' \in 0 .. MaxCommands /\ due' \in SUBSET (0 .. MaxIssued)
  BY <1>1, <1>3, <1>4 DEF CredentialTypes
<1>10. QED
  BY <1>1, <1>3, <1>6, <1>7, <1>8, <1>9, ActorMoves

LEMMA RefreshFailsKept ==
    ASSUME CredentialsInv, NEW a \in Callers, RefreshFails(a) PROVE CredentialsInv'
<1>1. /\ GiveUp(a) /\ actor[a].pc = "refresh" /\ a \in Actors
      /\ UNCHANGED <<authFile, authMethod, issued, due, commands, owner, done, version, disturbed>>
  BY DEF RefreshFails, Actors
<1>2. QED
  BY <1>1, ActorGivesUp

LEMMA SaveFailsKept ==
    ASSUME CredentialsInv, NEW a \in Actors, SaveFails(a) PROVE CredentialsInv'
<1>1. /\ GiveUp(a) /\ disturbed' = (disturbed \/ actor[a].pc # "truncate")
      /\ UNCHANGED <<authFile, authMethod, issued, due, commands, owner, done, version>>
  BY DEF SaveFails
<1>2. disturbed \in BOOLEAN
  BY DEF CredentialsInv, CredentialTypes
<1>3. \/ disturbed' = TRUE
      \/ disturbed' = disturbed /\ actor[a].pc \notin {"write", "config", "config all"}
  BY <1>1, <1>2
<1>4. QED
  BY <1>1, <1>3, ActorGivesUp

LEMMA ConfigFailsKept == ASSUME CredentialsInv, ConfigFails PROVE CredentialsInv'
<1>1. /\ GiveUp(Cli) /\ disturbed' = TRUE /\ Cli \in Actors
      /\ UNCHANGED <<authFile, authMethod, issued, due, commands, owner, done, version>>
  BY DEF ConfigFails, Actors
<1>2. QED
  BY <1>1, ActorGivesUp

LEMMA CrashKept == ASSUME CredentialsInv, NEW a \in Actors, Crash(a) PROVE CredentialsInv'
<1>1. /\ GiveUp(a) /\ disturbed' = (disturbed \/ actor[a].pc \in {"write", "config", "config all"})
      /\ UNCHANGED <<authFile, authMethod, issued, due, commands, owner, done, version>>
  BY DEF Crash
<1>2. disturbed \in BOOLEAN
  BY DEF CredentialsInv, CredentialTypes
<1>3. \/ disturbed' = TRUE
      \/ disturbed' = disturbed /\ actor[a].pc \notin {"write", "config", "config all"}
  BY <1>1, <1>2
<1>4. QED
  BY <1>1, <1>3, ActorGivesUp

LEMMA AgeKept == ASSUME CredentialsInv, Age PROVE CredentialsInv'
<1>1. PICK p \in Providers : due' = due \cup {Stored[p].id}
  BY DEF Age
<1>2. UNCHANGED <<authFile, authMethod, actor, issued, commands, owner, done, version, disturbed>>
  BY DEF Age
<1>3. Stored[p] \in Credential
  BY DEF CredentialsInv, CredentialTypes, Stored
<1>4. due' \subseteq 0 .. MaxIssued
  BY <1>1, <1>3 DEF CredentialsInv, CredentialTypes, Credential
<1>5. CredentialTypes'
  BY <1>2, <1>4 DEF CredentialsInv, CredentialTypes
<1>6. (\A a \in Actors : ActorOk(a)) /\ (~disturbed => Undisturbed)
  BY DEF CredentialsInv
<1>7. (\A a \in Actors : ActorOk(a))'
  BY <1>2, <1>6 DEF ActorOk, HasOwners
<1>8. (~disturbed => Undisturbed)'
  BY <1>2, <1>6
  DEF Undisturbed, FileOk, ConfigOk, HasOwners, NobodyWrites, Busy, Readable, Stored
<1>9. QED
  BY <1>5, <1>7, <1>8 DEF CredentialsInv

LEMMA TruncateKept == ASSUME CredentialsInv, NEW a \in Actors, Truncate(a) PROVE CredentialsInv'
<1>1. CredentialTypes /\ (\A b \in Actors : ActorOk(b)) /\ (~disturbed => Undisturbed)
  BY DEF CredentialsInv
<1>2. /\ UNCHANGED <<authMethod, issued, due, commands, owner, done, version>>
      /\ actor[a].pc = "truncate" /\ authFile' = Torn("empty")
      /\ disturbed' = (disturbed \/ Stale(a))
      /\ actor' = [actor EXCEPT ![a].pc = "write"]
  BY DEF Truncate, Become
<1>3. disturbed' \in BOOLEAN /\ (~disturbed' => ~disturbed /\ ~Stale(a))
  <2>1. disturbed \in BOOLEAN
    BY <1>1 DEF CredentialTypes
  <2>2. QED
    BY <1>2, <2>1, Zenon
<1>4. /\ actor' \in [Actors -> ActorState]
      /\ \A b \in Actors : b # a => actor'[b] = actor[b]
  BY <1>1, <1>2 DEF CredentialTypes, ActorState, ActorPc
<1>5. /\ actor'[a].pc = "write" /\ actor'[a].cred = actor[a].cred /\ actor'[a].store = actor[a].store
      /\ actor'[a].base = actor[a].base /\ actor'[a].asked = actor[a].asked
      /\ actor'[a].provider = actor[a].provider
  BY <1>1, <1>2 DEF CredentialTypes, ActorState
<1>6. authFile' \in [state : {"empty", "corrupt", "whole"}, creds : [Providers -> Credential]]
  BY <1>2, SomeCredentials DEF Torn
<1>7. CredentialTypes'
  BY <1>1, <1>2, <1>3, <1>4, <1>6 DEF CredentialTypes
<1>8. ASSUME NEW b \in Actors PROVE ActorOk(b)'
  <2>1. CASE b # a
    <3>1. ActorOk(b) /\ actor'[b] = actor[b] /\ (~disturbed' => ~disturbed)
      BY <1>1, <1>3, <1>4, <2>1
    <3>2. QED
      BY <1>2, <3>1 DEF ActorOk, HasOwners
  <2>2. CASE b = a
    <3>1. ActorOk(a)
      BY <1>1
    <3>2. ~disturbed' => actor[a].base = version /\ (a # Cli => actor[a].asked = done)
      BY <1>3 DEF Stale
    <3>3. ~disturbed' => HasOwners(actor[a].store)
      BY <1>2, <1>3, <3>1, <3>2 DEF ActorOk
    <3>4. ~disturbed' => HasOwners(actor[a].store)'
      BY <1>2, <1>5, <3>3 DEF HasOwners
    <3>5. ~disturbed' /\ a # Cli => actor[a].cred.login = owner[actor[a].provider]
      BY <1>2, <1>3, <3>1, <3>2 DEF ActorOk
    <3>6. QED
      BY <1>2, <1>5, <2>2, <3>1, <3>2, <3>4, <3>5 DEF ActorOk
  <2>3. QED
    BY <2>1, <2>2
<1>9. ASSUME ~disturbed' PROVE Undisturbed'
  <2>1. Busy = {} /\ Undisturbed
    BY <1>1, <1>3, <1>9 DEF Stale
  <2>2. Busy' \subseteq {a} /\ ~NobodyWrites'
    BY <1>4, <1>5, <2>1 DEF Busy, NobodyWrites
  <2>3. FileOk'
    BY <1>2, <2>2 DEF FileOk, Torn
  <2>4. ConfigOk'
    <3>1. Cli \in Actors /\ ConfigOk
      BY <2>1 DEF Actors, Undisturbed
    <3>2. CASE a = Cli
      BY <1>2, <3>1, <3>2 DEF ConfigOk
    <3>3. CASE a # Cli
      BY <1>2, <1>4, <3>1, <3>3 DEF ConfigOk
    <3>4. QED
      BY <3>2, <3>3
  <2>5. QED
    BY <2>2, <2>3, <2>4 DEF Undisturbed
<1>10. QED
  BY <1>7, <1>8, <1>9 DEF CredentialsInv

\* A write is based on the present file, or disturbed: the logins it leaves are the owners'
LEMMA WriteKept == ASSUME CredentialsInv, NEW a \in Actors, Write(a) PROVE CredentialsInv'
<1>1. CredentialTypes /\ (\A b \in Actors : ActorOk(b)) /\ (~disturbed => Undisturbed)
  BY DEF CredentialsInv
<1>2. /\ UNCHANGED <<authMethod, issued, due, commands, disturbed>> /\ version' = version + 1
      /\ actor[a].pc \in {"write", "orphan"}
  BY DEF Write
<1>3. version \in Nat /\ done \in Nat /\ actor[a] \in ActorState /\ actor \in [Actors -> ActorState]
  BY <1>1 DEF CredentialTypes
<1>4. authFile' \in [state : {"empty", "corrupt", "whole"}, creds : [Providers -> Credential]]
  <2>1. Changed(a) \in [Providers -> Credential]
    BY <1>3 DEF Changed, ActorState
  <2>2. authFile' = authFile \/ authFile' \in {Whole(Changed(a)), Torn("corrupt")}
    BY DEF Write, Overwritten
  <2>3. Whole(Changed(a)) \in
          [state : {"empty", "corrupt", "whole"}, creds : [Providers -> Credential]]
    BY <2>1 DEF Whole
  <2>4. Torn("corrupt") \in
          [state : {"empty", "corrupt", "whole"}, creds : [Providers -> Credential]]
    BY SomeCredentials DEF Torn
  <2>5. QED
    BY <1>1, <2>2, <2>3, <2>4 DEF CredentialTypes
<1>5. \A n \in Nat : n + 1 \in Nat
  OBVIOUS
<1>6. ~disturbed => Busy = {a} /\ \A b \in Actors : b # a => actor[b].pc # "write"
  BY <1>1, <1>2 DEF Undisturbed, Busy
<1>7. CASE a # Cli
  <2>1. owner' = owner /\ done' = done /\ GiveUp(a)
    BY <1>7 DEF Write
  <2>2. /\ actor' \in [Actors -> ActorState] /\ actor'[a] = Idle
        /\ \A b \in Actors : b # a => actor'[b] = actor[b]
    BY <1>3, <2>1, SomeCredentials DEF GiveUp
  <2>3. CredentialTypes'
    BY <1>1, <1>2, <1>3, <1>4, <1>5, <2>1, <2>2 DEF CredentialTypes
  <2>4. ASSUME NEW b \in Actors PROVE ActorOk(b)'
    <3>1. CASE b = a
      BY <2>2, <2>3, <3>1, IdleIsOk DEF CredentialTypes
    <3>2. CASE b # a
      <4>1. ActorOk(b) /\ actor'[b] = actor[b]
        BY <1>1, <2>2, <3>2
      <4>2. actor[b].base <= version /\ actor[b].base \in Nat
        BY <1>3, <4>1 DEF ActorOk, ActorState
      <4>3. actor'[b].base <= version' /\ actor'[b].base # version'
        BY <1>2, <1>3, <4>1, <4>2, StillLess
      <4>4. ~disturbed => actor[b].pc # "write"
        BY <1>6, <3>2
      <4>5. QED
        BY <1>2, <2>1, <4>1, <4>3, <4>4 DEF ActorOk
    <3>3. QED
      BY <3>1, <3>2
  <2>5. ASSUME ~disturbed' PROVE Undisturbed'
    <3>1. ~disturbed /\ Undisturbed
      BY <1>1, <1>2, <2>5
    <3>2. Busy' = {} /\ NobodyWrites'
      BY <1>6, <2>2, <3>1, SomeCredentials DEF Busy, NobodyWrites
    <3>3. Readable' /\ HasOwners(Stored)'
      <4>1. CASE actor[a].pc = "orphan"
        <5>1. NobodyWrites /\ authFile' = authFile
          BY <1>6, <3>1, <4>1 DEF NobodyWrites, Write
        <5>2. QED
          BY <2>1, <3>1, <5>1 DEF Undisturbed, FileOk, Readable, Stored, HasOwners
      <4>2. CASE actor[a].pc = "write"
        <5>1. ActorOk(a) /\ authFile.state = "empty"
          BY <1>1, <3>1, <4>2 DEF Undisturbed, FileOk, NobodyWrites
        <5>2. authFile' = Whole(Changed(a))
          BY <4>2, <5>1 DEF Write, Overwritten
        <5>3. HasOwners(actor[a].store) /\ actor[a].cred.login = owner[actor[a].provider]
          BY <1>7, <3>1, <4>2, <5>1 DEF ActorOk
        <5>4. \A p \in Providers : Changed(a)[p].login = owner[p]
          BY <1>3, <5>3 DEF Changed, HasOwners, ActorState
        <5>5. QED
          BY <2>1, <5>2, <5>4 DEF Whole, Readable, Stored, HasOwners
      <4>3. QED
        BY <1>2, <4>1, <4>2
    <3>4. ConfigOk'
      <4>1. Cli \in Actors
        BY DEF Actors
      <4>2. QED
        BY <1>2, <1>7, <2>1, <2>2, <3>1, <4>1 DEF Undisturbed, ConfigOk
    <3>5. QED
      BY <3>2, <3>3, <3>4 DEF Undisturbed, FileOk
  <2>6. QED
    BY <2>3, <2>4, <2>5 DEF CredentialsInv
<1>8. CASE a = Cli
  <2>1. /\ done' = done + 1 /\ actor[a].pc = "write"
        /\ owner' = [owner EXCEPT ![actor[a].provider] = actor[a].cred.login]
        /\ actor' = [actor EXCEPT ![a].pc = "config", ![a].store = NoCredentials, ![a].base = 0]
    BY <1>1, <1>2, <1>8 DEF Write, ActorOk
  <2>2. /\ actor' \in [Actors -> ActorState]
        /\ \A b \in Actors : b # a => actor'[b] = actor[b]
    BY <1>3, <2>1, SomeCredentials DEF ActorState, ActorPc
  <2>3. /\ actor'[a].pc = "config" /\ actor'[a].cred = actor[a].cred /\ actor'[a].base = 0
        /\ actor'[a].asked = actor[a].asked /\ actor'[a].provider = actor[a].provider
    BY <1>3, <2>1 DEF ActorState
  <2>4. actor[a].cred.login \in Nat /\ actor[a].provider \in Providers
    <3>1. MaxCommands \in Nat /\ actor[a].cred \in Credential
      BY <1>3, CredentialsAssumption DEF ActorState
    <3>2. actor[a].cred.login \in 0 .. MaxCommands
      BY <3>1 DEF Credential
    <3>3. QED
      BY <1>3, <3>1, <3>2 DEF ActorState
  <2>5. /\ owner' \in [Providers -> Nat] /\ owner'[actor[a].provider] = actor[a].cred.login
        /\ \A p \in Providers : p # actor[a].provider => owner'[p] = owner[p]
    BY <1>1, <2>1, <2>4 DEF CredentialTypes
  <2>6. CredentialTypes'
    BY <1>1, <1>2, <1>3, <1>4, <1>5, <2>1, <2>2, <2>5 DEF CredentialTypes
  <2>7. ASSUME NEW b \in Actors PROVE ActorOk(b)'
    <3>1. ActorOk(b) /\ actor[b].base \in Nat /\ actor[b].asked \in Nat
      BY <1>1, <1>3 DEF ActorState
    <3>2. actor[b].base <= version /\ actor[b].asked <= done
      BY <3>1 DEF ActorOk
    <3>3. actor[b].base <= version' /\ actor[b].base # version'
      BY <1>2, <1>3, <3>1, <3>2, StillLess
    <3>4. actor[b].asked <= done' /\ actor[b].asked # done'
      BY <1>3, <2>1, <3>1, <3>2, StillLess
    <3>5. CASE b = a
      <4>1. actor'[a].base <= version'
        BY <2>3, <2>6, NoneIsLess DEF CredentialTypes
      <4>2. actor'[a].asked <= done'
        BY <2>3, <3>4, <3>5
      <4>3. actor'[a].cred.method # "" <=> actor'[a].cred.login # 0
        BY <1>8, <2>1, <2>3, <3>1, <3>5 DEF ActorOk
      <4>4. owner'[actor'[a].provider] = actor'[a].cred.login
        BY <2>3, <2>5
      <4>5. QED
        BY <1>8, <2>3, <3>5, <4>1, <4>2, <4>3, <4>4 DEF ActorOk
    <3>6. CASE b # a
      <4>1. actor'[b] = actor[b] /\ (~disturbed => actor[b].pc # "write")
        BY <1>6, <2>2, <3>6
      <4>2. QED
        BY <1>2, <1>8, <3>1, <3>3, <3>4, <3>6, <4>1 DEF ActorOk
    <3>7. QED
      BY <3>5, <3>6
  <2>8. ASSUME ~disturbed' PROVE Undisturbed'
    <3>1. ~disturbed /\ Undisturbed
      BY <1>1, <1>2, <2>8
    <3>2. Busy' = {} /\ NobodyWrites'
      BY <1>6, <2>2, <2>3, <3>1 DEF Busy, NobodyWrites
    <3>3. Readable' /\ HasOwners(Stored)'
      <4>1. ActorOk(a) /\ authFile.state = "empty"
        BY <1>1, <2>1, <3>1 DEF Undisturbed, FileOk, NobodyWrites
      <4>2. authFile' = Whole(Changed(a))
        BY <2>1, <4>1 DEF Write, Overwritten
      <4>3. HasOwners(actor[a].store)
        BY <2>1, <3>1, <4>1 DEF ActorOk
      <4>4. \A p \in Providers : Changed(a)[p].login = owner'[p]
        BY <1>3, <2>4, <2>5, <4>3 DEF Changed, HasOwners, ActorState
      <4>5. QED
        BY <4>2, <4>4 DEF Whole, Readable, Stored, HasOwners
    <3>4. ConfigOk'
      BY <1>2, <1>8, <2>1, <2>3, <2>5, <3>1 DEF Undisturbed, ConfigOk
    <3>5. QED
      BY <3>2, <3>3, <3>4 DEF Undisturbed, FileOk
  <2>9. QED
    BY <2>6, <2>7, <2>8 DEF CredentialsInv
<1>9. QED
  BY <1>7, <1>8

\* The writers lose their file, and nobody's copy is of the present version any more
LEMMA LogoutAllKept == ASSUME CredentialsInv, LogoutAll PROVE CredentialsInv'
<1>1. CredentialTypes /\ (\A b \in Actors : ActorOk(b)) /\ (~disturbed => Undisturbed)
  BY DEF CredentialsInv
<1>2. /\ UNCHANGED <<authMethod, issued, due>> /\ commands < MaxCommands /\ commands' = commands + 1
      /\ authFile' = Whole(NoCredentials) /\ version' = version + 1 /\ done' = done + 1
      /\ owner' = [p \in Providers |-> 0] /\ disturbed' = (disturbed /\ Busy # {})
      /\ actor[Cli].pc = "idle"
      /\ actor' = [a \in Actors |->
                     IF a = Cli THEN [Idle EXCEPT !.pc = "config all"]
                     ELSE IF actor[a].pc = "write" THEN [actor[a] EXCEPT !.pc = "orphan"]
                     ELSE actor[a]]
  BY DEF LogoutAll
<1>3. version \in Nat /\ done \in Nat /\ actor \in [Actors -> ActorState] /\ Cli \in Actors
  BY <1>1 DEF CredentialTypes, Actors
<1>4. /\ actor'[Cli].pc = "config all" /\ actor'[Cli].base = 0 /\ actor'[Cli].asked = 0
      /\ actor'[Cli] \in ActorState
  BY <1>2, <1>3, SomeCredentials DEF ActorState, ActorPc
<1>5. ASSUME NEW b \in Actors, b # Cli
      PROVE  /\ actor'[b] \in ActorState /\ actor'[b].pc # "write"
             /\ actor'[b].base = actor[b].base /\ actor'[b].asked = actor[b].asked
             /\ actor'[b].pc = actor[b].pc \/ (actor[b].pc = "write" /\ actor'[b].pc = "orphan")
  <2>1. CASE actor[b].pc = "write"
    <3>1. actor'[b] = [actor[b] EXCEPT !.pc = "orphan"] /\ actor[b] \in ActorState
      BY <1>2, <1>3, <1>5, <2>1
    <3>2. QED
      BY <2>1, <3>1 DEF ActorState, ActorPc
  <2>2. CASE actor[b].pc # "write"
    BY <1>2, <1>3, <1>5, <2>2
  <2>3. QED
    BY <2>1, <2>2
<1>6. CredentialTypes'
  <2>1. actor' \in [Actors -> ActorState]
    BY <1>2, <1>4, <1>5
  <2>2. commands' \in 0 .. MaxCommands
    <3>1. MaxCommands \in Nat /\ commands \in 0 .. MaxCommands
      BY <1>1, CredentialsAssumption DEF CredentialTypes
    <3>2. commands + 1 \in 0 .. MaxCommands
      BY <1>2, <3>1, OneMore
    <3>3. QED
      BY <1>2, <3>2
  <2>3. authFile' \in [state : {"empty", "corrupt", "whole"}, creds : [Providers -> Credential]]
    BY <1>2, SomeCredentials DEF Whole
  <2>4. owner' \in [Providers -> Nat]
    BY <1>2
  <2>5. version' \in Nat /\ done' \in Nat
    <3>1. \A n \in Nat : n + 1 \in Nat
      OBVIOUS
    <3>2. QED
      BY <1>2, <1>3, <3>1
  <2>6. disturbed' \in BOOLEAN
    BY <1>1, <1>2 DEF CredentialTypes
  <2>7. QED
    BY <1>1, <1>2, <2>1, <2>2, <2>3, <2>4, <2>5, <2>6 DEF CredentialTypes
<1>7. ASSUME NEW b \in Actors PROVE ActorOk(b)'
  <2>1. CASE b = Cli
    <3>1. actor'[Cli].base <= version' /\ actor'[Cli].asked <= done'
      BY <1>4, <1>6, NoneIsLess DEF CredentialTypes
    <3>2. \A p \in Providers : owner'[p] = 0
      BY <1>2
    <3>3. QED
      BY <1>4, <2>1, <3>1, <3>2 DEF ActorOk
  <2>2. CASE b # Cli
    <3>1. ActorOk(b) /\ actor[b].base \in Nat /\ actor[b].asked \in Nat
      BY <1>1, <1>3 DEF ActorState
    <3>2. actor[b].base <= version /\ actor[b].asked <= done
      BY <3>1 DEF ActorOk
    <3>3. actor'[b].base = actor[b].base /\ actor'[b].asked = actor[b].asked
      BY <1>5, <2>2
    <3>4. actor[b].base <= version + 1 /\ actor[b].base # version + 1
      BY <1>3, <3>1, <3>2, StillLess
    <3>5. actor[b].asked <= done + 1 /\ actor[b].asked # done + 1
      BY <1>3, <3>1, <3>2, StillLess
    <3>6. actor'[b].pc \notin {"write", "config", "config all"}
      BY <1>5, <2>2, <3>1 DEF ActorOk
    <3>7. QED
      BY <1>2, <2>2, <3>3, <3>4, <3>5, <3>6 DEF ActorOk
  <2>3. QED
    BY <2>1, <2>2
<1>8. ASSUME ~disturbed' PROVE Undisturbed'
  <2>1. Busy' \subseteq Busy
    BY <1>2, <1>4, <1>5 DEF Busy
  <2>2. \A b, c \in Busy : b = c
    <3>1. CASE Busy = {}
      BY <3>1
    <3>2. CASE Busy # {}
      BY <1>1, <1>2, <1>8, <3>2 DEF Undisturbed
    <3>3. QED
      BY <3>1, <3>2
  <2>3. NobodyWrites'
    BY <1>4, <1>5 DEF NobodyWrites
  <2>4. Readable' /\ HasOwners(Stored)'
    BY <1>2, SomeCredentials DEF Whole, Readable, Stored, HasOwners
  <2>5. ConfigOk'
    BY <1>4 DEF ConfigOk
  <2>6. QED
    BY <2>1, <2>2, <2>3, <2>4, <2>5 DEF Undisturbed, FileOk
<1>9. QED
  BY <1>6, <1>7, <1>8 DEF CredentialsInv

LEMMA UpdateConfigKept == ASSUME CredentialsInv, UpdateConfig PROVE CredentialsInv'
<1>1. CredentialTypes /\ (\A b \in Actors : ActorOk(b)) /\ (~disturbed => Undisturbed)
  BY DEF CredentialsInv
<1>2. /\ UNCHANGED <<authFile, issued, due, commands, owner, done, version, disturbed>>
      /\ actor[Cli].pc \in {"config", "config all"} /\ actor' = [actor EXCEPT ![Cli] = Idle]
  BY DEF UpdateConfig, GiveUp
<1>3. Cli \in Actors /\ actor[Cli] \in ActorState /\ actor \in [Actors -> ActorState]
  BY <1>1 DEF CredentialTypes, Actors
<1>4. /\ actor' \in [Actors -> ActorState] /\ actor'[Cli] = Idle
      /\ \A b \in Actors : b # Cli => actor'[b] = actor[b]
  BY <1>2, <1>3, SomeCredentials
<1>5. /\ authMethod' \in [Providers -> Method]
      /\ ~disturbed => \A p \in Providers : authMethod'[p] # "" <=> owner[p] # 0
  <2>1. ActorOk(Cli) /\ authMethod \in [Providers -> Method]
    BY <1>1, <1>3 DEF CredentialTypes
  <2>2. CASE actor[Cli].pc = "config"
    <3>1. authMethod' = [authMethod EXCEPT ![actor[Cli].provider] = actor[Cli].cred.method]
      BY <2>2 DEF UpdateConfig
    <3>2. actor[Cli].provider \in Providers /\ actor[Cli].cred.method \in Method
      BY <1>3 DEF ActorState, Credential
    <3>3. owner[actor[Cli].provider] # 0 <=> actor[Cli].cred.method # ""
      BY <2>1, <2>2 DEF ActorOk
    <3>4. QED
      BY <1>1, <2>1, <2>2, <3>1, <3>2, <3>3 DEF Undisturbed, ConfigOk
  <2>3. CASE actor[Cli].pc = "config all"
    <3>1. authMethod' = [p \in Providers |-> ""] /\ \A p \in Providers : owner[p] = 0
      BY <2>1, <2>3 DEF UpdateConfig, ActorOk
    <3>2. QED
      BY <3>1 DEF Method
  <2>4. QED
    BY <1>2, <2>2, <2>3
<1>6. CredentialTypes'
  BY <1>1, <1>2, <1>4, <1>5 DEF CredentialTypes
<1>7. ASSUME NEW b \in Actors PROVE ActorOk(b)'
  <2>1. CASE b = Cli
    BY <1>4, <1>6, <2>1, IdleIsOk DEF CredentialTypes
  <2>2. CASE b # Cli
    <3>1. ActorOk(b) /\ actor'[b] = actor[b]
      BY <1>1, <1>4, <2>2
    <3>2. QED
      BY <1>2, <3>1 DEF ActorOk, HasOwners
  <2>3. QED
    BY <2>1, <2>2
<1>8. ASSUME ~disturbed' PROVE Undisturbed'
  <2>1. ~disturbed /\ Undisturbed
    BY <1>1, <1>2, <1>8
  <2>2. Busy' = Busy /\ (NobodyWrites' <=> NobodyWrites)
    BY <1>2, <1>3, <1>4, SomeCredentials DEF Busy, NobodyWrites
  <2>3. FileOk'
    BY <1>2, <2>1, <2>2 DEF Undisturbed, FileOk, HasOwners, Readable, Stored
  <2>4. ConfigOk'
    BY <1>2, <1>5, <2>1 DEF ConfigOk
  <2>5. QED
    BY <2>1, <2>2, <2>3, <2>4 DEF Undisturbed
<1>9. QED
  BY <1>6, <1>7, <1>8 DEF CredentialsInv

LEMMA CredentialsKept == ASSUME CredentialsInv, CredentialsNext PROVE CredentialsInv'
BY LoginCommandKept, LogoutCommandKept, GetTokenKept, LogoutAllKept, UpdateConfigKept,
   ConfigFailsKept, AgeKept, LoadKept, TruncateKept, WriteKept, SaveFailsKept, CrashKept,
   RefreshKept, RefreshFailsKept
DEF CredentialsNext

LEMMA CredentialsRest == CredentialsInv /\ UNCHANGED credentialVars => CredentialsInv'
<1>1. SUFFICES ASSUME CredentialsInv,
                      UNCHANGED <<authFile, authMethod, actor, issued, due, commands, owner, done,
                                  version, disturbed>>
               PROVE  CredentialsInv'
  BY DEF credentialVars
<1>2. CredentialTypes' /\ (\A a \in Actors : ActorOk(a))'
  BY <1>1 DEF CredentialsInv, CredentialTypes, ActorOk, HasOwners
<1>3. (~disturbed => Undisturbed)'
  BY <1>1
  DEF CredentialsInv, Undisturbed, FileOk, ConfigOk, HasOwners, NobodyWrites, Busy, Readable, Stored
<1>4. QED
  BY <1>2, <1>3 DEF CredentialsInv

LEMMA CredentialsMoved == CredentialsInv /\ [CredentialsNext]_credentialVars => CredentialsInv'
BY CredentialsRest, CredentialsKept

\* What a command leaves in auth.json and in config.json stays, for any number of provider calls
\* and commands: only a change that met another one, was based on an older file, or was not
\* completed can undo a login or a logout (store.go:88).
THEOREM CommandsStay == Spec => []CommandsHold
<1>1. CredentialsInv => CommandsHold
  <2>1. SUFFICES ASSUME CredentialsInv, ~disturbed, Busy = {}, actor[Cli].pc = "idle"
                 PROVE  /\ Readable
                        /\ \A p \in Providers :
                             Stored[p].login = owner[p] /\ (authMethod[p] # "" <=> owner[p] # 0)
    BY DEF CommandsHold
  <2>2. NobodyWrites
    BY <2>1 DEF Busy, NobodyWrites
  <2>3. FileOk /\ ConfigOk
    BY <2>1 DEF CredentialsInv, Undisturbed
  <2>4. QED
    BY <2>1, <2>2, <2>3 DEF FileOk, ConfigOk, HasOwners
<1>2. CredentialsInv /\ [Next]_vars => CredentialsInv'
  BY CredentialsMoved, OneMoves
<1>3. QED
  BY <1>1, <1>2, CredentialsStart, PTL DEF Spec

-----------------------------------------------------------------------------
\* Types

\* Every component keeps its types, whichever one moves.
THEOREM TypeCorrect == Spec => []TypeOK
<1>1. LoginInv => LO!TypeOK
  <2>1. SUFFICES ASSUME LoginInv PROVE LO!TypeOK
    OBVIOUS
  <2>2. Len(resultCh) <= 1
    <3>1. Len(<<>>) <= 1 /\ \A h \in Handlers : Len(<<LO!Result(handler[h].request)>>) <= 1
      OBVIOUS
    <3>2. QED
      BY <2>1, <3>1 DEF LoginInv
  <2>3. QED
    BY <2>1, <2>2 DEF LoginInv, HandlerState, LO!TypeOK
<1>2. MigrationInv => MI!TypeOK
  BY DEF MigrationInv, MigrationTypes, ConfigFile, RunState, Todo, MI!TypeOK
<1>3. TodoInv => TL!TypeOK
  BY DEF TodoInv, KnownTodo, ListCall, TL!TypeOK
<1>4. CredentialsInv => CredentialsTypeOK
  BY DEF CredentialsInv, CredentialTypes, ActorState, ActorPc, CredentialsTypeOK
<1>5. Init => component \in Components /\ ProcessorInit /\ QuestionInit
  BY DEF Init
<1>6. component \in Components /\ [Next]_vars => (component \in Components)'
  BY DEF Next, Is, vars
<1>7. /\ LoginInv /\ [Next]_vars => LoginInv'
      /\ MigrationInv /\ [Next]_vars => MigrationInv'
      /\ TodoInv /\ [Next]_vars => TodoInv'
      /\ CredentialsInv /\ [Next]_vars => CredentialsInv'
  BY LoginKept, MigrationKept, TodoKept, CredentialsMoved, OneMoves
<1>8. [Next]_vars => [ProcessorNext]_partsVars /\ [QuestionNext]_questionVars
  BY OneMoves
<1>9. /\ component \in Components /\ ProcessorTypeOK /\ QuestionTypeOK
       /\ LoginInv /\ MigrationInv /\ TodoInv /\ CredentialsInv
       => TypeOK
  BY <1>1, <1>2, <1>3, <1>4 DEF TypeOK
<1>10. QED
  BY <1>5, <1>6, <1>7, <1>8, <1>9, LoginInit, MigrationInit, TodoInit, CredentialsStart,
     ProcessorTypeCorrect, QuestionTypeCorrect, PTL
  DEF Spec, ProcessorSpec, QuestionSpec
=============================================================================
