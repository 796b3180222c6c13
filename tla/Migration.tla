------------------------------ MODULE Migration ------------------------------
(***************************************************************************)
(* `mortis-agent migrate' (pkg/migrate): a run plans what to copy from an  *)
(* OpenClaw installation, may ask the user, and then converts and merges   *)
(* the configuration and copies the files of the workspace, one after the  *)
(* other, going on when one fails.  A file is backed up beside itself, on  *)
(* a path that the plan may contain too: the walk over memory and skills   *)
(* takes MEMORY.md.bak like any other file.  The agent may write its files *)
(* at any time, and the user may change the configuration.  Contents are   *)
(* known by who wrote them for which path; directories, which are only     *)
(* created, are left out, and so are environment variables.                *)
(***************************************************************************)
EXTENDS Naturals, FiniteSets

CONSTANTS
    Paths,          \* paths of the workspace
    Files,          \* those that can be migrated
    BakOf,          \* the path of a file's backup
    MyConfigs,      \* configurations that the user gives this program
    ClawConfigs,    \* configurations of OpenClaw
    MaxRuns

VARIABLES
    source,    \* OpenClaw's files
    file,      \* what this program's workspace holds
    clawConfig, \* what LoadOpenClawConfig finds
    config,    \* config.json
    run,       \* the run under way
    runs,
    mine,      \* history: the configuration as the user left it
    before,    \* history: the files that the last plan promises to keep, as they were then
    touched    \* history: paths that the agent has written since

migrationVars == <<source, file, clawConfig, config, run, runs, mine, before, touched>>
filesVars == <<source, file, before, touched>>
configVars == <<clawConfig, config, mine>>

-----------------------------------------------------------------------------
\* Configurations.  Moonshot stands for the providers that are not migrated.
Migrated == {"openai", "vllm"}
ConfigProviders == Migrated \cup {"moonshot"}
Owner == {"", "mine", "claw"}
ProviderConfig == [key : Owner, base : Owner, method : {"", "oauth"}]
Config == [providers : [ConfigProviders -> ProviderConfig],
           telegram : [enabled : BOOLEAN, token : Owner], brave : Owner]

NoProvider == [key |-> "", base |-> "", method |-> ""]
DefaultConfig == [providers |-> [p \in ConfigProviders |-> NoProvider],
                  telegram |-> [enabled |-> FALSE, token |-> ""], brave |-> ""]
Absent == [state |-> "absent", content |-> DefaultConfig]
Broken == [state |-> "broken", content |-> DefaultConfig]
Whole(c) == [state |-> "whole", content |-> c]

\* ConvertConfig: keys and bases of the providers it supports
ConvertConfig(c) ==
    [c EXCEPT !.providers = [p \in ConfigProviders |->
        IF p \in Migrated THEN [NoProvider EXCEPT !.key = c.providers[p].key,
                                                  !.base = c.providers[p].base]
        ELSE NoProvider]]

\* Mutant of Fills: a VLLM server without a key is taken for none.
FillsByKey(p, existing) == p \in Migrated /\ existing.key = ""

\* Whether MergeConfig takes the whole provider from OpenClaw
Fills(p, existing) ==
    /\ p \in Migrated /\ existing.key = ""
    /\ p = "vllm" => existing.base = ""

MergeConfig(existing, incoming) ==
    [providers |-> [p \in ConfigProviders |->
        IF Fills(p, existing.providers[p]) THEN incoming.providers[p] ELSE existing.providers[p]],
     telegram |-> IF ~existing.telegram.enabled /\ incoming.telegram.enabled
                  THEN incoming.telegram ELSE existing.telegram,
     brave |-> IF existing.brave = "" THEN incoming.brave ELSE existing.brave]

-----------------------------------------------------------------------------
Options == [dryRun : BOOLEAN, configOnly : BOOLEAN, workspaceOnly : BOOLEAN,
            force : BOOLEAN, refresh : BOOLEAN]
NoRun == [pc |-> "idle", force |-> FALSE, config |-> FALSE, plan |-> [f \in Files |-> "skip"]]

\* What a path holds: who wrote it, and for which path
Content == [by : {"absent", "mine", "claw", "part", "agent"}, of : Paths]
By(who, p) == [by |-> who, of |-> p]
Held(S, present, who) == [p \in S |-> By(IF p \in present THEN who ELSE "absent", p)]

Init ==
    /\ source \in {Held(Files, present, "claw") : present \in SUBSET Files}
    /\ file \in {Held(Paths, present, "mine") : present \in SUBSET Paths}
    /\ clawConfig \in {Absent, Broken} \cup {Whole(c) : c \in ClawConfigs}
    /\ config \in {Absent} \cup {Whole(c) : c \in MyConfigs}
    /\ mine = config
    /\ run = NoRun /\ runs = 0
    /\ before = file /\ touched = {}

\* planFileCopy
PlanFile(f, force) ==
    IF source[f].by = "absent" THEN "skip"
    ELSE IF file[f].by # "absent" /\ ~force THEN "backup"
    ELSE "copy"

\* Run: flags that exclude each other and a missing configuration end it, and so does a dry run
Plan(o) ==
    LET workspaceOnly == o.workspaceOnly \/ o.refresh
        force == o.force \/ o.refresh IN
    /\ run.pc = "idle" /\ runs < MaxRuns
    /\ ~(o.configOnly /\ o.workspaceOnly) /\ ~o.dryRun
    /\ o.configOnly /\ ~workspaceOnly => clawConfig.state # "absent"
    /\ run' = [pc |-> IF o.force THEN "config" ELSE "confirm",
               force |-> force,
               config |-> ~workspaceOnly /\ clawConfig.state # "absent",
               plan |-> [f \in Files |-> IF o.configOnly THEN "skip" ELSE PlanFile(f, force)]]
    /\ runs' = runs + 1
    /\ before' = IF force THEN Held(Paths, {}, "mine") ELSE file
    /\ touched' = {}
    /\ UNCHANGED <<source, file, configVars>>

Confirm(yes) ==
    /\ run.pc = "confirm"
    /\ run' = IF yes THEN [run EXCEPT !.pc = "config"] ELSE NoRun
    /\ UNCHANGED <<runs, filesVars, configVars>>

\* executeConfigMigration: it fails when a configuration does not parse, and SaveConfig may
\* fail and leave the file as it was or a part of it
ExecuteConfig ==
    /\ run.pc = "config"
    /\ run' = [run EXCEPT !.pc = "files"]
    /\ LET incoming == ConvertConfig(clawConfig.content)
           merged == IF config.state = "whole" THEN MergeConfig(config.content, incoming)
                     ELSE incoming
       IN  config' \in IF run.config /\ clawConfig.state = "whole" /\ config.state # "broken"
                       THEN {Whole(merged), Broken, config} ELSE {config}
    /\ UNCHANGED <<runs, filesVars, clawConfig, mine>>

\* copyFile of content to the path p truncates and copies
Written(content, p) == [file EXCEPT ![p] = content]
\* It may fail before or after it began
Failed(p) == {file, Written(By("part", p), p)}

\* Files are done one by one, a file of a directory before one that has its name and more
Free(f) ==
    /\ run.pc = "files" /\ \A g \in Files \ {f} : run.plan[g] # "overwrite"
    /\ \A g \in Files : BakOf[g] = f => run.plan[g] = "skip"

\* Mutant of Backup: the file is copied although the backup failed.
BackupAnyway(f) ==
    /\ Free(f) /\ run.plan[f] = "backup"
    /\ file' \in Failed(BakOf[f]) \cup {Written(file[f], BakOf[f])}
    /\ run' = [run EXCEPT !.plan[f] = "overwrite"]
    /\ UNCHANGED <<runs, source, before, touched, configVars>>

Backup(f) ==
    /\ Free(f) /\ run.plan[f] = "backup"
    /\ \/ /\ file' = Written(file[f], BakOf[f])
          /\ run' = [run EXCEPT !.plan[f] = "overwrite"]
       \/ /\ file' \in Failed(BakOf[f])
          /\ run' = [run EXCEPT !.plan[f] = "skip"]
    /\ UNCHANGED <<runs, source, before, touched, configVars>>

Copy(f) ==
    /\ Free(f) /\ run.plan[f] \in {"copy", "overwrite"}
    /\ file' \in Failed(f) \cup {Written(source[f], f)}
    /\ run' = [run EXCEPT !.plan[f] = "skip"]
    /\ UNCHANGED <<runs, source, before, touched, configVars>>

EndRun ==
    /\ run.pc = "files" /\ \A f \in Files : run.plan[f] = "skip"
    /\ run' = NoRun
    /\ UNCHANGED <<runs, filesVars, configVars>>

Crash ==
    /\ run.pc # "idle"
    /\ run' = NoRun
    /\ UNCHANGED <<runs, filesVars, configVars>>

\* The agent writes a file, for instance one of its memory
AgentWrites(p) ==
    /\ p \notin touched
    /\ file' = Written(By("agent", p), p)
    /\ touched' = touched \cup {p}
    /\ UNCHANGED <<run, runs, source, before, configVars>>

\* The user changes the configuration, which the program reads and writes in one go (SaveConfig
\* of onboard and auth, or an editor)
Configure(c) ==
    /\ config' = Whole(c) /\ mine' = config'
    /\ UNCHANGED <<run, runs, filesVars, clawConfig>>

Next ==
    \/ \E o \in Options : Plan(o)
    \/ \E yes \in BOOLEAN : Confirm(yes)
    \/ ExecuteConfig \/ EndRun \/ Crash
    \/ \E f \in Files : Backup(f) \/ Copy(f)
    \/ \E p \in Paths : AgentWrites(p)
    \/ \E c \in MyConfigs : Configure(c)

Spec == Init /\ [][Next]_migrationVars

-----------------------------------------------------------------------------
TypeOK ==
    /\ source \in [Files -> Content] /\ {file, before} \subseteq [Paths -> Content]
    /\ {config, mine, clawConfig} \subseteq [state : {"absent", "broken", "whole"}, content : Config]
    /\ run.pc \in {"idle", "confirm", "config", "files"}
    /\ run.plan \in [Files -> {"skip", "backup", "overwrite", "copy"}]
    /\ touched \subseteq Paths /\ runs \in 0 .. MaxRuns

\* What a file held when a run was planned is in it or in its backup after the run, at every
\* point of it, and when steps of it fail or the process ends, unless backups were switched
\* off, the agent wrote one of the two meanwhile, or OpenClaw has a file of the backup's name
\* or one whose backup has this file's name (migrate.go:169).
Apart(f) == \A g \in Files : source[g].by # "absent" => BakOf[f] # g /\ BakOf[g] # f
KeptOrBackedUp ==
    \A f \in Files :
      before[f].by # "absent" /\ {f, BakOf[f]} \cap touched = {} /\ Apart(f)
        => before[f] \in {file[f], file[BakOf[f]]}

\* Whatever the user configures, and however often migrations run before and after, these stay
\* as the user left them: a provider that has a key (for VLLM, a key or a server) or is not
\* migrated, a channel that is enabled, and the key of the search.  The rest may be taken from
\* OpenClaw, with the sign-in of a provider that has no key (config.go:174).
ConfigKeepsMine ==
    mine.state = "whole" /\ config.state = "whole" =>
      LET was == mine.content
          is == config.content IN
      /\ \A p \in ConfigProviders :
           was.providers[p].key # "" \/ p \notin Migrated \/ (p = "vllm" /\ was.providers[p].base # "")
             => is.providers[p] = was.providers[p]
      /\ was.telegram.enabled => is.telegram = was.telegram
      /\ was.brave # "" => is.brave = was.brave
=============================================================================
