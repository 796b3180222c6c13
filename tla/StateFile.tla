----------------------------- MODULE StateFile -----------------------------
(***************************************************************************)
(* The last active channel of a workspace (pkg/state/state.go): managers   *)
(* that keep it in memory and in state/state.json, which each replaces as  *)
(* a whole through one temporary file, and the migration of state.json     *)
(* from where older versions kept it.  A manager is locked from a change   *)
(* to the end of its save.  The time stamp is left out, and so is          *)
(* LastChatID, which nobody sets.                                          *)
(***************************************************************************)
EXTENDS Naturals

CONSTANTS
    Managers,
    Channels    \* values of LastChannel

VARIABLES
    file,    \* the state at the old place, the new place and in the temporary file
    memory,  \* state.LastChannel of each manager
    saving,  \* where each manager is in saveAtomic
    saved    \* history: what the last save that succeeded should have left

stateVars == <<file, memory, saving, saved>>

Place == {"old", "new", "temp"}
\* "" is a state without a channel; "absent" is no file, "corrupt" one that does not parse
Content == Channels \cup {"", "absent", "corrupt"}

Init ==
    /\ file \in [old : Content, new : {"absent"}, temp : {"absent"}]
    /\ memory = [m \in Managers |-> ""]
    /\ saving = [m \in Managers |-> "no"]
    /\ saved = file.new

Unlocked(m) == saving[m] = "no"

\* NewManager: load, or take over the old file
NewManager(m) ==
    /\ Unlocked(m)
    /\ \/ /\ file.new = "absent"
          /\ file.old \notin {"absent", "corrupt"}
          /\ memory' = [memory EXCEPT ![m] = file.old]
          /\ saving' = [saving EXCEPT ![m] = "write"]
       \/ /\ file.new # "absent" \/ file.old \in {"absent", "corrupt"}
          /\ memory' = [memory EXCEPT ![m] = IF file.new \in {"absent", "corrupt"} THEN ""
                                             ELSE file.new]
          /\ UNCHANGED saving
    /\ UNCHANGED <<file, saved>>

SetLastChannel(m, channel) ==
    /\ Unlocked(m)
    /\ memory' = [memory EXCEPT ![m] = channel]
    /\ saving' = [saving EXCEPT ![m] = "write"]
    /\ UNCHANGED <<file, saved>>

-----------------------------------------------------------------------------
\* saveAtomic

\* Mutant of WriteTemp: the state file is written in place.
WriteInPlace(m) ==
    /\ saving[m] = "write"
    /\ \/ /\ file' = [file EXCEPT !.temp = memory[m], !.new = "corrupt"]
          /\ saving' = [saving EXCEPT ![m] = "rename"]
       \/ /\ file' = [file EXCEPT !.new = "corrupt"]
          /\ saving' = [saving EXCEPT ![m] = "no"]
    /\ UNCHANGED <<memory, saved>>

\* os.WriteFile, which may fail and leave part of the file
WriteTemp(m) ==
    /\ saving[m] = "write"
    /\ \/ /\ file' = [file EXCEPT !.temp = memory[m]]
          /\ saving' = [saving EXCEPT ![m] = "rename"]
       \/ /\ file' = [file EXCEPT !.temp = "corrupt"]
          /\ saving' = [saving EXCEPT ![m] = "no"]
    /\ UNCHANGED <<memory, saved>>

\* os.Rename, or when it fails os.Remove of the temporary file
Rename(m) ==
    /\ saving[m] = "rename"
    /\ saving' = [saving EXCEPT ![m] = "no"]
    /\ \/ /\ file' = [file EXCEPT !.new = file.temp, !.temp = "absent"]
          /\ saved' = memory[m]
       \/ /\ file' = [file EXCEPT !.temp = "absent"]
          /\ UNCHANGED saved
    /\ UNCHANGED memory

\* The process ends at any point, also in the middle of writing the temporary file
Crash ==
    /\ file' \in {file} \cup {[file EXCEPT !.temp = "corrupt"] : m \in {n \in Managers : saving[n] = "write"}}
    /\ memory' = [m \in Managers |-> ""]
    /\ saving' = [m \in Managers |-> "no"]
    /\ UNCHANGED saved

-----------------------------------------------------------------------------
TypeOK ==
    /\ file \in [Place -> Content]
    /\ memory \in [Managers -> Channels \cup {""}]
    /\ saving \in [Managers -> {"no", "write", "rename"}]
    /\ saved \in Content

\* Whatever fails or crashes, and although the managers share one temporary file, the state
\* file holds the whole state of the last save that succeeded, never part of one or of
\* another manager's (state.go:131).
StateFileIsWhole == file.new = saved
=============================================================================
