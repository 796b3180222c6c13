------------------------------ MODULE Services ------------------------------
(***************************************************************************)
(* Six components that share nothing with each other, checked in one       *)
(* run: Init chooses the component a behaviour is about, which moves while *)
(* the others rest.  Those that have proofs of their own are extended, so  *)
(* that the run checks the very properties the theorems state; the others  *)
(* are instances.                                                          *)
(***************************************************************************)
EXTENDS StreamProcessor, Question, Credentials

CONSTANTS
    Handlers,                                  \* of Login
    Paths, Files, BakOf,                       \* of Migration
    MyConfigs, ClawConfigs, MaxRuns,
    Chats, Ids, Lists, Statuses, Priorities,   \* of TodoList
    Characters                                 \* what Chats are made of

VARIABLES
    component,
    way, login, resultCh, handler, granted, outcome,
    source, file, clawConfig, config, run, runs, mine, before, touched,
    todos, item, writing, list

loginVars == <<way, login, resultCh, handler, granted, outcome>>
migrationVars == <<source, file, clawConfig, config, run, runs, mine, before, touched>>
todoVars == <<todos, item, writing, list>>

Components == {"parts", "question", "credentials", "login", "migration", "todo"}

-----------------------------------------------------------------------------
\* Instances

LO == INSTANCE Login
MI == INSTANCE Migration
TL == INSTANCE TodoList

ASSUME ServicesAssumption ==
    /\ Files \subseteq Paths /\ BakOf \in [Files -> Paths]
    /\ \A f, g \in Files : BakOf[f] # f /\ (BakOf[f] = BakOf[g] => f = g)
    /\ MyConfigs \cup ClawConfigs \subseteq MI!Config
    /\ MaxRuns \in Nat
    /\ Chats \subseteq Seq(Characters)
    /\ \A c, d \in Chats : ~TL!IsPrefix(Append(c, ":"), d)

-----------------------------------------------------------------------------
\* A component at rest

NoLogin ==
    /\ way = "browser" /\ login = "ended" /\ resultCh = <<>> /\ granted = FALSE /\ outcome = ""
    /\ handler = [h \in Handlers |-> [pc |-> "none", request |-> [ours |-> FALSE, code |-> FALSE]]]

NoMigration ==
    /\ source = MI!Held(Files, {}, "claw") /\ file = MI!Held(Paths, {}, "mine")
    /\ before = file /\ touched = {}
    /\ clawConfig = MI!Absent /\ config = MI!Absent /\ mine = config
    /\ run = MI!NoRun /\ runs = 0

Init ==
    /\ component \in Components
    /\ ProcessorInit /\ QuestionInit /\ CredentialsInit /\ TL!Init
    /\ IF component = "login" THEN LO!Init ELSE NoLogin
    /\ IF component = "migration" THEN MI!Init ELSE NoMigration

Is(c) == component = c /\ UNCHANGED component

Next ==
    \/ /\ Is("parts") /\ ProcessorNext
       /\ UNCHANGED <<questionVars, credentialVars, loginVars, migrationVars, todoVars>>
    \/ /\ Is("question") /\ QuestionNext
       /\ UNCHANGED <<partsVars, credentialVars, loginVars, migrationVars, todoVars>>
    \/ /\ Is("credentials") /\ CredentialsNext
       /\ UNCHANGED <<partsVars, questionVars, loginVars, migrationVars, todoVars>>
    \/ /\ Is("login") /\ LO!Next
       /\ UNCHANGED <<partsVars, questionVars, credentialVars, migrationVars, todoVars>>
    \/ /\ Is("migration") /\ MI!Next
       /\ UNCHANGED <<partsVars, questionVars, credentialVars, loginVars, todoVars>>
    \/ /\ Is("todo") /\ TL!Next
       /\ UNCHANGED <<partsVars, questionVars, credentialVars, loginVars, migrationVars>>

vars == <<component, partsVars, questionVars, credentialVars, loginVars, migrationVars, todoVars>>

Spec == Init /\ [][Next]_vars

\* The fairness of Question and of Login
FairSpec ==
    /\ Spec
    /\ \A a \in Askers : WF_questionVars(Ask(a))
    /\ WF_loginVars(LO!LoginStep) /\ SF_loginVars(LO!DeviceTimeout)

-----------------------------------------------------------------------------
TypeOK ==
    /\ component \in Components
    /\ ProcessorTypeOK /\ QuestionTypeOK /\ CredentialsTypeOK
    /\ LO!TypeOK /\ MI!TypeOK /\ TL!TypeOK

\* A login that succeeds had the user's consent (oauth.go:66, oauth.go:242).
SuccessNeedsConsent == LO!SuccessNeedsConsent

\* A login ends, also when more requests reach its callback than its channel holds (oauth.go:91).
LoginEnds == LO!LoginEnds

\* A file that a migration found is in its place or in its backup, whatever fails, unless the
\* agent wrote one of the two or OpenClaw has a file that takes one of the paths (migrate.go:169).
KeptOrBackedUp == MI!KeptOrBackedUp

\* What ConfigKeepsMine names stays as the user left it, however often the migration runs
\* (config.go:174).
ConfigKeepsMine == MI!ConfigKeepsMine

\* No call of the to-do tool touches the to-dos of two chats, and a list shows its own chat's
\* (todo.go:142, todo.go:333).
ChatsStayApart == TL!ChatsStayApart
=============================================================================
