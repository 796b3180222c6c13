---------------------------- MODULE Credentials ----------------------------
(***************************************************************************)
(* The credentials of providers: `mortis-agent auth' logs in and out and   *)
(* rewrites auth.json (pkg/auth/store.go, cmd/mortis-agent/main.go), while *)
(* the provider calls of other processes load it and refresh what is about *)
(* to expire (createCodexTokenSource, createClaudeTokenSource, oauth.go).  *)
(* Every change loads the whole file, changes its copy and writes it back  *)
(* with os.WriteFile, which truncates the file first; nothing is locked.   *)
(* A credential is known by the response that issued it.  How a login gets *)
(* its credential is in Login.                                             *)
(***************************************************************************)
EXTENDS Naturals, FiniteSets

CONSTANTS
    Callers,    \* provider calls, of any process
    MaxIssued,  \* bound on credentials
    MaxCommands \* bound on auth commands

ASSUME CredentialsAssumption ==
    /\ "cli" \notin Callers
    /\ {MaxIssued, MaxCommands} \subseteq Nat

VARIABLES
    authFile,   \* auth.json: whether it parses, and the credentials by provider
    authMethod, \* AuthMethod of each provider in config.json
    actor,      \* the auth command and the provider calls under way
    issued,     \* credentials issued so far
    due,        \* those that renew and are within five minutes of their end
    commands,   \* auth commands so far
    owner,      \* history: the login that the last command left each provider with, 0 for none
    done,       \* history: changes that commands made to auth.json so far
    version,    \* history: changes of auth.json so far
    disturbed   \* history: a write was based on a file that is no more, or did not complete

credentialVars ==
    <<authFile, authMethod, actor, issued, due, commands, owner, done, version, disturbed>>

Providers == {"openai", "anthropic"}
Cli == "cli"
Actors == Callers \cup {Cli}

None == [id |-> 0, login |-> 0, method |-> "", renews |-> FALSE]
NoCredentials == [p \in Providers |-> None]
Torn(state) == [state |-> state, creds |-> NoCredentials]
Whole(store) == [state |-> "whole", creds |-> store]
Idle == [pc |-> "idle", provider |-> "openai", cred |-> None, store |-> NoCredentials,
         base |-> 0, asked |-> 0]

\* What LoadStore returns, when it does not fail; no file is an empty store
Stored == authFile.creds
Readable == authFile.state = "whole"

CredentialsInit ==
    /\ authFile = Whole(NoCredentials)
    /\ authMethod = [p \in Providers |-> ""]
    /\ actor = [a \in Actors |-> Idle]
    /\ issued = 0 /\ due = {} /\ commands = 0
    /\ owner = [p \in Providers |-> 0]
    /\ done = 0 /\ version = 0 /\ disturbed = FALSE

Become(a, pc) == actor' = [actor EXCEPT ![a].pc = pc]
Busy == {a \in Actors : actor[a].pc \in {"write", "orphan"}}

-----------------------------------------------------------------------------
\* SetCredential and DeleteCredential: load, truncate, write

\* The command exits, the call returns
GiveUp(a) == actor' = [actor EXCEPT ![a] = Idle]

\* Mutant of LoadToChange: a change starts from an empty store.
LoadNothing(a) ==
    /\ actor[a].pc = "load"
    /\ actor' = [actor EXCEPT ![a].pc = "truncate", ![a].base = version]
    /\ UNCHANGED <<authFile, authMethod, issued, due, commands, owner, done, version, disturbed>>

LoadToChange(a) ==
    /\ actor[a].pc = "load"
    /\ \/ /\ Readable
          /\ actor' = [actor EXCEPT ![a].pc = "truncate", ![a].store = Stored, ![a].base = version]
       \/ ~Readable /\ GiveUp(a)
    /\ UNCHANGED <<authFile, authMethod, issued, due, commands, owner, done, version, disturbed>>

\* The change is based on a file that is no more, or meets another one, or a command has
\* come and gone since the call read its credential
Stale(a) == actor[a].base # version \/ Busy # {} \/ (a # Cli /\ actor[a].asked # done)

Truncate(a) ==
    /\ actor[a].pc = "truncate"
    /\ authFile' = Torn("empty")
    /\ disturbed' = (disturbed \/ Stale(a))
    /\ Become(a, "write")
    /\ UNCHANGED <<authMethod, issued, due, commands, owner, done, version>>

\* What is left when a text is written over another of a different length
Overwritten(store) == IF authFile.state = "empty" THEN {Whole(store)} ELSE {Whole(store), Torn("corrupt")}

Changed(a) == [actor[a].store EXCEPT ![actor[a].provider] = actor[a].cred]

\* A file that was removed meanwhile is written all the same, and gone
Write(a) ==
    /\ actor[a].pc \in {"write", "orphan"}
    /\ authFile' \in IF actor[a].pc = "write" THEN Overwritten(Changed(a)) ELSE {authFile}
    /\ version' = version + 1
    /\ done' = IF a = Cli THEN done + 1 ELSE done
    /\ owner' = IF a = Cli THEN [owner EXCEPT ![actor[a].provider] = actor[a].cred.login] ELSE owner
    /\ IF a = Cli THEN actor' = [actor EXCEPT ![a].pc = "config", ![a].store = NoCredentials,
                                            ![a].base = 0]
       ELSE GiveUp(a)
    /\ UNCHANGED <<authMethod, issued, due, commands, disturbed>>

\* The file cannot be opened, or the disk is full
SaveFails(a) ==
    /\ actor[a].pc \in {"truncate", "write", "orphan"}
    /\ disturbed' = (disturbed \/ actor[a].pc # "truncate")
    /\ GiveUp(a)
    /\ UNCHANGED <<authFile, authMethod, issued, due, commands, owner, done, version>>

-----------------------------------------------------------------------------
\* mortis-agent auth

\* A credential as a response of the authorization server, or a pasted token, gives it; it
\* renews when it has a refresh token and an end
Issue(login, method, renews) ==
    [id |-> issued + 1, login |-> login, method |-> method, renews |-> renews]

Command(p, cred) ==
    /\ actor[Cli].pc = "idle" /\ commands < MaxCommands
    /\ commands' = commands + 1
    /\ actor' = [actor EXCEPT ![Cli] = [Idle EXCEPT !.pc = "load", !.provider = p, !.cred = cred]]
    /\ UNCHANGED <<authFile, authMethod, due, owner, done, version, disturbed>>

\* authLoginOpenAI, whose credential need not renew, and
\* authLoginPasteToken
Login(p) ==
    /\ issued < MaxIssued
    /\ issued' = issued + 1
    /\ \E renews \in BOOLEAN :
         Command(p, IF p = "openai" THEN Issue(commands + 1, "oauth", renews)
                    ELSE Issue(commands + 1, "token", FALSE))

Logout(p) == Command(p, None) /\ UNCHANGED issued

\* DeleteAllCredentials
LogoutAll ==
    /\ actor[Cli].pc = "idle" /\ commands < MaxCommands
    /\ commands' = commands + 1
    /\ authFile' = Whole(NoCredentials)
    /\ version' = version + 1 /\ done' = done + 1
    /\ owner' = [p \in Providers |-> 0]
    /\ disturbed' = (disturbed /\ Busy # {})
    /\ actor' = [a \in Actors |->
                   IF a = Cli THEN [Idle EXCEPT !.pc = "config all"]
                   ELSE IF actor[a].pc = "write" THEN [actor[a] EXCEPT !.pc = "orphan"]
                   ELSE actor[a]]
    /\ UNCHANGED <<authMethod, issued, due>>

\* The command changes config.json last, and only warns when it cannot
UpdateConfig ==
    /\ actor[Cli].pc \in {"config", "config all"}
    /\ GiveUp(Cli)
    /\ \/ /\ actor[Cli].pc = "config"
          /\ authMethod' = [authMethod EXCEPT ![actor[Cli].provider] = actor[Cli].cred.method]
       \/ /\ actor[Cli].pc = "config all"
          /\ authMethod' = [p \in Providers |-> ""]
    /\ UNCHANGED <<authFile, issued, due, commands, owner, done, version, disturbed>>

ConfigFails ==
    /\ actor[Cli].pc \in {"config", "config all"}
    /\ GiveUp(Cli)
    /\ disturbed' = TRUE
    /\ UNCHANGED <<authFile, authMethod, issued, due, commands, owner, done, version>>

-----------------------------------------------------------------------------
\* Provider calls

NeedsRefresh(cred) == cred.method = "oauth" /\ cred.id \in due

\* GetCredential of the token source.  A call that finds none, or a broken file, fails, and one
\* that need not be refreshed is used: neither changes anything.
GetToken(a, p) ==
    /\ actor[a].pc = "idle"
    /\ Readable /\ NeedsRefresh(Stored[p])
    /\ actor' = [actor EXCEPT ![a] = [Idle EXCEPT !.pc = "refresh", !.provider = p,
                                                 !.cred = Stored[p], !.asked = done]]
    /\ UNCHANGED <<authFile, authMethod, issued, due, commands, owner, done, version, disturbed>>

\* The response is the whole new credential, whatever the old one had
RefreshAccessToken(a) ==
    /\ actor[a].pc = "refresh" /\ issued < MaxIssued
    /\ \E renews \in BOOLEAN :
         actor' = [actor EXCEPT ![a].cred = Issue(@.login, "oauth", renews), ![a].pc = "load"]
    /\ issued' = issued + 1
    /\ UNCHANGED <<authFile, authMethod, due, commands, owner, done, version, disturbed>>

RefreshFails(a) ==
    /\ actor[a].pc = "refresh"
    /\ GiveUp(a)
    /\ UNCHANGED <<authFile, authMethod, issued, due, commands, owner, done, version, disturbed>>

\* The last five minutes of a credential begin
Age ==
    /\ Readable
    /\ \E p \in Providers :
         /\ Stored[p].renews /\ Stored[p].id \notin due
         /\ due' = due \cup {Stored[p].id}
    /\ UNCHANGED <<authFile, authMethod, actor, issued, commands, owner, done, version, disturbed>>

\* A process ends
Crash(a) ==
    /\ actor[a].pc # "idle"
    /\ GiveUp(a)
    /\ disturbed' = (disturbed \/ actor[a].pc \in {"write", "config", "config all"})
    /\ UNCHANGED <<authFile, authMethod, issued, due, commands, owner, done, version>>

CredentialsNext ==
    \/ \E p \in Providers : Login(p) \/ Logout(p) \/ \E a \in Callers : GetToken(a, p)
    \/ LogoutAll \/ UpdateConfig \/ ConfigFails \/ Age
    \/ \E a \in Actors : LoadToChange(a) \/ Truncate(a) \/ Write(a) \/ SaveFails(a) \/ Crash(a)
    \/ \E a \in Callers : RefreshAccessToken(a) \/ RefreshFails(a)

CredentialsSpec == CredentialsInit /\ [][CredentialsNext]_credentialVars

-----------------------------------------------------------------------------
Method == {"", "oauth", "token"}
Credential == [id : 0 .. MaxIssued, login : 0 .. MaxCommands, method : Method,
               renews : BOOLEAN]

CredentialsTypeOK ==
    /\ authFile \in [state : {"empty", "corrupt", "whole"}, creds : [Providers -> Credential]]
    /\ authMethod \in [Providers -> Method]
    /\ \A a \in Actors :
         /\ actor[a].pc \in {"idle", "refresh", "load", "truncate", "write",
                             "orphan", "config", "config all"}
         /\ actor[a].provider \in Providers /\ actor[a].cred \in Credential
         /\ actor[a].store \in [Providers -> Credential]
    /\ issued \in 0 .. MaxIssued /\ commands \in 0 .. MaxCommands
    /\ due \subseteq 0 .. MaxIssued

\* What a command leaves in auth.json and in config.json stays until the next one: provider
\* calls refresh a credential and keep its login, and leave the other provider alone.  A
\* logout, or a login, is undone only by a call that was refreshing at the time, by two
\* changes that meet, or when a change does not complete (store.go:88, codex_provider.go:253).
CommandsHold ==
    ~disturbed /\ Busy = {} /\ actor[Cli].pc = "idle" =>
      /\ Readable
      /\ \A p \in Providers : Stored[p].login = owner[p] /\ (authMethod[p] # "" <=> owner[p] # 0)
=============================================================================
