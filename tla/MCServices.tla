----------------------------- MODULE MCServices -----------------------------
(* Instances of Services for TLC. *)
EXTENDS Services

\* Options of a question: none, and two of which the second may be chosen by number
TwoLists == {<<>>, <<"no", "yes">>}

\* A file, and one that is called like its backup
TheBackup == [f \in {"X", "X.bak"} |-> IF f = "X" THEN "X.bak" ELSE "X.bak.bak"]

\* A configuration whose telegram, search and moonshot are who's, if they are set, and whose
\* openai and vllm are as given
Cfg(who, key, base, method, enabled) ==
    [providers |-> [openai |-> [key |-> key, base |-> "", method |-> method],
                    vllm |-> [key |-> "", base |-> base, method |-> ""],
                    moonshot |-> [key |-> who, base |-> "", method |-> ""]],
     telegram |-> [enabled |-> enabled, token |-> who], brave |-> key]
SomeOfMine == {Cfg("mine", key, base, method, base = "") :
                 key \in {"", "mine"}, base \in {"", "mine"}, method \in {"", "oauth"}}
AllOfClaw == {Cfg("claw", "claw", "claw", "", TRUE)}

\* A migration with files, or one with configurations: a run does one after the other, and
\* neither looks at what the other did.
FilesOrConfigurations ==
    component = "migration" =>
      \/ mine.state = "absent" /\ clawConfig.state = "absent"
      \/ source = MI!Held(Files, {}, "claw") /\ file = MI!Held(Paths, {}, "mine")

\* A chat whose name begins with another's
ChatAndPrefix == {<<"telegram", ":", "1">>, <<"telegram", ":", "1", "2">>}
=============================================================================
