------------------------------ MODULE TodoList ------------------------------
(***************************************************************************)
(* The to-do tool (pkg/tools/todo.go): one map for all chats under one     *)
(* lock, whose keys begin with the chat, and calls of several turns.  A    *)
(* chat and a key are sequences of characters and words, so that one chat  *)
(* can be a prefix of another.  A list takes pointers under the lock and   *)
(* reads what they point to after it.  Contents and times are left out;    *)
(* which chat the tool was told is AgentTools' business.                   *)
(***************************************************************************)
EXTENDS Sequences, SequencesExt

CONSTANTS
    Chats,       \* "channel:chatID", as sequences
    Ids,         \* ids of to-dos
    Lists,       \* calls that list, at most one by each at a time
    Statuses, Priorities   \* what the model passes: known ones, "" or any other word

VARIABLES
    todos,    \* the keys of the manager's map
    item,     \* what the pointers point to: id -> to-do, deleted ones included
    writing,  \* the status that UpdateTodo is writing under the lock: <<id, status>> or <<>>
    list      \* each call that lists

todoVars == <<todos, item, writing, list>>

KnownStatus == {"in_progress", "pending", "done", "cancelled"}
KnownPriority == {"high", "medium", "low"}
IdleList == [pc |-> "idle", items |-> {}, own |-> {}, shown |-> {}]

Init ==
    /\ todos = {} /\ item = <<>> /\ writing = <<>>
    /\ list = [l \in Lists |-> IdleList]

Key(c, id) == c \o <<":", id>>
IdOf(key) == Last(key)
ChatOf(key) == SubSeq(key, 1, Len(key) - 2)

Unlocked == writing = <<>>

CreateTodo(c, id, priority) ==
    /\ Unlocked /\ id \notin DOMAIN item
    /\ todos' = todos \cup {Key(c, id)}
    /\ item' = [i \in DOMAIN item \cup {id} |->
                  IF i # id THEN item[i]
                  ELSE [status |-> "pending",
                        priority |-> IF priority = "" THEN "medium" ELSE priority]]
    /\ UNCHANGED <<writing, list>>

\* A status is a pointer and a length: until both are written, a reader without the lock may
\* see one of each, which is none of the four statuses, for their lengths differ.
UpdateTodo(c, id, status) ==
    /\ Unlocked /\ status # "" /\ Key(c, id) \in todos
    /\ writing' = <<id, status>>
    /\ item' = [item EXCEPT ![id].status = "torn"]
    /\ UNCHANGED <<todos, list>>

StatusWritten ==
    /\ ~Unlocked
    /\ item' = [item EXCEPT ![writing[1]].status = writing[2]]
    /\ writing' = <<>>
    /\ UNCHANGED <<todos, list>>

DeleteTodo(c, id) ==
    /\ Unlocked /\ Key(c, id) \in todos
    /\ todos' = todos \ {Key(c, id)}
    /\ UNCHANGED <<item, writing, list>>

\* Mutant of Matching: the prefix ends without its colon.
MatchingOpen(c) == {key \in todos : IsStrictPrefix(c, key)}

\* The keys that begin with the chat and ":"
Matching(c) == {key \in todos : IsStrictPrefix(Append(c, ":"), key)}

ClearTodos(c) ==
    /\ Unlocked
    /\ todos' = todos \ Matching(c)
    /\ UNCHANGED <<item, writing, list>>

Passes(key, filter) == filter = "" \/ item[IdOf(key)].status = filter

ListTodos(l, c, filter) ==
    /\ Unlocked /\ list[l].pc = "idle"
    /\ list' = [list EXCEPT ![l] =
                  [pc |-> "format", shown |-> {},
                   items |-> {IdOf(key) : key \in {k \in Matching(c) : Passes(k, filter)}},
                   own |-> {IdOf(key) : key \in {k \in todos : ChatOf(k) = c /\ Passes(k, filter)}}]]
    /\ UNCHANGED <<todos, item, writing>>

Shows(id) == item[id].status \in KnownStatus /\ item[id].priority \in KnownPriority

\* formatTodoList: by status, then by priority, without the lock
FormatTodoList(l) ==
    /\ list[l].pc = "format"
    /\ list' = [list EXCEPT ![l] =
                  [IdleList EXCEPT !.shown = {id \in list[l].items : Shows(id)}]]
    /\ UNCHANGED <<todos, item, writing>>

Next ==
    \/ \E c \in Chats :
         \/ \E id \in Ids :
              \/ \E priority \in Priorities : CreateTodo(c, id, priority)
              \/ \E status \in Statuses : UpdateTodo(c, id, status)
              \/ DeleteTodo(c, id)
         \/ ClearTodos(c)
         \/ \E l \in Lists, filter \in Statuses : ListTodos(l, c, filter)
    \/ StatusWritten
    \/ \E l \in Lists : FormatTodoList(l)

Spec == Init /\ [][Next]_todoVars

-----------------------------------------------------------------------------
TypeOK ==
    /\ todos \subseteq {Key(c, id) : c \in Chats, id \in DOMAIN item}
    /\ DOMAIN item \subseteq Ids
    /\ \A id \in DOMAIN item :
         /\ item[id].status \in Statuses \cup {"pending", "torn"}
         /\ item[id].priority \in Priorities \cup {"medium"}
    /\ writing \in {<<>>} \cup ((DOMAIN item) \X Statuses)
    /\ \A l \in Lists :
         /\ list[l].pc \in {"idle", "format"}
         /\ list[l].items \cup list[l].own \cup list[l].shown \subseteq DOMAIN item

\* The to-dos of a chat are its own.  No call touches those of two chats: clearing one, or
\* changing a to-do by an id that another chat knows, leaves the others' alone, even where one
\* chat's name begins with another's (todo.go:142).  And a list shows all of its own chat's that
\* the filter let through, also those that another turn deleted meanwhile, and no others: one is
\* hidden only by a status or a priority that formatTodoList does not know, which nothing keeps
\* out of the map, or that is just being written (todo.go:333).
Touched == (todos \ todos') \cup (todos' \ todos)
             \cup {k \in todos : IdOf(k) \in DOMAIN item' /\ item'[IdOf(k)] # item[IdOf(k)]}

ChatsStayApart ==
    [][/\ \A k1, k2 \in Touched : ChatOf(k1) = ChatOf(k2)
       /\ \A l \in Lists : list[l].pc = "format" /\ list'[l].pc = "idle" =>
            list'[l].shown = {id \in list[l].own : Shows(id)}]_todoVars
=============================================================================
