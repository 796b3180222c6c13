---------------------------- MODULE MessageParts ----------------------------
(***************************************************************************)
(* What the parts of an assistant's message promise (pkg/message/part.go), *)
(* whatever keeps track of them: the list only grows, a part goes through  *)
(* its life once, a text or a reasoning gathers what is said while it is   *)
(* open, and a tool call that is over does not change.  StreamProcessor    *)
(* implements it.                                                          *)
(***************************************************************************)
EXTENDS Naturals, Sequences, SequencesExt

CONSTANTS ReasoningIds, CallIds

VARIABLE parts

Delta == {"word", "space"}
Key(kind) ==
    CASE kind = "reasoning" -> ReasoningIds [] kind = "tool" -> CallIds [] OTHER -> {""}

\* The first state of a part, and where it goes from there
Born == [text |-> "open", reasoning |-> "open", tool |-> "pending", step |-> "done"]
Kind == DOMAIN Born
Later(status) ==
    CASE status = "pending" -> {"running", "error"}
      [] status = "running" -> {"completed", "error"}
      [] OTHER -> {}

New(kind, key) == [kind |-> kind, key |-> key, status |-> Born[kind], text |-> <<>>]

\* Without the white space at its end
TrimEnd(text) == SubSeq(text, 1, Max({0} \cup {i \in DOMAIN text : text[i] = "word"}))

IsOpen(i) == parts[i].status \in {"open", "pending", "running"}

\* Only the last text can still be open in the stream
Abandoned(i) == parts[i].kind = "text" /\ \E j \in DOMAIN parts : j > i /\ parts[j].kind = "text"

Init == parts = <<>>

\* What an open text had gathered is lost when another one begins
Forget(I) == [i \in DOMAIN parts |-> IF i \in I THEN [parts[i] EXCEPT !.text = <<>>] ELSE parts[i]]

Add(kind, key) ==
    /\ kind \in {"reasoning", "tool"} =>
         ~\E i \in DOMAIN parts : parts[i].kind = kind /\ parts[i].key = key /\ IsOpen(i)
    /\ LET over == {i \in DOMAIN parts : kind = "text" /\ parts[i].kind = "text" /\ IsOpen(i)}
       IN  parts' = Append(Forget(over), New(kind, key))

Say(i, d) ==
    /\ parts[i].status = "open" /\ ~Abandoned(i)
    /\ parts' = [parts EXCEPT ![i].text = Append(@, d)]

Close(i) ==
    /\ parts[i].status = "open" /\ ~Abandoned(i)
    /\ parts' = [parts EXCEPT ![i].status = "done", ![i].text = TrimEnd(@)]

Advance(i) ==
    \E s \in Later(parts[i].status) : parts' = [parts EXCEPT ![i].status = s]

\* The stream ends: what was not closed is lost
EndStream == parts' = Forget({i \in DOMAIN parts : parts[i].status = "open"})

Next ==
    \/ \E kind \in Kind : \E key \in Key(kind) : Add(kind, key)
    \/ \E i \in DOMAIN parts : Close(i) \/ Advance(i) \/ \E d \in Delta : Say(i, d)
    \/ EndStream

Spec == Init /\ [][Next]_parts
=============================================================================
