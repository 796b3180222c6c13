-------------------------- MODULE MCStreamPipeline --------------------------
(* Instances of StreamPipeline for TLC. *)
EXTENDS StreamPipeline

CONSTANTS c1, c2

OneChat == {c1}
OtherChat == {c2}
TwoChats == {c1, c2}
TerminalOnly == {Terminal}
NoChat == {}
JobChats == {c2, Terminal}

\* a remark before a tool call, and an answer with white space at its end that is longer
\* than a message also without it
AnyResponse == {[chunks |-> 1, blanks |-> 0, calls |-> 1], [chunks |-> 4, blanks |-> 1, calls |-> 0]}
RemarkAndAnswer == {[chunks |-> 1, blanks |-> 0, calls |-> 1], [chunks |-> 1, blanks |-> 0, calls |-> 0]}
LongAnswer == {[chunks |-> 4, blanks |-> 0, calls |-> 0]}
=============================================================================
