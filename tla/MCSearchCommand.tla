------------------------- MODULE MCSearchCommand -------------------------
\* Two workers and their commands, for TLC.
EXTENDS SearchCommand

CONSTANTS w1, w2

Noisy == [via |-> "preprocessor", script |-> <<"text", "output", "text">>, code |-> 1, after |-> 0, end |-> "eof"]

\* Children that write more than a pipe holds to stdout, to stderr, to both in
\* turn; that fail silently, with a reason, or over a broken pipe of theirs.
Scripts == { <<"output", "output">>, <<"text", "output", "text">>, <<"output", "pipe">> }
Reading == [via : {"preprocessor"}, script : Scripts \cup {<<>>, <<"text", "text">>}, code : {0, 1},
            after : {0}, end : {"eof"}]
Stopping == [via : {"decompressor"}, script : Scripts, code : {0, 1}, after : {0, 1}, end : {"match", "error"}]
Broken == [via : {"preprocessor"}, script : Scripts, code : {1}, after : {1}, end : {"epipe"}]

SomeCases == Reading \cup Stopping \cup Broken

\* One worker may end early, the other reads on: two that end early may wait
\* for each other's child for good (SCInherit.cfg).
OneStopsInit == Init /\ case[w2] = Noisy
OneStopsSpec == OneStopsInit /\ [][Next]_vars /\ Fairness

\* Both end early, over children that have more to write.
LongCases == {[Noisy EXCEPT !.script = <<"output", "output">>, !.end = "match"]}
==========================================================================
