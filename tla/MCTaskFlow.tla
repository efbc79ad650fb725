----------------------------- MODULE MCTaskFlow -----------------------------
(* Model values and programs for checking TaskFlow.tla with TLC.             *)
EXTENDS TaskFlow

CONSTANTS f1, f2

Do(kind, i) == [kind |-> kind, next |-> {i + 1}]
If(then, else) == [kind |-> "condition", next |-> {then, else}]

\* Two sleeps in a row; a branch over a chat; a step that may raise; a loop.
MCPrograms == {
    <<Do("sleep", 1), Do("sleep", 2)>>,
    <<Do("chat", 1), If(3, 4), Do("noop", 3)>>,
    <<Do("work", 1), Do("bad", 2)>>,
    <<Do("noop", 1), If(1, 3)>>}
=============================================================================
