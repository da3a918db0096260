---- MODULE MCWorkerRun ----
(* Instances of WorkerRun: one run with two calls, so that a stray thread of   *)
(* the first call meets the second, and answers that take every way through    *)
(* the hooks: plain, plain with a tag behind it, a window that lets "<" go,    *)
(* closed and open <final>, a tool call before, behind and instead of it.      *)
EXTENDS WorkerRun

MCAnswers == {
    <<"x", "x", "x", "x">>, <<"x", "<", "t", "x">>, <<"<", "x", "x", "x">>, <<"<", "x", "<", "t">>,
    <<"<", "f", "x", "x", "<", "/", "x">>, <<"<", "f", "<", "x", "x">>, <<"x", "<", "f", "x", "x">>,
    <<"<", "t", "<", "f", "x">>, <<"<", "<", "f", "<", "t", "<", "/">>}
=============================================================================
