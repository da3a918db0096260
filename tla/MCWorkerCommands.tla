---------------------------- MODULE MCWorkerCommands ----------------------------
EXTENDS WorkerCommands
CONSTANTS w1, w2, s1, auto, n1

MCHome == [s \in {s1} |-> w1]
================================================================================
