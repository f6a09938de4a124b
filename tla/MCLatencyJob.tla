----------------------------- MODULE MCLatencyJob -----------------------------
(* LatencyJob for TLC: the configuration has two nodes and two workers,    *)
(* a client and channels of one event, without symmetry since it checks    *)
(* liveness.                                                               *)
EXTENDS LatencyJob
=============================================================================
