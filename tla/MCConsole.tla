------------------------------- MODULE MCConsole -------------------------------
(* 7 is too small for a time limit and too many retries; 0 stands for an  *)
(* emptied input as well.                                                  *)
EXTENDS Console

MCFields == {"latency_timeout_ms", "fetch_retries"}
===============================================================================
