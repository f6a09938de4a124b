------------------------------- MODULE ProbeJob -------------------------------
(***************************************************************************)
(* What a latency job promises to those that read its status: it counts    *)
(* one result at a time, never more than the nodes it was started with,    *)
(* ends only when all of them are counted, stays ended, and nobody is told *)
(* that it ended before.  SubscriptionLatencyJobStatus of                  *)
(* server/internal/service/subscription_latency_job.go.                    *)
(***************************************************************************)
EXTENDS Naturals

CONSTANTS Clients   (* those that follow the job *)

VARIABLES status, total, success, failed,
          told      (* the clients that were told of the job's end *)

Init ==
  /\ status = "none"
  /\ total = 0 /\ success = 0 /\ failed = 0
  /\ told = {}

Begin ==
  /\ status = "none"
  /\ status' = "running"
  /\ total' \in Nat
  /\ UNCHANGED <<success, failed, told>>

Count ==
  /\ status = "running" /\ success + failed < total
  /\ \/ success' = success + 1 /\ failed' = failed
     \/ failed' = failed + 1 /\ success' = success
  /\ UNCHANGED <<status, total, told>>

End ==
  /\ status = "running" /\ success + failed = total
  /\ status' = "done"
  /\ UNCHANGED <<total, success, failed, told>>

Tell(c) ==
  /\ status = "done"
  /\ told' = told \cup {c}
  /\ UNCHANGED <<status, total, success, failed>>

Next == Begin \/ Count \/ End \/ \E c \in Clients : Tell(c)

Spec == Init /\ [][Next]_<<status, total, success, failed, told>>
=============================================================================
